------------------------------- MODULE Metrics -------------------------------
(***************************************************************************)
(* The sliding windows and per-flow tables behind the metrics: the global  *)
(* ThroughputWindow, the Modbus window of DerivedMetrics, the percentile   *)
(* aggregator and PerfTracker.                                             *)
(*                                                                         *)
(* The capture thread records one frame at a time under the engine lock.   *)
(* The asyncio thread ("the loop") reads: the perf snapshot takes the      *)
(* lock, metrics_snapshot and the CSV queries do not.  A step here is one  *)
(* operation on a deque, list or dict (atomic under the GIL).  A deque     *)
(* that changes while it is iterated makes the iterator raise, and so does *)
(* a dict whose size changes; the job that was iterating is given up.      *)
(*                                                                         *)
(* Frames are numbered in capture order, windows hold frame numbers, and   *)
(* the latency of a frame is only "measured" or not.  A frame has the time *)
(* of its packet, which may lag behind the clock the readers use; packets  *)
(* are captured in order of time.  The samples of the sorted list are      *)
(* those of its shadow deque; its operations and the deque's are taken as  *)
(* one step each.  Recording a frame takes less than a tick of the clock.  *)
(***************************************************************************)
EXTENDS Integers, Sequences, FiniteSets

CONSTANTS
    Flows,
    ModbusFlows,    \* flows on the Modbus port
    RateWindow,     \* window_s of ThroughputWindow
    ErrorWindow,    \* window_s of DerivedMetrics
    SamplesWindow,  \* samples_window_s
    FlowIdle,       \* flow_idle_s
    MaxSamples,     \* max_samples of PercentileAggregator: 10000
    Num, Den,       \* the percentile asked for is Num/Den: at most 99/100
    MaxLag,         \* how far the time of a packet may be behind the clock
    MaxFrames,      \* bound on frames
    MaxTime         \* bound on the clock

ASSUME MetricsAssumption ==
    /\ ModbusFlows \subseteq Flows
    /\ {RateWindow, ErrorWindow, SamplesWindow, FlowIdle} \subseteq Nat
    /\ MaxFrames \in Nat /\ MaxTime \in Nat

\* The capacity is large enough for the highest percentile.
ASSUME CapacityAssumption ==
    /\ MaxSamples \in Nat /\ Num \in Nat /\ Den \in Nat
    /\ Num < Den /\ Num < MaxSamples * (Den - Num)

\* A packet is captured while it is of the Modbus window, 60 seconds in the code.
ASSUME LagAssumption == MaxLag \in Nat /\ MaxLag <= ErrorWindow

VARIABLES
    clock,      \* time.time()
    frames,     \* history: the frames captured, [flow, ts, measured]
    cap,        \* where the capture thread is in recording the last frame
    rates,      \* events of the global ThroughputWindow
    errors,     \* _modbus_total_events
    order,      \* the aggregator's samples, oldest first
    recent,     \* PerfTracker.recent
    latencies,  \* latency_by_flow: flow -> samples seen
    bytes,      \* bytes_by_flow, a frame counting as one
    pkts,       \* pkts_by_flow
    lastTs,     \* last_ts_by_flow
    protos,     \* the flows in proto_by_flow
    loop,       \* the asyncio thread: what it does
    cutoff,     \* its eviction cutoff
    snap,       \* what it iterates: the deque as the iterator found it
    n,          \* the length it read of the sorted list
    visited, size,  \* its dict iterator
    rows,       \* the rows of the per-flow table so far
    before      \* history: [pkts, latencies, rated] when the table or the rate was started

windows == <<rates, errors, order, recent>>
tables == <<latencies, bytes, pkts, lastTs, protos>>
table == <<visited, size, rows, before>>
vars == <<clock, frames, cap, windows, tables, loop, cutoff, snap, n, table>>

Empty == [f \in {} |-> 0]
NoSnap == <<0>>     \* no frame has number 0
Nothing == [pkts |-> {}, latencies |-> {}, rated |-> 0]

Init ==
    /\ clock = 0 /\ frames = <<>> /\ cap = "idle"
    /\ rates = <<>> /\ errors = <<>> /\ order = <<>> /\ recent = <<>>
    /\ latencies = Empty /\ bytes = Empty /\ pkts = Empty /\ lastTs = Empty
    /\ protos = {}
    /\ loop = "idle" /\ cutoff = 0 /\ snap = NoSnap /\ n = 0
    /\ visited = {} /\ size = 0 /\ rows = <<>> /\ before = Nothing

Ts(i) == frames[i].ts
Current == Len(frames)
Frame == frames[Current]

\* A mutant of IsStale: an event that is just as old as the window is dropped.
IsStale_AtAge(i, limit) == Ts(i) <= limit
IsStale(i, limit) == Ts(i) < limit

\* What an eviction loop leaves of a deque: it pops up to the first that is fresh.
Evicted(dq, limit) ==
    LET popped == CHOOSE k \in 0..Len(dq) :
                     /\ \A i \in 1..k : IsStale(dq[i], limit)
                     /\ k < Len(dq) => ~IsStale(dq[k + 1], limit)
    IN  SubSeq(dq, popped + 1, Len(dq))

\* f[k] = value, and the counting idiom d[k] = d.get(k, 0) + 1.
Set(f, k, value) == [x \in DOMAIN f \cup {k} |-> IF x = k THEN value ELSE f[x]]
Bumped(f, k) == Set(f, k, IF k \in DOMAIN f THEN f[k] + 1 ELSE 1)
Without(f, K) == [x \in DOMAIN f \ K |-> f[x]]

---------------------------------------------------------------------------
(* The capture thread: _emit_modbus and _emit_mqtt after the latency tracker. *)

reader == <<loop, cutoff, snap, n, table>>

\* Modbus frames pass through modbus_seen before the throughput.
AfterAggregator(f) == IF f \in ModbusFlows THEN "error" ELSE "rate"

\* The times a packet captured now may have.
PacketTimes == {t \in 0..clock : /\ t >= clock - MaxLag
                                 /\ frames # <<>> => t >= Frame.ts}

Capture(f, ts, measured) ==
    /\ cap = "idle" /\ Len(frames) < MaxFrames
    /\ frames' = Append(frames, [flow |-> f, ts |-> ts, measured |-> measured])
    /\ cap' = IF measured THEN "add" ELSE AfterAggregator(f)
    /\ UNCHANGED <<clock, windows, tables, reader>>

\* PercentileAggregator.add: the new sample goes in before the oldest comes out.
AddSample ==
    /\ cap = "add"
    /\ order' = Append(order, Current)
    /\ cap' = "trim"
    /\ UNCHANGED <<clock, frames, rates, errors, recent, tables, reader>>

\* A mutant of Trimmed: the oldest sample goes when the window is just full.
Trimmed_WhenFull == IF Len(order) >= MaxSamples THEN Tail(order) ELSE order
Trimmed == IF Len(order) > MaxSamples THEN Tail(order) ELSE order

TrimSamples ==
    /\ cap = "trim"
    /\ order' = Trimmed
    /\ cap' = AfterAggregator(Frame.flow)
    /\ UNCHANGED <<clock, frames, rates, errors, recent, tables, reader>>

\* A mutant of Seen: only frames that answer a request are counted.
Seen_Measured == IF Frame.measured THEN Append(errors, Current) ELSE errors
Seen == Append(errors, Current)

\* modbus_seen appends the event, then evicts up to the first that is fresh.
SeeModbus ==
    /\ cap = "error"
    /\ errors' = Seen
    /\ cap' = "test"
    /\ UNCHANGED <<clock, frames, rates, order, recent, tables, reader>>

CaptureTest ==
    /\ cap = "test"
    /\ cap' = IF errors # <<>> /\ IsStale(errors[1], clock - ErrorWindow)
              THEN "pop" ELSE "rate"
    /\ UNCHANGED <<clock, frames, windows, tables, reader>>

CapturePop ==
    /\ cap = "pop" /\ errors # <<>>
    /\ errors' = Tail(errors)
    /\ cap' = "test"
    /\ UNCHANGED <<clock, frames, rates, order, recent, tables, reader>>

\* ThroughputRegistry.record: nothing is evicted here.
RecordRate ==
    /\ cap = "rate"
    /\ rates' = Append(rates, Current)
    /\ cap' = IF Frame.measured THEN "latency" ELSE "bytes"
    /\ UNCHANGED <<clock, frames, errors, order, recent, tables, reader>>

\* PerfTracker.record, in its order.
RecordLatency ==
    /\ cap = "latency"
    /\ latencies' = Bumped(latencies, Frame.flow)
    /\ cap' = "recent"
    /\ UNCHANGED <<clock, frames, windows, bytes, pkts, lastTs, protos, reader>>

RecordRecent ==
    /\ cap = "recent"
    /\ recent' = Append(recent, Current)
    /\ cap' = "bytes"
    /\ UNCHANGED <<clock, frames, rates, errors, order, tables, reader>>

RecordBytes ==
    /\ cap = "bytes"
    /\ bytes' = Bumped(bytes, Frame.flow)
    /\ cap' = "pkts"
    /\ UNCHANGED <<clock, frames, windows, latencies, pkts, lastTs, protos, reader>>

RecordPkts ==
    /\ cap = "pkts"
    /\ pkts' = Bumped(pkts, Frame.flow)
    /\ cap' = "last"
    /\ UNCHANGED <<clock, frames, windows, latencies, bytes, lastTs, protos, reader>>

\* last_ts_by_flow and proto_by_flow; then the samples older than the window go.
RecordLast ==
    /\ cap = "last"
    /\ lastTs' = Set(lastTs, Frame.flow, Frame.ts)
    /\ protos' = protos \cup {Frame.flow}
    /\ cap' = "window"
    /\ UNCHANGED <<clock, frames, windows, latencies, bytes, pkts, reader>>

RecordWindow ==
    /\ cap = "window"
    /\ recent' = Evicted(recent, Frame.ts - SamplesWindow)
    /\ cap' = "idle"
    /\ UNCHANGED <<clock, frames, rates, errors, order, tables, reader>>

---------------------------------------------------------------------------
(* The loop.  Nothing is carried from one read of metrics_snapshot to the  *)
(* next, so each read is a job of its own and may start at any time.       *)

capture == <<clock, frames, cap>>

Done == /\ loop' = "idle" /\ cutoff' = 0 /\ snap' = NoSnap /\ n' = 0
        /\ visited' = {} /\ size' = 0 /\ rows' = <<>> /\ before' = Nothing

\* The frames that have reached the throughput window.
RatedTo == IF cap \in {"add", "trim", "error", "test", "pop", "rate"}
           THEN Current - 1 ELSE Current

\* ThroughputWindow.rate evicts, then sums the bytes and sums the messages.
RateBegin ==
    /\ loop = "idle"
    /\ cutoff' = clock - RateWindow
    /\ rates' = Evicted(rates, cutoff')
    /\ loop' = "bytes"
    /\ before' = [Nothing EXCEPT !.rated = RatedTo]
    /\ UNCHANGED <<capture, errors, order, recent, tables, snap, n, visited, size, rows>>

\* modbus_error_rate and modbus_exception_count evict, as the capture thread does,
\* without the lock: another thread may pop between the test and the pop.
ErrorsBegin ==
    /\ loop = "idle"
    /\ cutoff' = clock - ErrorWindow
    /\ loop' = "test"
    /\ UNCHANGED <<capture, windows, tables, snap, n, table>>

LoopTest ==
    /\ loop = "test"
    /\ loop' = IF errors # <<>> /\ IsStale(errors[1], cutoff)
               THEN "pop" ELSE "errors"
    /\ UNCHANGED <<capture, windows, tables, cutoff, snap, n, table>>

LoopPop ==
    /\ loop = "pop" /\ errors # <<>>
    /\ errors' = Tail(errors)
    /\ loop' = "test"
    /\ UNCHANGED <<capture, rates, order, recent, tables, cutoff, snap, n, table>>

\* export_samples_csv.
SamplesBegin ==
    /\ loop = "idle"
    /\ loop' = "samples"
    /\ UNCHANGED <<capture, windows, tables, cutoff, snap, n, table>>

Iterating == {"bytes", "msgs", "errors", "samples"}
Iterated == CASE loop \in {"bytes", "msgs"} -> rates
              [] loop = "errors" -> errors
              [] loop = "samples" -> recent

IterBegin ==
    /\ loop \in Iterating /\ snap = NoSnap
    /\ snap' = Iterated
    /\ UNCHANGED <<capture, windows, tables, loop, cutoff, n, table>>

\* "deque mutated during iteration".
IterRaise ==
    /\ loop \in Iterating /\ snap \notin {NoSnap, Iterated}
    /\ Done
    /\ UNCHANGED <<capture, windows, tables>>

IterEnd ==
    /\ loop \in Iterating /\ snap = Iterated
    /\ IF loop = "bytes"
       THEN loop' = "msgs" /\ snap' = NoSnap /\ UNCHANGED <<cutoff, n, table>>
       ELSE Done
    /\ UNCHANGED <<capture, windows, tables>>

\* percentile: the length is read first, the element at an index below it later.
PercentileBegin ==
    /\ loop = "idle" /\ order # <<>>
    /\ n' = Len(order)
    /\ loop' = "get"
    /\ UNCHANGED <<capture, windows, tables, cutoff, snap, table>>

Lesser(a, b) == IF a < b THEN a ELSE b
PercentileIndex == Lesser(n - 1, (n * Num) \div Den)   \* counted from 0

PercentileGet ==
    /\ loop = "get" /\ PercentileIndex < Len(order)
    /\ Done
    /\ UNCHANGED <<capture, windows, tables>>

\* A mutant of Forget: the latencies of a stale flow are kept.
Forget_KeepsLatencies(stale) ==
    /\ bytes' = Without(bytes, stale) /\ pkts' = Without(pkts, stale)
    /\ lastTs' = Without(lastTs, stale) /\ protos' = protos \ stale
    /\ UNCHANGED latencies

Forget(stale) ==
    /\ latencies' = Without(latencies, stale)
    /\ bytes' = Without(bytes, stale) /\ pkts' = Without(pkts, stale)
    /\ lastTs' = Without(lastTs, stale) /\ protos' = protos \ stale

\* perf_snapshot: under the lock, idle flows are forgotten and the tables are read.
PerfSnapshot ==
    /\ loop = "idle" /\ cap = "idle"
    /\ Forget({f \in DOMAIN lastTs : lastTs[f] < clock - FlowIdle})
    /\ UNCHANGED <<capture, windows, reader>>

\* export_per_flow_csv: the flows with latencies first, then the others.
TableBegin ==
    /\ loop = "idle"
    /\ loop' = "measured"
    /\ size' = Cardinality(DOMAIN latencies)
    /\ before' = [Nothing EXCEPT !.pkts = DOMAIN pkts, !.latencies = DOMAIN latencies]
    /\ UNCHANGED <<capture, windows, tables, cutoff, snap, n, visited, rows>>

TableVisit(f) ==
    /\ loop = "measured" /\ Cardinality(DOMAIN latencies) = size
    /\ f \in DOMAIN latencies \ visited
    /\ visited' = visited \cup {f}
    /\ rows' = Append(rows, f)
    /\ UNCHANGED <<capture, windows, tables, loop, cutoff, snap, n, size, before>>

TableRest ==
    /\ loop = "measured" /\ Cardinality(DOMAIN latencies) = size
    /\ DOMAIN latencies \subseteq visited
    /\ loop' = "others"
    /\ visited' = {} /\ size' = Cardinality(DOMAIN pkts)
    /\ UNCHANGED <<capture, windows, tables, cutoff, snap, n, rows, before>>

\* A mutant of NotListed: the second loop is about flows with unanswered frames.
NotListed_Unmeasured(f) ==
    IF f \in DOMAIN latencies THEN latencies[f] < pkts[f] ELSE TRUE
NotListed(f) == f \notin DOMAIN latencies

TableVisitOther(f) ==
    /\ loop = "others" /\ Cardinality(DOMAIN pkts) = size
    /\ f \in DOMAIN pkts \ visited
    /\ visited' = visited \cup {f}
    /\ rows' = IF NotListed(f) THEN Append(rows, f) ELSE rows
    /\ UNCHANGED <<capture, windows, tables, loop, cutoff, snap, n, size, before>>

\* "dictionary changed size during iteration".
TableRaise ==
    /\ \/ loop = "measured" /\ Cardinality(DOMAIN latencies) # size
       \/ loop = "others" /\ Cardinality(DOMAIN pkts) # size
    /\ Done
    /\ UNCHANGED <<capture, windows, tables>>

TableComplete ==
    /\ loop = "others" /\ Cardinality(DOMAIN pkts) = size
    /\ DOMAIN pkts \subseteq visited

TableEnd ==
    /\ TableComplete
    /\ Done
    /\ UNCHANGED <<capture, windows, tables>>

ClockTick ==
    /\ cap = "idle" /\ clock < MaxTime
    /\ clock' = clock + 1
    /\ UNCHANGED <<frames, cap, windows, tables, reader>>

CaptureNext ==
    \/ \E f \in Flows, ts \in PacketTimes, measured \in BOOLEAN : Capture(f, ts, measured)
    \/ AddSample \/ TrimSamples \/ SeeModbus \/ CaptureTest \/ CapturePop
    \/ RecordRate \/ RecordLatency \/ RecordRecent \/ RecordBytes \/ RecordPkts
    \/ RecordLast \/ RecordWindow

LoopNext ==
    \/ RateBegin \/ ErrorsBegin \/ LoopTest \/ LoopPop \/ SamplesBegin
    \/ IterBegin \/ IterRaise \/ IterEnd \/ PercentileBegin \/ PercentileGet
    \/ PerfSnapshot \/ TableBegin \/ TableRest \/ TableRaise \/ TableEnd
    \/ \E f \in Flows : TableVisit(f) \/ TableVisitOther(f)

Next == CaptureNext \/ LoopNext \/ ClockTick

Spec == Init /\ [][Next]_vars
---------------------------------------------------------------------------
CapSteps == {"idle", "add", "trim", "error", "test", "pop", "rate", "latency",
             "recent", "bytes", "pkts", "last", "window"}
LoopSteps == Iterating \cup {"idle", "test", "pop", "get", "measured", "others"}
Counts(f) == DOMAIN f \subseteq Flows /\ \A x \in DOMAIN f : f[x] \in 1..MaxFrames
Window(dq) == dq \in Seq(1..Current)

TypeOK ==
    /\ clock \in 0..MaxTime
    /\ frames \in Seq([flow : Flows, ts : 0..clock, measured : BOOLEAN])
    /\ Current <= MaxFrames
    /\ cap \in CapSteps /\ loop \in LoopSteps
    /\ Window(rates) /\ Window(errors) /\ Window(order) /\ Window(recent)
    /\ Len(order) <= IF cap = "trim" THEN MaxSamples + 1 ELSE MaxSamples
    /\ Counts(latencies) /\ Counts(bytes) /\ Counts(pkts)
    /\ DOMAIN lastTs \subseteq Flows
    /\ \A f \in DOMAIN lastTs : lastTs[f] \in 0..clock
    /\ protos \subseteq Flows
    /\ cutoff \in Int /\ n \in 0..(MaxSamples + 1)
    /\ snap = NoSnap \/ Window(snap)
    /\ visited \subseteq Flows /\ size \in 0..Cardinality(Flows)
    /\ rows \in Seq(Flows)
    /\ before \in [pkts : SUBSET Flows, latencies : SUBSET Flows, rated : 0..MaxFrames]

\* The index a percentile was computed for still exists when the element is read,
\* although the capture thread may have removed a sample since the length was read:
\* the window is never smaller than one below its peak, and the index is below that.
PercentileFinds == loop = "get" => PercentileIndex < Len(order)

\* Two threads evict the Modbus window by testing its head and popping it later, and
\* may both have tested the same head; still neither pops from an empty deque, as the
\* capture thread leaves an event of its own behind whatever it pops.
PopFinds == (loop = "pop" \/ cap = "pop") => errors # <<>>

\* A read that completes is of its window: the throughput of every event recorded in
\* the last window_s and of no other, but for packets that lagged behind and came in
\* since the read evicted; every exported sample from the last samples_window_s of
\* traffic and none missing; and no Modbus event that was over.
ReadsAreWindowed ==
    (loop \in Iterating /\ snap = Iterated) =>
       LET read == {snap[i] : i \in DOMAIN snap} IN
       /\ loop \in {"bytes", "msgs"} =>
             /\ {i \in 1..RatedTo : Ts(i) >= cutoff} \subseteq read
             /\ \A i \in read : i <= RatedTo /\ (Ts(i) >= cutoff \/ i > before.rated)
       /\ loop = "errors" => \A i \in read : Ts(i) >= cutoff
       /\ (loop = "samples" /\ cap = "idle" /\ frames # <<>>) =>
             read = {i \in 1..Current : frames[i].measured
                                        /\ Ts(i) >= Frame.ts - SamplesWindow}

\* Between frames the per-flow tables are about the same flows, which include every
\* flow with traffic in the last flow_idle_s, and bytes and packets are of the same
\* frames: a flow that was forgotten and came back starts afresh in all of them.
FlowTablesAgree ==
    cap = "idle" =>
       /\ bytes = pkts
       /\ DOMAIN pkts = DOMAIN lastTs /\ DOMAIN pkts = protos
       /\ \A f \in DOMAIN latencies : f \in DOMAIN pkts /\ latencies[f] <= pkts[f]
       /\ \A i \in 1..Current :
             Ts(i) >= clock - FlowIdle => frames[i].flow \in DOMAIN pkts

\* A per-flow export that completes lists no flow twice, and of the flows captured
\* before it began it omits only one whose first latency came in while it was read.
ExportedOnce ==
    TableComplete =>
       /\ \A i, j \in DOMAIN rows : rows[i] = rows[j] => i = j
       /\ \A f \in before.pkts :
             \/ \E i \in DOMAIN rows : rows[i] = f
             \/ f \in DOMAIN latencies \ before.latencies
=============================================================================
