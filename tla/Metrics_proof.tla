---------------------------- MODULE Metrics_proof ----------------------------
(***************************************************************************)
(* What the unlocked readers of Metrics may rely on, for every value of    *)
(* the constants: a percentile's index is still there when it is used,     *)
(* neither of the two threads that evict the Modbus window pops from an    *)
(* empty deque, the per-flow tables are about the same flows, and their    *)
(* export lists each flow once.                                            *)
(***************************************************************************)
EXTENDS Metrics, SequenceTheorems, WellFoundedInduction, TLAPS

HistoryInv ==
    /\ clock \in Nat
    /\ frames \in Seq([flow : Flows, ts : Nat, measured : BOOLEAN])

\* The sorted list exceeds its capacity only between a sample's insertion and the
\* removal of the oldest, and never shrinks below what a reader saw of its capacity.
OrderInv ==
    /\ order \in Seq(Nat) /\ n \in Nat
    /\ Len(order) <= IF cap = "trim" THEN MaxSamples + 1 ELSE MaxSamples
    /\ loop = "get" =>
          n \in 1..(MaxSamples + 1) /\ Len(order) >= Lesser(n, MaxSamples)

\* While a frame is being recorded it has not lagged too far, and once modbus_seen has appended it,
\* it is the youngest event; the capture thread pops only from behind it.
OwnEvent ==
    /\ cap # "idle" => frames # <<>> /\ Frame.ts \in Nat /\ Frame.ts >= clock - MaxLag
    /\ (cap \in {"test", "pop"} /\ errors # <<>>) => errors[Len(errors)] = Current
    /\ cap = "pop" => errors # <<>>

\* A head that is stale is not the capture thread's own event, so it is not alone.
EvictInv ==
    /\ errors \in Seq(Nat) /\ cutoff \in Int
    /\ loop \in {"test", "pop"} => cutoff <= clock - ErrorWindow
    /\ OwnEvent
    /\ loop = "pop" => errors # <<>>
    /\ (cap = "pop" /\ loop = "pop") => Len(errors) > 1

\* The count a flow has, and the frame whose latency is counted but not yet itself.
Count(c, f) == IF f \in DOMAIN c THEN c[f] ELSE 0
Ahead(f) == IF cap \in {"recent", "bytes", "pkts"} /\ f = Frame.flow THEN 1 ELSE 0

\* The frames that have reached last_ts_by_flow.
Noted == IF cap \in {"idle", "window"} THEN 1..Current ELSE 1..(Current - 1)

\* No frame is of later than now, and the one being recorded has not lagged too far.
ClockInv ==
    /\ \A i \in 1..Current : Ts(i) <= clock
    /\ cap # "idle" => frames # <<>> /\ Frame.ts >= clock - MaxLag

\* PerfTracker.record brings the tables in line one after the other.
TablesInv ==
    /\ \A f \in DOMAIN pkts : pkts[f] \in Nat
    /\ bytes = IF cap = "pkts" THEN Bumped(pkts, Frame.flow) ELSE pkts
    /\ protos = DOMAIN lastTs
    /\ DOMAIN pkts = IF cap = "last" THEN DOMAIN lastTs \cup {Frame.flow} ELSE DOMAIN lastTs
    /\ \A f \in DOMAIN latencies :
          latencies[f] \in Nat \ {0} /\ latencies[f] <= Count(pkts, f) + Ahead(f)

\* The last time kept of a flow is at least that of each of its recent frames.
LastInv ==
    /\ \A f \in DOMAIN lastTs : lastTs[f] \in Nat
    /\ \A i \in Noted :
          Ts(i) >= clock - FlowIdle =>
             frames[i].flow \in DOMAIN lastTs /\ lastTs[frames[i].flow] >= Ts(i)

Listed(f) == \E i \in 1..Len(rows) : rows[i] = f

\* The first loop lists what it visits; the second lists what it visits but for flows
\* with latencies, among which are all that the first has listed.
RowsInv ==
    /\ rows \in Seq(Flows)
    /\ \A i, j \in 1..Len(rows) : rows[i] = rows[j] => i = j
    /\ loop \notin {"measured", "others"} => rows = <<>> /\ visited = {}
    /\ loop \in {"measured", "others"} =>
          before.latencies \subseteq DOMAIN latencies /\ before.pkts \subseteq DOMAIN pkts
    /\ loop = "measured" =>
          /\ \A i \in 1..Len(rows) : rows[i] \in DOMAIN latencies \cap visited
          /\ \A f \in visited : Listed(f)
    /\ loop = "others" =>
          /\ \A i \in 1..Len(rows) : rows[i] \in DOMAIN latencies \cup visited
          /\ \A f \in before.latencies : Listed(f)
          /\ \A f \in visited : Listed(f) \/ f \in DOMAIN latencies

\* The frames are in order of time.
SortedInv == \A i, j \in 1..Current : i <= j => Ts(i) <= Ts(j)

\* How many frames have left the throughput window.
Dropped == RatedTo - Len(rates)

\* The throughput window is a run of consecutive frames up to the latest.  What has left
\* it is over, and while a read sums it up no event is on the wrong side of the cutoff, but
\* for those that lagged behind and came in since.
RatesInv ==
    /\ rates \in Seq(Nat) /\ Len(rates) <= RatedTo
    /\ \A j \in 1..Len(rates) : rates[j] = Dropped + j
    /\ \A i \in 1..Dropped : Ts(i) < clock - RateWindow
    /\ loop \in {"bytes", "msgs"} =>
          /\ cutoff \in Int /\ cutoff <= clock
          /\ before.rated \in Nat /\ before.rated <= RatedTo
          /\ \A i \in 1..Dropped : Ts(i) < cutoff
          /\ \A i \in 1..RatedTo : i <= Dropped \/ Ts(i) >= cutoff \/ i > before.rated

\* The Modbus window is in order of time; when a read has found its head fresh,
\* everything in it is, whatever the capture thread adds and pops meanwhile.
ErrorsInv ==
    /\ errors \in Seq(Nat)
    /\ \A j \in 1..Len(errors) : errors[j] \in 1..Current
    /\ \A j, k \in 1..Len(errors) : j <= k => Ts(errors[j]) <= Ts(errors[k])
    /\ loop \in {"test", "pop", "errors"} => cutoff \in Int /\ cutoff <= clock - ErrorWindow
    /\ loop = "errors" => \A j \in 1..Len(errors) : Ts(errors[j]) >= cutoff

\* The frames that PerfTracker.record has passed recent.append with.
Passed == IF cap \in {"idle", "bytes", "pkts", "last", "window"} THEN Current ELSE Current - 1
InRecent(i) == \E j \in 1..Len(recent) : recent[j] = i

\* The samples are of measured frames and in order of time; a measured frame is
\* missing only when it is over, and between frames exactly those of the window are there.
RecentInv ==
    /\ recent \in Seq(Nat)
    /\ \A j \in 1..Len(recent) : recent[j] \in 1..Current /\ frames[recent[j]].measured
    /\ \A j, k \in 1..Len(recent) : j <= k => Ts(recent[j]) <= Ts(recent[k])
    /\ cap \in {"latency", "recent"} => Frame.measured
    /\ \A i \in 1..Passed :
          frames[i].measured => InRecent(i) \/ Ts(i) < Ts(Current) - SamplesWindow
    /\ (cap = "idle" /\ frames # <<>>) =>
          \A i \in 1..Current :
             frames[i].measured => (InRecent(i) <=> Ts(i) >= Frame.ts - SamplesWindow)

---------------------------------------------------------------------------
\* The arithmetic behind CapacityAssumption: a percentile of one sample more than the
\* capacity lies within the capacity.
LEMMA IndexBelowCapacity ==
    ASSUME NEW k \in 1..(MaxSamples + 1)
    PROVE  Lesser(k - 1, (k * Num) \div Den) < Lesser(k, MaxSamples)
<1> USE CapacityAssumption DEF Lesser
<1>1. CASE k <= MaxSamples
  <2>1. Den \in Nat /\ Den > 0
    OBVIOUS
  <2>2. (k * Num) \div Den \in Int
    BY <2>1
  <2> QED
    BY <1>1, <2>2
<1>2. CASE k = MaxSamples + 1
  <2>1. k * Num = MaxSamples * Num + Num
    BY <1>2
  <2>2. MaxSamples * (Den - Num) = MaxSamples * Den - MaxSamples * Num
    OBVIOUS
  <2>3. k * Num < MaxSamples * Den
    BY <2>1, <2>2
  <2>4. (k * Num) \div Den < MaxSamples
    <3> DEFINE q == (k * Num) \div Den
    <3>1. q \in Int /\ q * Den <= k * Num
      OBVIOUS
    <3>2. q * Den < MaxSamples * Den
      BY <3>1, <2>3
    <3>3. CASE q >= MaxSamples
      BY <3>1, <3>2, <3>3
    <3> QED
      BY <3>1, <3>3
  <2> QED
    BY <1>2, <2>4
<1> QED
  BY <1>1, <1>2

LEMMA PacketTime ==
    ASSUME HistoryInv, NEW ts \in PacketTimes
    PROVE  /\ ts \in Nat /\ ts <= clock /\ ts >= clock - MaxLag
           /\ frames # <<>> => ts >= Frame.ts
BY DEF PacketTimes, HistoryInv

LEMMA HistoryStep == HistoryInv /\ [Next]_vars => HistoryInv'
<1> SUFFICES ASSUME HistoryInv, [Next]_vars PROVE HistoryInv'
  OBVIOUS
<1> USE DEF HistoryInv
<1>1. CASE \E f \in Flows, ts \in PacketTimes, measured \in BOOLEAN : Capture(f, ts, measured)
  <2>1. PICK f \in Flows, ts \in PacketTimes, measured \in BOOLEAN : Capture(f, ts, measured)
    BY <1>1
  <2> QED
    BY <2>1, PacketTime DEF Capture
<1>2. CASE CaptureNext /\ frames' = frames /\ clock' = clock
  BY <1>2
<1>3. CASE ClockTick
  BY <1>3 DEF ClockTick
<1>4. CASE LoopNext
  BY <1>4 DEF LoopNext, RateBegin, ErrorsBegin, LoopTest, LoopPop, SamplesBegin,
              IterBegin, IterRaise, IterEnd, PercentileBegin, PercentileGet,
              PerfSnapshot, TableBegin, TableRest, TableRaise, TableEnd, TableVisit,
              TableVisitOther, capture
<1>5. CASE CaptureNext
  BY <1>1, <1>2, <1>5
     DEF CaptureNext, AddSample, TrimSamples, SeeModbus, CaptureTest, CapturePop,
         RecordRate, RecordLatency, RecordRecent, RecordBytes, RecordPkts, RecordLast,
         RecordWindow
<1> QED
  BY <1>3, <1>4, <1>5 DEF Next, vars

\* Only the capture thread changes the samples and only PercentileBegin reads their
\* number; every other step leaves the samples alone.
LEMMA OrderStep == HistoryInv /\ OrderInv /\ [Next]_vars => OrderInv'
<1> SUFFICES ASSUME HistoryInv, OrderInv, [Next]_vars PROVE OrderInv'
  OBVIOUS
<1> USE CapacityAssumption DEF OrderInv, Lesser
<1>1. CASE \E f \in Flows, ts \in PacketTimes, measured \in BOOLEAN : Capture(f, ts, measured)
  BY <1>1 DEF Capture, AfterAggregator, windows, reader
<1>2. CASE AddSample
  <2>1. order' = Append(order, Current) /\ Current \in Nat
    BY <1>2 DEF AddSample, HistoryInv, Current
  <2>2. order' \in Seq(Nat) /\ Len(order') = Len(order) + 1
    BY <2>1
  <2> QED
    BY <1>2, <2>2 DEF AddSample, reader
<1>3. CASE TrimSamples
  <2>1. Len(order) > MaxSamples => order # <<>>
    OBVIOUS
  <2>2. order' \in Seq(Nat)
        /\ Len(order') = IF Len(order) > MaxSamples THEN Len(order) - 1 ELSE Len(order)
    BY <1>3, <2>1 DEF TrimSamples, Trimmed
  <2>3. cap = "trim" /\ cap' # "trim" /\ UNCHANGED <<loop, n>>
    BY <1>3 DEF TrimSamples, AfterAggregator, reader
  <2> QED
    BY <2>2, <2>3
<1>4. CASE SeeModbus \/ CaptureTest \/ CapturePop \/ RecordRate \/ RecordLatency
           \/ RecordRecent \/ RecordBytes \/ RecordPkts \/ RecordLast \/ RecordWindow
  <2>1. UNCHANGED <<order, loop, n>> /\ cap # "trim" /\ cap' # "trim"
    BY <1>4 DEF SeeModbus, CaptureTest, CapturePop, RecordRate, RecordLatency,
                RecordRecent, RecordBytes, RecordPkts, RecordLast, RecordWindow,
                windows, reader
  <2> QED
    BY <2>1
<1>5. CASE PercentileBegin
  BY <1>5 DEF PercentileBegin, windows, capture
<1>6. CASE LoopNext /\ ~PercentileBegin
  <2>1. UNCHANGED <<order, cap>> /\ loop' # "get" /\ n' \in {0, n}
    BY <1>6 DEF LoopNext, RateBegin, ErrorsBegin, LoopTest, LoopPop, SamplesBegin,
                IterBegin, IterRaise, IterEnd, PercentileGet, PerfSnapshot,
                TableBegin, TableRest, TableRaise, TableEnd, TableVisit,
                TableVisitOther, Iterating, Done, windows, capture, table, reader
  <2> QED
    BY <2>1
<1>7. CASE ClockTick \/ UNCHANGED vars
  BY <1>7 DEF ClockTick, vars, windows, reader
<1> QED
  BY <1>1, <1>2, <1>3, <1>4, <1>5, <1>6, <1>7 DEF Next, CaptureNext

\* A stale head is another event than the capture thread's own.
LEMMA StaleHeadIsNotAlone ==
    ASSUME HistoryInv, EvictInv, MetricsAssumption, NEW limit \in Int,
           cap \in {"test", "pop"}, limit <= clock - ErrorWindow,
           errors # <<>>, IsStale(errors[1], limit)
    PROVE  Len(errors) > 1
<1>1. errors[Len(errors)] = Current /\ Ts(Current) \in Nat /\ Ts(Current) >= clock - MaxLag
  BY DEF EvictInv, OwnEvent, Frame, Ts
<1>2. errors[1] # Current
  BY <1>1, LagAssumption DEF IsStale, HistoryInv, MetricsAssumption
<1> QED
  BY <1>1, <1>2 DEF EvictInv

\* Popping the head keeps the youngest event, unless it was the only one.
LEMMA TailKeepsLast ==
    ASSUME NEW s \in Seq(Nat), s # <<>>
    PROVE  /\ Tail(s) \in Seq(Nat) /\ Len(Tail(s)) = Len(s) - 1
           /\ Tail(s) # <<>> <=> Len(s) > 1
           /\ Tail(s) # <<>> => Tail(s)[Len(Tail(s))] = s[Len(s)]
<1>1. /\ Tail(s) \in Seq(Nat) /\ Len(Tail(s)) = Len(s) - 1 /\ Len(s) \in Nat
      /\ \A i \in 1..Len(Tail(s)) : Tail(s)[i] = s[i + 1]
  BY HeadTailProperties, LenProperties
<1>2. Tail(s) # <<>> <=> Len(s) > 1
  <2>1. \A t \in Seq(Nat) : t # <<>> <=> Len(t) > 0
    BY EmptySeq
  <2>2. Tail(s) # <<>> <=> Len(Tail(s)) > 0
    BY <1>1, <2>1, Zenon
  <2> QED
    BY <1>1, <2>2
<1>3. ASSUME Tail(s) # <<>> PROVE Tail(s)[Len(Tail(s))] = s[Len(s)]
  <2>1. Len(s) - 1 \in 1..Len(Tail(s))
    BY <1>1, <1>2, <1>3
  <2>2. Tail(s)[Len(s) - 1] = s[(Len(s) - 1) + 1]
    BY <1>1, <2>1
  <2>3. (Len(s) - 1) + 1 = Len(s) /\ Len(Tail(s)) = Len(s) - 1
    BY <1>1
  <2> QED
    BY <2>2, <2>3, Zenon
<1> QED
  BY <1>1, <1>2, <1>3

LEMMA EvictStep == HistoryInv /\ EvictInv /\ [Next]_vars => EvictInv'
<1> SUFFICES ASSUME HistoryInv, EvictInv, [Next]_vars PROVE EvictInv'
  OBVIOUS
<1> USE MetricsAssumption DEF EvictInv, OwnEvent
<1>1. ASSUME NEW f \in Flows, NEW ts \in PacketTimes, NEW measured \in BOOLEAN,
             Capture(f, ts, measured)
      PROVE  EvictInv'
  <2>1. frames' # <<>> /\ Frame'.ts = ts /\ ts \in Nat /\ ts >= clock - MaxLag
    BY <1>1, PacketTime DEF Capture, HistoryInv, Frame, Current
  <2>2. UNCHANGED <<clock, errors, loop, cutoff>> /\ cap' \notin {"test", "pop"}
    BY <1>1 DEF Capture, AfterAggregator, windows, reader
  <2> QED
    BY <2>1, <2>2
<1>2. CASE SeeModbus
  <2>1. Current \in Nat /\ cap = "error" /\ cap' = "test"
        /\ errors' = Append(errors, Current)
        /\ UNCHANGED <<clock, frames, loop, cutoff>>
    BY <1>2 DEF SeeModbus, Seen, HistoryInv, Current, reader
  <2>2. errors' \in Seq(Nat) /\ errors' # <<>> /\ errors'[Len(errors')] = Current
    BY <2>1
  <2> QED
    BY <2>1, <2>2 DEF Frame, Current
<1>3. CASE CaptureTest
  <2>1. cap = "test" /\ UNCHANGED <<clock, frames, errors, loop, cutoff>>
    BY <1>3 DEF CaptureTest, windows, reader
  <2>2. cap' = "pop" => errors # <<>> /\ Len(errors) > 1
    BY <1>3, <2>1, StaleHeadIsNotAlone DEF CaptureTest, HistoryInv
  <2>3. cap' \in {"pop", "rate"}
    BY <1>3 DEF CaptureTest
  <2> QED
    BY <2>1, <2>2, <2>3 DEF Frame, Current
<1>4. CASE CapturePop
  <2>1. cap = "pop" /\ cap' = "test" /\ errors' = Tail(errors)
        /\ UNCHANGED <<clock, frames, loop, cutoff>>
    BY <1>4 DEF CapturePop, reader
  <2> QED
    BY <2>1, TailKeepsLast DEF Frame, Current
<1>5. CASE AddSample \/ TrimSamples \/ RecordRate \/ RecordLatency \/ RecordRecent
           \/ RecordBytes \/ RecordPkts \/ RecordLast \/ RecordWindow
  <2>1. UNCHANGED <<clock, frames, errors, loop, cutoff>>
        /\ cap # "idle" /\ cap' \notin {"test", "pop"}
    BY <1>5 DEF AddSample, TrimSamples, RecordRate, RecordLatency, RecordRecent,
                RecordBytes, RecordPkts, RecordLast, RecordWindow, AfterAggregator,
                windows, reader
  <2> QED
    BY <2>1 DEF Frame, Current
<1>6. CASE ErrorsBegin
  BY <1>6 DEF ErrorsBegin, HistoryInv, Frame, Current, capture, windows
<1>7. CASE LoopTest
  <2>1. loop = "test" /\ UNCHANGED <<clock, frames, cap, errors, cutoff>>
    BY <1>7 DEF LoopTest, capture, windows
  <2>2. loop' = "pop" => errors # <<>> /\ IsStale(errors[1], cutoff)
    BY <1>7 DEF LoopTest
  <2>3. (cap = "pop" /\ loop' = "pop") => Len(errors) > 1
    BY <2>1, <2>2, StaleHeadIsNotAlone
  <2>4. loop' \in {"pop", "errors"}
    BY <1>7 DEF LoopTest
  <2> QED
    BY <2>1, <2>2, <2>3, <2>4 DEF Frame, Current
<1>8. CASE LoopPop
  <2>1. loop = "pop" /\ loop' = "test" /\ errors' = Tail(errors)
        /\ UNCHANGED <<clock, frames, cap, cutoff>>
    BY <1>8 DEF LoopPop, capture
  <2> QED
    BY <2>1, TailKeepsLast DEF Frame, Current
<1>9. CASE LoopNext /\ ~ErrorsBegin /\ ~LoopTest /\ ~LoopPop
  <2>1. UNCHANGED <<clock, frames, cap, errors>> /\ cutoff' \in Int
        /\ loop' \notin {"test", "pop"}
    BY <1>9 DEF LoopNext, RateBegin, SamplesBegin, IterBegin, IterRaise, IterEnd,
                PercentileBegin, PercentileGet, PerfSnapshot, TableBegin, TableRest,
                TableRaise, TableEnd, TableVisit, TableVisitOther, Iterating, Done,
                HistoryInv, windows, capture, table, reader
  <2> QED
    BY <2>1 DEF Frame, Current
<1>10. CASE ClockTick
  <2>1. cap = "idle" /\ cap' = "idle" /\ UNCHANGED <<errors, loop, cutoff>>
        /\ clock' = clock + 1
    BY <1>10 DEF ClockTick, windows, reader
  <2> QED
    BY <2>1 DEF HistoryInv
<1>11. CASE UNCHANGED vars
  BY <1>11 DEF vars, windows, Frame, Current
<1> QED
  BY <1>1, <1>2, <1>3, <1>4, <1>5, <1>6, <1>7, <1>8, <1>9, <1>10, <1>11
     DEF Next, CaptureNext

LEMMA MetricsInit == Init => HistoryInv /\ OrderInv /\ EvictInv
BY CapacityAssumption DEF Init, HistoryInv, OrderInv, EvictInv, OwnEvent

---------------------------------------------------------------------------
LEMMA TimesAreNat ==
    ASSUME HistoryInv PROVE clock \in Nat /\ Current \in Nat /\ \A i \in 1..Current : Ts(i) \in Nat
<1>1. ASSUME NEW i \in 1..Len(frames) PROVE frames[i].ts \in Nat
  <2>1. frames[i] \in [flow : Flows, ts : Nat, measured : BOOLEAN]
    BY <1>1, ElementOfSeq DEF HistoryInv
  <2> QED
    BY <2>1
<1> QED
  BY <1>1 DEF HistoryInv, Current, Ts

LEMMA BumpedGrows ==
    ASSUME NEW c, NEW f PROVE DOMAIN c \subseteq DOMAIN Bumped(c, f)
BY DEF Bumped, Set

\* The capture steps that leave the tables alone.
Quiet == AddSample \/ TrimSamples \/ SeeModbus \/ CaptureTest \/ CapturePop
            \/ RecordRate \/ RecordRecent \/ RecordWindow

LEMMA QuietSteps ==
    ASSUME Quiet
    PROVE  /\ UNCHANGED <<clock, frames, tables, loop, table>>
           /\ cap # "idle" /\ cap \notin {"pkts", "last"} /\ cap' \notin {"pkts", "last"}
           /\ cap \in {"recent", "bytes"} => cap' = "bytes"
           /\ cap \in {"idle", "window"} <=> cap' \in {"idle", "window"}
BY DEF Quiet, AddSample, TrimSamples, SeeModbus, CaptureTest, CapturePop, RecordRate,
       RecordRecent, RecordWindow, AfterAggregator, reader

LEMMA LoopKeepsTables ==
    ASSUME LoopNext
    PROVE  UNCHANGED <<clock, frames, cap>> /\ (PerfSnapshot \/ UNCHANGED tables)
BY DEF LoopNext, RateBegin, ErrorsBegin, LoopTest, LoopPop, SamplesBegin, IterBegin, IterRaise,
       IterEnd, PercentileBegin, PercentileGet, PerfSnapshot, TableBegin, TableRest, TableRaise,
       TableEnd, TableVisit, TableVisitOther, capture

LEMMA ClockStep == HistoryInv /\ ClockInv /\ [Next]_vars => ClockInv'
<1> SUFFICES ASSUME HistoryInv, ClockInv, [Next]_vars PROVE ClockInv'
  OBVIOUS
<1> USE DEF HistoryInv, ClockInv
<1>1. ASSUME NEW f \in Flows, NEW ts \in PacketTimes, NEW measured \in BOOLEAN,
             Capture(f, ts, measured)
      PROVE  ClockInv'
  <2>1. /\ frames' = Append(frames, [flow |-> f, ts |-> ts, measured |-> measured])
        /\ clock' = clock /\ ts <= clock /\ ts >= clock - MaxLag
    BY <1>1, PacketTime DEF Capture
  <2>2. /\ Len(frames') = Len(frames) + 1 /\ frames'[Len(frames')].ts = ts
        /\ \A i \in 1..Len(frames) : frames'[i] = frames[i]
        /\ frames' # <<>>
    BY <2>1
  <2> QED
    BY <2>1, <2>2 DEF Current, Ts, Frame
<1>2. CASE CaptureNext /\ ~\E f \in Flows, ts \in PacketTimes, measured \in BOOLEAN : Capture(f, ts, measured)
  <2>1. UNCHANGED <<clock, frames>> /\ cap # "idle"
    BY <1>2 DEF CaptureNext, AddSample, TrimSamples, SeeModbus, CaptureTest, CapturePop,
                RecordRate, RecordLatency, RecordRecent, RecordBytes, RecordPkts, RecordLast,
                RecordWindow
  <2> QED
    BY <2>1 DEF Current, Ts, Frame
<1>3. CASE LoopNext \/ UNCHANGED vars
  BY <1>3, LoopKeepsTables DEF vars, Current, Ts, Frame
<1>4. CASE ClockTick
  <2>1. clock' = clock + 1 /\ UNCHANGED <<frames, cap>> /\ cap = "idle"
    BY <1>4 DEF ClockTick
  <2>2. clock \in Nat /\ \A i \in 1..Current : Ts(i) \in Nat
    BY TimesAreNat
  <2>3. \A i \in 1..Current : Ts(i) <= clock + 1
    BY <2>2
  <2> QED
    BY <2>1, <2>3 DEF Current, Ts
<1> QED
  BY <1>1, <1>2, <1>3, <1>4 DEF Next

LEMMA TablesStep == HistoryInv /\ ClockInv /\ TablesInv /\ [Next]_vars => TablesInv'
<1> SUFFICES ASSUME HistoryInv, ClockInv, TablesInv, [Next]_vars PROVE TablesInv'
  OBVIOUS
<1> DEFINE f == Frame.flow
<1>1. ASSUME NEW g \in Flows, NEW ts \in PacketTimes, NEW measured \in BOOLEAN,
             Capture(g, ts, measured)
      PROVE  TablesInv'
  <2>1. UNCHANGED tables /\ cap = "idle" /\ cap' \notin {"recent", "bytes", "pkts", "last"}
    BY <1>1 DEF Capture, AfterAggregator
  <2> QED
    BY <2>1 DEF TablesInv, tables, Count, Ahead
<1>2. CASE Quiet
  <2>1. UNCHANGED Frame /\ UNCHANGED tables
    BY <1>2, QuietSteps DEF Frame, Current
  <2>2. \A g : Ahead(g) \in {0, 1} /\ Ahead(g)' \in {0, 1} /\ Ahead(g) <= Ahead(g)'
    BY <1>2, <2>1, QuietSteps DEF Ahead, Frame
  <2>3. \A g \in DOMAIN latencies : latencies[g] <= Count(pkts, g) + Ahead(g)'
    BY <2>2 DEF TablesInv, Count
  <2> QED
    BY <1>2, <2>1, <2>3, QuietSteps DEF TablesInv, tables, Count
<1>3. CASE RecordLatency
  <2>1. /\ latencies' = Bumped(latencies, f) /\ cap = "latency" /\ cap' = "recent"
        /\ UNCHANGED <<frames, bytes, pkts, lastTs, protos>> /\ Frame' = Frame
    BY <1>3 DEF RecordLatency, Frame, Current
  <2>2. \A g : Ahead(g) = 0 /\ Ahead(g)' = IF g = f THEN 1 ELSE 0
    BY <2>1 DEF Ahead
  <2>3. \A g : Count(pkts, g)' = Count(pkts, g) /\ Count(pkts, g) \in Nat
    BY <2>1 DEF Count, TablesInv
  <2>4. ASSUME NEW g \in DOMAIN latencies'
        PROVE  latencies'[g] \in Nat \ {0} /\ latencies'[g] <= Count(pkts, g) + Ahead(g)'
    <3>1. \A x \in DOMAIN latencies : latencies[x] \in Nat \ {0} /\ latencies[x] <= Count(pkts, x)
      BY <2>2, <2>3 DEF TablesInv
    <3>2. DOMAIN latencies' = DOMAIN latencies \cup {f}
          /\ latencies'[f] = (IF f \in DOMAIN latencies THEN latencies[f] + 1 ELSE 1)
          /\ \A x \in DOMAIN latencies : x # f => latencies'[x] = latencies[x]
      BY <2>1 DEF Bumped, Set
    <3>3. CASE g = f
      BY <2>2, <2>3, <3>1, <3>2, <3>3
    <3>4. CASE g # f
      BY <2>2, <2>3, <2>4, <3>1, <3>2, <3>4
    <3> QED
      BY <3>3, <3>4
  <2> QED
    BY <2>1, <2>3, <2>4 DEF TablesInv
<1>4. CASE RecordBytes
  <2>1. /\ bytes' = Bumped(bytes, f) /\ cap = "bytes" /\ cap' = "pkts"
        /\ UNCHANGED <<frames, latencies, pkts, lastTs, protos>> /\ Frame' = Frame
    BY <1>4 DEF RecordBytes, Frame, Current
  <2>2. \A g : Ahead(g)' = Ahead(g) /\ Count(pkts, g)' = Count(pkts, g)
    BY <2>1 DEF Ahead, Count
  <2> QED
    BY <2>1, <2>2 DEF TablesInv
<1>5. CASE RecordPkts
  <2>1. /\ pkts' = Bumped(pkts, f) /\ cap = "pkts" /\ cap' = "last"
        /\ UNCHANGED <<frames, latencies, bytes, lastTs, protos>> /\ Frame' = Frame
    BY <1>5 DEF RecordPkts, Frame, Current
  <2>2. \A g : Ahead(g)' = 0 /\ Ahead(g) = IF g = f THEN 1 ELSE 0
    BY <2>1 DEF Ahead
  <2> DEFINE new == Bumped(pkts, f)
  <2>0. /\ DOMAIN new = DOMAIN pkts \cup {f}
        /\ \A x : x # f => Count(new, x) = Count(pkts, x)
        /\ new[f] = (IF f \in DOMAIN pkts THEN pkts[f] + 1 ELSE 1)
    BY DEF Bumped, Set, Count
  <2> HIDE DEF new
  <2>3. ASSUME NEW g
        PROVE  Count(new, g) = IF g = f THEN Count(pkts, g) + 1 ELSE Count(pkts, g)
    <3>1. CASE g = f
      BY <2>0, <3>1 DEF Count
    <3>2. CASE g # f
      BY <2>0, <3>2
    <3> QED
      BY <3>1, <3>2
  <2>4. \A g : Count(pkts, g) \in Nat
    BY DEF Count, TablesInv
  <2>5. \A g \in DOMAIN latencies : latencies[g] <= Count(new, g) + Ahead(g)'
    BY <2>2, <2>3, <2>4 DEF TablesInv
  <2>6. \A g \in DOMAIN new : new[g] \in Nat
    BY <2>3, <2>4 DEF Count
  <2>7. DOMAIN new = DOMAIN lastTs \cup {f}
    <3>1. DOMAIN pkts = DOMAIN lastTs
      BY <2>1 DEF TablesInv
    <3> QED
      BY <2>0, <3>1
  <2>8. \A g : Count(pkts, g)' = Count(new, g)
    BY <2>1 DEF Count, new
  <2>9. pkts' = new /\ bytes' = new
    BY <2>1 DEF TablesInv, new
  <2> QED
    BY <2>1, <2>5, <2>6, <2>7, <2>8, <2>9 DEF TablesInv
<1>6. CASE RecordLast
  <2>1. /\ DOMAIN lastTs' = DOMAIN lastTs \cup {f} /\ protos' = protos \cup {f}
        /\ cap = "last" /\ cap' = "window" /\ UNCHANGED <<frames, latencies, bytes, pkts>>
    BY <1>6 DEF RecordLast, Set
  <2>2. \A g : Ahead(g)' = Ahead(g) /\ Count(pkts, g)' = Count(pkts, g)
    BY <2>1 DEF Ahead, Count
  <2> QED
    BY <2>1, <2>2 DEF TablesInv
<1>7. CASE PerfSnapshot
  <2> DEFINE stale == {g \in DOMAIN lastTs : lastTs[g] < clock - FlowIdle}
  <2>1. Forget(stale) /\ cap = "idle" /\ cap' = "idle" /\ UNCHANGED frames
    BY <1>7 DEF PerfSnapshot, capture
  <2> HIDE DEF stale
  <2>2. /\ bytes' = Without(bytes, stale) /\ pkts' = Without(pkts, stale)
        /\ DOMAIN lastTs' = DOMAIN lastTs \ stale /\ protos' = protos \ stale
        /\ DOMAIN pkts' = DOMAIN pkts \ stale /\ \A g \in DOMAIN pkts' : pkts'[g] = pkts[g]
        /\ DOMAIN latencies' = DOMAIN latencies \ stale
        /\ \A g \in DOMAIN latencies' : latencies'[g] = latencies[g]
    BY <2>1 DEF Forget, Without
  <2>3. \A g : g \notin stale => Count(pkts, g)' = Count(pkts, g)
    BY <2>2 DEF Count
  <2>4. \A g : Ahead(g) = 0 /\ Ahead(g)' = 0
    BY <2>1 DEF Ahead
  <2> QED
    BY <2>1, <2>2, <2>3, <2>4 DEF TablesInv
<1>8. CASE LoopNext /\ ~PerfSnapshot
  BY <1>8, LoopKeepsTables DEF TablesInv, tables, Count, Ahead, Frame, Current
<1>9. CASE ClockTick \/ UNCHANGED vars
  BY <1>9 DEF ClockTick, vars, tables, TablesInv, Count, Ahead, Frame, Current
<1> QED
  BY <1>1, <1>2, <1>3, <1>4, <1>5, <1>6, <1>7, <1>8, <1>9 DEF Next, CaptureNext, Quiet

LEMMA LastStep == HistoryInv /\ ClockInv /\ SortedInv /\ LastInv /\ [Next]_vars => LastInv'
<1> SUFFICES ASSUME HistoryInv, ClockInv, SortedInv, LastInv, [Next]_vars PROVE LastInv'
  OBVIOUS
<1> USE MetricsAssumption
<1>0. clock \in Nat /\ Current \in Nat /\ \A i \in 1..Current : Ts(i) \in Nat
  BY TimesAreNat
<1>1. ASSUME NEW g \in Flows, NEW ts \in PacketTimes, NEW measured \in BOOLEAN,
             Capture(g, ts, measured)
      PROVE  LastInv'
  <2>1. /\ frames' = Append(frames, [flow |-> g, ts |-> ts, measured |-> measured])
        /\ UNCHANGED <<clock, lastTs>> /\ cap = "idle" /\ cap' \notin {"idle", "window"}
    BY <1>1 DEF Capture, AfterAggregator, tables
  <2>2. Current' = Current + 1 /\ \A i \in 1..Current : frames'[i] = frames[i]
    BY <2>1 DEF HistoryInv, Current
  <2>3. Noted' = 1..Current /\ Noted = 1..Current
    BY <1>0, <2>1, <2>2 DEF Noted
  <2> QED
    BY <2>1, <2>2, <2>3 DEF LastInv, Ts
<1>2. CASE Quiet \/ RecordLatency \/ RecordBytes \/ RecordPkts
  <2>1. /\ UNCHANGED <<clock, frames, lastTs>>
        /\ cap \in {"idle", "window"} <=> cap' \in {"idle", "window"}
    BY <1>2, QuietSteps DEF RecordLatency, RecordBytes, RecordPkts, tables
  <2>2. Noted' = Noted
    BY <2>1 DEF Noted, Current
  <2> QED
    BY <2>1, <2>2 DEF LastInv, Ts
<1>3. CASE RecordLast
  <2>1. /\ lastTs' = Set(lastTs, Frame.flow, Frame.ts)
        /\ cap = "last" /\ cap' = "window" /\ UNCHANGED <<clock, frames>>
    BY <1>3 DEF RecordLast
  <2>0. Current \in 1..Current /\ Frame.ts = Ts(Current)
    <3>1. frames # <<>>
      BY <2>1 DEF ClockInv
    <3> QED
      BY <1>0, <3>1, EmptySeq DEF Current, HistoryInv, Frame, Ts
  <2>2. /\ DOMAIN lastTs' = DOMAIN lastTs \cup {Frame.flow} /\ lastTs'[Frame.flow] = Ts(Current)
        /\ \A g \in DOMAIN lastTs : g # Frame.flow => lastTs'[g] = lastTs[g]
    BY <2>0, <2>1 DEF Set
  <2>3. Noted' = 1..Current /\ Noted = 1..(Current - 1)
    BY <2>1 DEF Noted, Current
  <2>4. ASSUME NEW i \in 1..Current, Ts(i) >= clock - FlowIdle
        PROVE  frames[i].flow \in DOMAIN lastTs' /\ lastTs'[frames[i].flow] >= Ts(i)
    <3>1. CASE frames[i].flow = Frame.flow
      <4>1. Ts(i) <= Ts(Current) /\ Ts(i) \in Nat /\ Ts(Current) \in Nat
        BY <1>0, <2>0 DEF SortedInv
      <4> QED
        BY <2>2, <3>1, <4>1
    <3>2. CASE frames[i].flow # Frame.flow
      <4>1. i \in Noted
        BY <1>0, <2>3, <3>2 DEF Frame
      <4> QED
        BY <2>2, <2>4, <3>2, <4>1 DEF LastInv
    <3> QED
      BY <3>1, <3>2
  <2>5. \A g \in DOMAIN lastTs' : lastTs'[g] \in Nat
    BY <1>0, <2>0, <2>2 DEF LastInv
  <2> QED
    BY <2>1, <2>3, <2>4, <2>5 DEF LastInv, Ts
<1>4. CASE PerfSnapshot
  <2>1. /\ UNCHANGED <<clock, frames, cap>>
        /\ DOMAIN lastTs' = DOMAIN lastTs \ {g \in DOMAIN lastTs : lastTs[g] < clock - FlowIdle}
        /\ \A g \in DOMAIN lastTs' : lastTs'[g] = lastTs[g]
    BY <1>4 DEF PerfSnapshot, Forget, Without, capture
  <2>2. Noted' = Noted /\ Noted \subseteq 1..Current
    BY <1>0, <2>1 DEF Noted, Current
  <2>3. ASSUME NEW i \in Noted, Ts(i) >= clock - FlowIdle
        PROVE  frames[i].flow \in DOMAIN lastTs' /\ lastTs'[frames[i].flow] >= Ts(i)
    <3>1. frames[i].flow \in DOMAIN lastTs /\ lastTs[frames[i].flow] >= Ts(i)
      BY <2>3 DEF LastInv
    <3>2. ~(lastTs[frames[i].flow] < clock - FlowIdle)
      BY <1>0, <2>2, <2>3, <3>1 DEF LastInv
    <3> QED
      BY <2>1, <3>1, <3>2
  <2> QED
    BY <2>1, <2>2, <2>3 DEF LastInv, Ts
<1>5. CASE LoopNext /\ ~PerfSnapshot
  BY <1>5, LoopKeepsTables DEF LastInv, tables, Noted, Current, Ts
<1>6. CASE ClockTick
  <2>1. clock' = clock + 1 /\ UNCHANGED <<frames, cap, lastTs>>
    BY <1>6 DEF ClockTick, tables
  <2>2. Noted' = Noted /\ Noted \subseteq 1..Current
    BY <1>0, <2>1 DEF Noted, Current
  <2>3. ASSUME NEW i \in Noted, Ts(i) >= (clock + 1) - FlowIdle
        PROVE  frames[i].flow \in DOMAIN lastTs /\ lastTs[frames[i].flow] >= Ts(i)
    <3>1. Ts(i) \in Nat
      BY <1>0, <2>2
    <3>2. Ts(i) >= clock - FlowIdle
      BY <1>0, <2>3, <3>1
    <3> QED
      BY <3>2 DEF LastInv
  <2>4. \A i \in Noted' : Ts(i)' >= clock' - FlowIdle =>
           frames'[i].flow \in DOMAIN lastTs' /\ lastTs'[frames'[i].flow] >= Ts(i)'
    <3> SUFFICES ASSUME NEW i \in Noted', Ts(i)' >= clock' - FlowIdle
                 PROVE  frames'[i].flow \in DOMAIN lastTs' /\ lastTs'[frames'[i].flow] >= Ts(i)'
      OBVIOUS
    <3>1. Ts(i)' = Ts(i) /\ i \in Noted
      BY <2>1, <2>2 DEF Ts
    <3>2. clock' - FlowIdle = (clock + 1) - FlowIdle
      BY <2>1
    <3>3. Ts(i) >= (clock + 1) - FlowIdle
      BY <3>1, <3>2
    <3> QED
      BY <2>1, <2>3, <3>1, <3>3
  <2>5. \A g \in DOMAIN lastTs' : lastTs'[g] \in Nat
    BY <2>1 DEF LastInv
  <2> QED
    BY <2>4, <2>5 DEF LastInv
<1>7. CASE UNCHANGED vars
  BY <1>7 DEF vars, tables, LastInv, Noted, Current, Ts
<1> QED
  BY <1>1, <1>2, <1>3, <1>4, <1>5, <1>6, <1>7 DEF Next, CaptureNext, Quiet

\* No capture step takes a flow out of a table, and none touches the export.
LEMMA TablesGrow ==
    ASSUME CaptureNext
    PROVE  UNCHANGED <<loop, table>> /\ DOMAIN latencies \subseteq DOMAIN latencies'
           /\ DOMAIN pkts \subseteq DOMAIN pkts'
<1>1. UNCHANGED <<loop, table>>
  BY DEF CaptureNext, Capture, AddSample, TrimSamples, SeeModbus, CaptureTest, CapturePop,
         RecordRate, RecordLatency, RecordRecent, RecordBytes, RecordPkts, RecordLast,
         RecordWindow, reader
<1>2. /\ latencies' = latencies \/ \E f : latencies' = Bumped(latencies, f)
      /\ pkts' = pkts \/ \E f : pkts' = Bumped(pkts, f)
  BY DEF CaptureNext, Capture, AddSample, TrimSamples, SeeModbus, CaptureTest, CapturePop,
         RecordRate, RecordLatency, RecordRecent, RecordBytes, RecordPkts, RecordLast,
         RecordWindow, tables
<1> QED
  BY <1>1, <1>2, BumpedGrows

\* A flow that is appended is listed, and once if it was not.
LEMMA ListedOnce ==
    ASSUME NEW f \in Flows, rows \in Seq(Flows), ~Listed(f),
           \A i, j \in 1..Len(rows) : rows[i] = rows[j] => i = j,
           rows' = Append(rows, f)
    PROVE  /\ rows' \in Seq(Flows)
           /\ \A i, j \in 1..Len(rows') : rows'[i] = rows'[j] => i = j
           /\ \A i \in 1..Len(rows') : rows'[i] = f \/ \E j \in 1..Len(rows) : rows'[i] = rows[j]
           /\ \A g : Listed(g)' <=> Listed(g) \/ g = f
<1>1. /\ rows' \in Seq(Flows) /\ Len(rows') = Len(rows) + 1 /\ rows'[Len(rows) + 1] = f
      /\ \A i \in 1..Len(rows) : rows'[i] = rows[i] /\ rows[i] # f
      /\ Len(rows) \in Nat
  BY DEF Listed
<1>2. 1..Len(rows') = 1..Len(rows) \cup {Len(rows) + 1}
  BY <1>1
<1> QED
  BY <1>1, <1>2 DEF Listed

LEMMA RowsStep == RowsInv /\ [Next]_vars => RowsInv'
<1> SUFFICES ASSUME RowsInv, [Next]_vars PROVE RowsInv'
  OBVIOUS
<1>1. CASE CaptureNext
  <2>1. UNCHANGED <<loop, visited, rows, before>>
    BY <1>1, TablesGrow DEF table
  <2> QED
    BY <1>1, <2>1, TablesGrow DEF RowsInv, Listed
<1>2. CASE ClockTick \/ UNCHANGED vars
  BY <1>2 DEF ClockTick, vars, tables, reader, table, RowsInv, Listed
<1>3. CASE RateBegin \/ ErrorsBegin \/ LoopTest \/ LoopPop \/ SamplesBegin \/ IterBegin
           \/ PercentileBegin \/ PerfSnapshot
  <2>1. UNCHANGED <<visited, rows>> /\ loop \notin {"measured", "others"}
        /\ loop' \notin {"measured", "others"}
    BY <1>3 DEF RateBegin, ErrorsBegin, LoopTest, LoopPop, SamplesBegin, IterBegin,
                PercentileBegin, PerfSnapshot, Iterating, reader, table
  <2> QED
    BY <2>1 DEF RowsInv
<1>4. CASE IterRaise \/ IterEnd \/ PercentileGet \/ TableRaise \/ TableEnd
  <2>1. \/ Done
        \/ loop \notin {"measured", "others"} /\ loop' = "msgs" /\ UNCHANGED <<visited, rows>>
    BY <1>4 DEF IterRaise, IterEnd, PercentileGet, TableRaise, TableEnd, table
  <2>2. CASE Done
    <3>1. rows' = <<>> /\ visited' = {} /\ loop' = "idle"
      BY <2>2 DEF Done
    <3>2. rows' \in Seq(Flows) /\ Len(rows') = 0 /\ 1..0 = {}
      BY <3>1
    <3> QED
      BY <3>1, <3>2 DEF RowsInv
  <2>3. CASE ~Done
    BY <2>1, <2>3 DEF RowsInv
  <2> QED
    BY <2>2, <2>3
<1>5. CASE TableBegin
  <2>1. /\ loop = "idle" /\ loop' = "measured" /\ UNCHANGED <<visited, rows, tables>>
        /\ before' = [pkts |-> DOMAIN pkts, latencies |-> DOMAIN latencies, rated |-> 0]
    BY <1>5 DEF TableBegin, Nothing
  <2> QED
    BY <2>1 DEF RowsInv, tables
<1>6. ASSUME NEW f \in Flows, TableVisit(f)
      PROVE  RowsInv'
  <2>1. /\ loop = "measured" /\ UNCHANGED <<loop, latencies, pkts, before>>
        /\ f \in DOMAIN latencies \ visited /\ visited' = visited \cup {f}
        /\ rows' = Append(rows, f)
    BY <1>6 DEF TableVisit, tables
  <2>2. ~Listed(f)
    BY <2>1 DEF RowsInv, Listed
  <2> QED
    BY <2>1, <2>2, ListedOnce DEF RowsInv
<1>7. CASE TableRest
  <2>1. /\ loop = "measured" /\ loop' = "others" /\ UNCHANGED <<latencies, pkts, rows, before>>
        /\ DOMAIN latencies \subseteq visited /\ visited' = {}
    BY <1>7 DEF TableRest, tables
  <2> QED
    BY <2>1 DEF RowsInv, Listed
<1>8. ASSUME NEW f \in Flows, TableVisitOther(f)
      PROVE  RowsInv'
  <2>1. /\ loop = "others" /\ UNCHANGED <<loop, latencies, pkts, before>>
        /\ f \notin visited /\ visited' = visited \cup {f}
        /\ rows' = IF f \notin DOMAIN latencies THEN Append(rows, f) ELSE rows
    BY <1>8 DEF TableVisitOther, NotListed, tables
  <2>2. CASE f \in DOMAIN latencies
    BY <2>1, <2>2 DEF RowsInv, Listed
  <2>3. CASE f \notin DOMAIN latencies
    <3>1. ~Listed(f)
      BY <2>1, <2>3 DEF RowsInv, Listed
    <3> QED
      BY <2>1, <2>3, <3>1, ListedOnce DEF RowsInv
  <2> QED
    BY <2>2, <2>3
<1> QED
  BY <1>1, <1>2, <1>3, <1>4, <1>5, <1>6, <1>7, <1>8 DEF Next, LoopNext

LEMMA TablesInit == Init => ClockInv /\ TablesInv /\ LastInv /\ RowsInv
<1> SUFFICES ASSUME Init PROVE ClockInv /\ TablesInv /\ LastInv /\ RowsInv
  OBVIOUS
<1>1. /\ frames = <<>> /\ cap = "idle" /\ loop = "idle" /\ rows = <<>> /\ visited = {}
      /\ bytes = Empty /\ pkts = Empty /\ latencies = Empty /\ lastTs = Empty /\ protos = {}
      /\ DOMAIN Empty = {}
  BY DEF Init, Empty
<1>2. Len(<<>>) = 0 /\ 1..0 = {} /\ \A S : <<>> \in Seq(S)
  OBVIOUS
<1> QED
  BY <1>1, <1>2 DEF ClockInv, TablesInv, LastInv, RowsInv, Noted, Current

---------------------------------------------------------------------------
(* What the reads of the windows see. *)

\* The popleft loop of an eviction ends at the first event that is fresh.
LEMMA EvictedIs ==
    ASSUME NEW dq \in Seq(Nat), NEW limit
    PROVE  \E k \in 0..Len(dq) :
              /\ \A i \in 1..k : IsStale(dq[i], limit)
              /\ k < Len(dq) => ~IsStale(dq[k + 1], limit)
              /\ Evicted(dq, limit) = SubSeq(dq, k + 1, Len(dq))
<1> DEFINE Pops(k) == /\ \A i \in 1..k : IsStale(dq[i], limit)
                      /\ k < Len(dq) => ~IsStale(dq[k + 1], limit)
           T == {m \in Nat : m < Len(dq) /\ ~IsStale(dq[m + 1], limit)}
           R == {p \in Nat \X Nat : p[1] < p[2]}
<1>1. \E k \in 0..Len(dq) : Pops(k)
  <2>1. CASE T = {}
    <3>1. ASSUME NEW i \in 1..Len(dq) PROVE IsStale(dq[i], limit)
      <4>1. i - 1 \in Nat /\ i - 1 < Len(dq) /\ (i - 1) + 1 = i
        OBVIOUS
      <4> QED
        BY <2>1, <4>1
    <3>2. Pops(Len(dq))
      BY <3>1
    <3>3. Len(dq) \in 0..Len(dq)
      OBVIOUS
    <3> QED
      BY <3>2, <3>3
  <2>2. CASE T # {}
    <3>1. \E m \in T : \A j \in T : <<j, m>> \notin R
      <4>1. T \subseteq Nat
        OBVIOUS
      <4>2. IsWellFoundedOn(R, Nat)
        BY NatLessThanWellFounded DEF OpToRel
      <4> HIDE DEF T, R
      <4> QED
        BY <2>2, <4>1, <4>2, WFMin
    <3>2. PICK m \in T : \A j \in T : ~(j < m)
      BY <3>1
    <3>3. ASSUME NEW i \in 1..m PROVE IsStale(dq[i], limit)
      <4>1. i - 1 \in Nat /\ i - 1 < Len(dq) /\ (i - 1) + 1 = i /\ i - 1 < m
        BY <3>2
      <4> QED
        BY <3>2, <4>1
    <3>4. m \in 0..Len(dq) /\ ~IsStale(dq[m + 1], limit)
      BY <3>2
    <3> QED
      BY <3>3, <3>4
  <2> QED
    BY <2>1, <2>2
<1>2. PICK k \in 0..Len(dq) : k = CHOOSE x \in 0..Len(dq) : Pops(x)
  BY <1>1
<1>3. Pops(k)
  BY <1>1, <1>2
<1>4. Evicted(dq, limit) = SubSeq(dq, k + 1, Len(dq))
  BY <1>2, Zenon DEF Evicted
<1> QED
  BY <1>3, <1>4

LEMMA CutFront ==
    ASSUME NEW s \in Seq(Nat), NEW k \in 0..Len(s)
    PROVE  /\ SubSeq(s, k + 1, Len(s)) \in Seq(Nat)
           /\ Len(SubSeq(s, k + 1, Len(s))) = Len(s) - k
           /\ \A j \in 1..(Len(s) - k) : SubSeq(s, k + 1, Len(s))[j] = s[k + j]
<1>1. k + 1 \in Int /\ Len(s) \in Int /\ \A i \in (k + 1)..Len(s) : s[i] \in Nat
  OBVIOUS
<1> DEFINE t == SubSeq(s, k + 1, Len(s))
<1>2. /\ t \in Seq(Nat)
      /\ Len(t) = IF k + 1 <= Len(s) THEN Len(s) - (k + 1) + 1 ELSE 0
      /\ \A i \in 1..(Len(s) - (k + 1) + 1) : t[i] = s[(k + 1) + i - 1]
  BY <1>1, SubSeqProperties
<1> HIDE DEF t
<1>3. t \in Seq(Nat) /\ Len(t) = Len(s) - k
  BY <1>2
<1>4. ASSUME NEW j \in 1..(Len(s) - k) PROVE t[j] = s[k + j]
  <2>1. j \in 1..(Len(s) - (k + 1) + 1) /\ (k + 1) + j - 1 = k + j
    OBVIOUS
  <2>2. t[j] = s[(k + 1) + j - 1]
    BY <1>2, <2>1, Zenon
  <2> QED
    BY <2>1, <2>2, Zenon
<1> QED
  BY <1>3, <1>4 DEF t

\* A capture appends a frame of its packet's time and changes nothing about the earlier ones.
LEMMA CaptureKeeps ==
    ASSUME HistoryInv, NEW f \in Flows, NEW ts \in PacketTimes, NEW measured \in BOOLEAN,
             Capture(f, ts, measured)
    PROVE  /\ UNCHANGED <<clock, windows, loop, cutoff, snap, before>> /\ Current' = Current + 1
           /\ \A i \in 1..Current : Ts(i)' = Ts(i) /\ frames'[i] = frames[i]
           /\ frames'[Current + 1].ts = ts /\ frames' # <<>>
           /\ cap = "idle" /\ cap' \in {"add", "error", "rate"}
<1>1. /\ frames' = Append(frames, [flow |-> f, ts |-> ts, measured |-> measured])
      /\ UNCHANGED <<clock, windows, loop, cutoff, snap, before>>
      /\ cap = "idle" /\ cap' \in {"add", "error", "rate"}
  BY DEF Capture, AfterAggregator, reader, table
<1>2. /\ Len(frames') = Len(frames) + 1 /\ frames' # <<>>
      /\ \A i \in 1..Len(frames) : frames'[i] = frames[i]
      /\ frames'[Len(frames) + 1] = [flow |-> f, ts |-> ts, measured |-> measured]
  BY <1>1 DEF HistoryInv
<1>3. \A i \in 1..Current : Ts(i)' = Ts(i) /\ frames'[i] = frames[i]
  BY <1>2 DEF Current, Ts
<1>4. frames'[Current + 1].ts = ts /\ Current' = Current + 1
  BY <1>2 DEF Current, Ts
<1> QED
  BY <1>1, <1>2, <1>3, <1>4

\* Any other step of the capture thread is of the frame it has captured.
LEMMA CaptureStays ==
    ASSUME CaptureNext, ~\E f \in Flows, ts \in PacketTimes, measured \in BOOLEAN : Capture(f, ts, measured)
    PROVE  UNCHANGED <<clock, frames, loop, cutoff, snap, before>> /\ cap # "idle"
BY DEF CaptureNext, AddSample, TrimSamples, SeeModbus, CaptureTest, CapturePop, RecordRate,
       RecordLatency, RecordRecent, RecordBytes, RecordPkts, RecordLast, RecordWindow, reader, table

LEMMA SortedStep == HistoryInv /\ ClockInv /\ SortedInv /\ [Next]_vars => SortedInv'
<1> SUFFICES ASSUME HistoryInv, ClockInv, SortedInv, [Next]_vars PROVE SortedInv'
  OBVIOUS
<1>1. ASSUME NEW f \in Flows, NEW ts \in PacketTimes, NEW measured \in BOOLEAN,
             Capture(f, ts, measured)
      PROVE  SortedInv'
  <2>1. /\ Current' = Current + 1 /\ \A i \in 1..Current : Ts(i)' = Ts(i)
        /\ frames'[Current + 1].ts = ts
    BY <1>1, CaptureKeeps
  <2>2. /\ Current \in Nat /\ ts \in Nat /\ \A i \in 1..Current : Ts(i) \in Nat
    BY TimesAreNat, PacketTime
  <2>9. ASSUME NEW i \in 1..Current PROVE Ts(i) <= ts
    <3>1. Current \in 1..Current /\ i <= Current /\ frames # <<>>
      BY <2>2 DEF Current
    <3>2. Ts(i) <= Ts(Current) /\ Ts(Current) <= ts /\ Ts(i) \in Nat /\ Ts(Current) \in Nat
      BY <2>2, <3>1, PacketTime DEF SortedInv, Frame, Ts
    <3> QED
      BY <2>2, <3>2
  <2>3. SUFFICES ASSUME NEW i \in 1..(Current + 1), NEW j \in 1..(Current + 1), i <= j
                 PROVE  Ts(i)' <= Ts(j)'
    BY <2>1 DEF SortedInv
  <2>4. CASE j = Current + 1 /\ i = j
    <3>1. Ts(i)' = ts /\ Ts(j)' = ts
      BY <2>1, <2>4 DEF Ts
    <3> QED
      BY <2>2, <3>1
  <2>5. CASE j = Current + 1 /\ i \in 1..Current
    <3>1. Ts(i)' = Ts(i) /\ Ts(j)' = ts /\ Ts(i) <= ts
      BY <2>1, <2>5, <2>9 DEF Ts
    <3> QED
      BY <3>1
  <2>6. CASE i \in 1..Current /\ j \in 1..Current
    BY <2>1, <2>3, <2>6 DEF SortedInv
  <2> QED
    BY <2>2, <2>3, <2>4, <2>5, <2>6
<1>2. UNCHANGED frames => SortedInv'
  BY DEF SortedInv, Current, Ts
<1> QED
  BY <1>1, <1>2, CaptureStays, LoopKeepsTables DEF Next, ClockTick, vars

\* The loop reads throughput only from RateBegin on, under the cutoff it has set.
LEMMA LoopKeepsRates ==
    ASSUME LoopNext, ~RateBegin
    PROVE  /\ UNCHANGED <<clock, frames, cap, rates>>
           /\ loop' \in {"bytes", "msgs"} =>
                 loop \in {"bytes", "msgs"} /\ cutoff' = cutoff /\ before' = before
BY DEF LoopNext, ErrorsBegin, LoopTest, LoopPop, SamplesBegin, IterBegin, IterRaise, IterEnd,
       PercentileBegin, PercentileGet, PerfSnapshot, TableBegin, TableRest, TableRaise,
       TableEnd, TableVisit, TableVisitOther, Iterating, Done, windows, capture, table, reader

LEMMA RatesStep ==
    HistoryInv /\ ClockInv /\ SortedInv /\ RatesInv /\ [Next]_vars => RatesInv'
<1> SUFFICES ASSUME HistoryInv, ClockInv, SortedInv, RatesInv, [Next]_vars PROVE RatesInv'
  OBVIOUS
<1>0. clock \in Nat /\ Current \in Nat /\ \A i \in 1..Current : Ts(i) \in Nat
  BY TimesAreNat
<1>a. Len(rates) \in Nat /\ RatedTo \in {Current, Current - 1} /\ Dropped \in Nat
      /\ Dropped <= RatedTo
  BY <1>0 DEF RatesInv, RatedTo, Dropped
<1>1. ASSUME NEW f \in Flows, NEW ts \in PacketTimes, NEW measured \in BOOLEAN,
             Capture(f, ts, measured)
      PROVE  RatesInv'
  <2>1. /\ UNCHANGED <<clock, rates, loop, cutoff, before>> /\ Current' = Current + 1
        /\ \A i \in 1..Current : Ts(i)' = Ts(i)
        /\ cap = "idle" /\ cap' \in {"add", "error", "rate"}
    BY <1>1, CaptureKeeps DEF windows
  <2>2. RatedTo = Current /\ RatedTo' = RatedTo /\ Dropped' = Dropped
    BY <1>0, <2>1 DEF RatedTo, Dropped
  <2>3. \A i \in 1..Dropped : Ts(i)' = Ts(i)
    BY <1>a, <1>0, <2>1, <2>2
  <2> QED
    BY <2>1, <2>2, <2>3 DEF RatesInv
<1>2. CASE RecordRate
  <2>1. /\ rates' = Append(rates, Current) /\ UNCHANGED <<clock, frames, loop, cutoff, before>>
        /\ cap = "rate" /\ cap' \in {"latency", "bytes"}
    BY <1>2 DEF RecordRate, reader, table
  <2>3. RatedTo = Current - 1 /\ RatedTo' = Current
    BY <2>1 DEF RatedTo, Current
  <2>4. /\ rates' \in Seq(Nat) /\ Len(rates') = Len(rates) + 1
        /\ rates'[Len(rates) + 1] = Current
        /\ \A j \in 1..Len(rates) : rates'[j] = rates[j]
    BY <1>0, <2>1 DEF RatesInv
  <2>5. Dropped' = Dropped /\ Dropped + (Len(rates) + 1) = Current
    BY <1>0, <1>a, <2>3, <2>4 DEF Dropped
  <2>6. \A j \in 1..Len(rates') : rates'[j] = Dropped + j
    BY <1>a, <2>4, <2>5 DEF RatesInv
  <2>7. ASSUME loop \in {"bytes", "msgs"}, NEW i \in 1..Current
        PROVE  i <= Dropped \/ Ts(i) >= cutoff \/ i > before.rated
    <3>1. CASE i = Current
      <4>1. before.rated \in Nat /\ before.rated <= Current - 1
        BY <2>3, <2>7 DEF RatesInv
      <4> QED
        BY <1>0, <3>1, <4>1
    <3>2. CASE i # Current
      <4>1. i \in 1..RatedTo
        BY <1>0, <2>3, <3>2
      <4> QED
        BY <2>7, <4>1 DEF RatesInv
    <3> QED
      BY <3>1, <3>2
  <2>8. \A i : Ts(i)' = Ts(i)
    BY <2>1 DEF Ts
  <2>9. Len(rates') <= RatedTo'
    BY <1>0, <1>a, <2>3, <2>4, <2>5
  <2>10. loop \in {"bytes", "msgs"} => before.rated \in Nat /\ before.rated <= RatedTo'
    BY <1>0, <2>3 DEF RatesInv
  <2> QED
    BY <2>1, <2>3, <2>4, <2>5, <2>6, <2>7, <2>8, <2>9, <2>10 DEF RatesInv
<1>3. CASE CaptureNext /\ ~RecordRate
           /\ ~\E f \in Flows, ts \in PacketTimes, measured \in BOOLEAN : Capture(f, ts, measured)
  <2>1. UNCHANGED <<clock, frames, loop, cutoff, before>>
    BY <1>3, CaptureStays
  <2>2. /\ rates' = rates
        /\ cap \in {"add", "trim", "error", "test", "pop", "rate"}
              <=> cap' \in {"add", "trim", "error", "test", "pop", "rate"}
    BY <1>3 DEF CaptureNext, AddSample, TrimSamples, SeeModbus, CaptureTest, CapturePop,
                RecordLatency, RecordRecent, RecordBytes, RecordPkts, RecordLast,
                RecordWindow, AfterAggregator, windows
  <2>3. RatedTo' = RatedTo /\ Dropped' = Dropped /\ \A i : Ts(i)' = Ts(i)
    BY <2>1, <2>2 DEF RatedTo, Dropped, Current, Ts
  <2> QED
    BY <2>1, <2>2, <2>3 DEF RatesInv
<1>4. CASE RateBegin
  <2>1. /\ UNCHANGED <<clock, frames, cap>> /\ loop' = "bytes"
        /\ cutoff' = clock - RateWindow /\ rates' = Evicted(rates, clock - RateWindow)
        /\ before'.rated = RatedTo
    BY <1>4 DEF RateBegin, Nothing, capture
  <2>2. PICK k \in 0..Len(rates) :
           /\ \A i \in 1..k : IsStale(rates[i], clock - RateWindow)
           /\ k < Len(rates) => ~IsStale(rates[k + 1], clock - RateWindow)
           /\ rates' = SubSeq(rates, k + 1, Len(rates))
    BY <2>1, EvictedIs DEF RatesInv
  <2>3. /\ rates' \in Seq(Nat) /\ Len(rates') = Len(rates) - k
        /\ \A j \in 1..(Len(rates) - k) : rates'[j] = rates[k + j]
    BY <2>2, CutFront DEF RatesInv
  <2>4. RatedTo' = RatedTo /\ \A i : Ts(i)' = Ts(i)
    BY <2>1 DEF RatedTo, Current, Ts
  <2>5. Dropped' = Dropped + k /\ Dropped + Len(rates) = RatedTo
    <3>1. RatedTo \in Int
      BY <1>0, <1>a
    <3>2. Dropped' = RatedTo - Len(rates') /\ Dropped = RatedTo - Len(rates)
      BY <2>4 DEF Dropped
    <3> QED
      BY <1>a, <2>3, <3>1, <3>2
  <2>6. \A j \in 1..Len(rates') : rates'[j] = Dropped' + j
    <3>1. ASSUME NEW j \in 1..(Len(rates) - k) PROVE rates'[j] = (Dropped + k) + j
      <4>1. k + j \in 1..Len(rates) /\ Dropped + (k + j) = (Dropped + k) + j
        BY <1>a
      <4> QED
        BY <2>3, <4>1 DEF RatesInv
    <3> QED
      BY <2>3, <2>5, <3>1
  <2>7. ASSUME NEW i \in 1..(Dropped + k) PROVE Ts(i) < clock - RateWindow
    <3>1. CASE i \in 1..Dropped
      BY <3>1 DEF RatesInv
    <3>2. CASE i \notin 1..Dropped
      <4>1. i - Dropped \in 1..k /\ Dropped + (i - Dropped) = i
        BY <1>a, <3>2
      <4>2. rates[i - Dropped] = i
        BY <1>a, <4>1 DEF RatesInv
      <4> QED
        BY <2>2, <4>1, <4>2 DEF IsStale
    <3> QED
      BY <3>1, <3>2
  <2>8. ASSUME NEW i \in 1..RatedTo, i > Dropped + k PROVE ~(Ts(i) < clock - RateWindow)
    <3>1. k < Len(rates) /\ k + 1 \in 1..Len(rates) /\ Dropped + (k + 1) \in 1..Current
          /\ i \in 1..Current /\ Dropped + (k + 1) <= i
      BY <1>0, <1>a, <2>5, <2>8
    <3>2. ~(Ts(Dropped + (k + 1)) < clock - RateWindow)
      BY <2>2, <3>1 DEF IsStale, RatesInv
    <3>3. Ts(Dropped + (k + 1)) <= Ts(i)
      BY <3>1 DEF SortedInv
    <3>4. Ts(Dropped + (k + 1)) \in Nat /\ Ts(i) \in Nat
      BY <1>0, <3>1
    <3> QED
      BY <1>0, <3>2, <3>3, <3>4, MetricsAssumption
  <2>10. cutoff' \in Int /\ cutoff' <= clock
    BY <1>0, <2>1, MetricsAssumption
  <2>12. /\ \A i \in 1..Dropped' : Ts(i) < cutoff'
         /\ \A i \in 1..RatedTo : i <= Dropped' \/ Ts(i) >= cutoff'
    <3>1. \A i \in 1..Dropped' : i \in 1..RatedTo
      BY <1>0, <1>a, <2>5
    <3>2. ASSUME NEW i \in 1..RatedTo PROVE i <= Dropped' \/ Ts(i) >= cutoff'
      <4>1. i \in 1..Current
        BY <1>0, <1>a
      <4>2. Ts(i) \in Nat /\ Dropped' = Dropped + k /\ cutoff' = clock - RateWindow
        BY <1>0, <2>1, <2>5, <4>1
      <4>3. i > Dropped + k => ~(Ts(i) < clock - RateWindow)
        BY <2>8
      <4> QED
        BY <1>0, <1>a, <2>10, <4>2, <4>3
    <3> QED
      BY <2>1, <2>5, <2>7, <3>2
  <2>11. Len(rates') <= RatedTo'
    BY <1>a, <2>3, <2>4, <2>5
  <2>13. before'.rated \in Nat /\ before'.rated <= RatedTo'
    BY <1>a, <1>0, <2>1, <2>4, <2>5
  <2>14. \A i \in 1..Dropped' : Ts(i)' < clock' - RateWindow
    BY <2>1, <2>4, <2>5, <2>7
  <2> QED
    BY <2>1, <2>3, <2>4, <2>6, <2>10, <2>11, <2>12, <2>13, <2>14 DEF RatesInv
<1>5. CASE LoopNext /\ ~RateBegin
  <2>1. /\ UNCHANGED <<clock, frames, cap, rates>>
        /\ loop' \in {"bytes", "msgs"} =>
              loop \in {"bytes", "msgs"} /\ cutoff' = cutoff /\ before' = before
    BY <1>5, LoopKeepsRates
  <2>2. RatedTo' = RatedTo /\ Dropped' = Dropped /\ \A i : Ts(i)' = Ts(i)
    BY <2>1 DEF RatedTo, Dropped, Current, Ts
  <2> QED
    BY <2>1, <2>2 DEF RatesInv
<1>6. CASE ClockTick
  <2>1. clock' = clock + 1 /\ UNCHANGED <<frames, cap, rates, loop, cutoff, before>>
    BY <1>6 DEF ClockTick, windows, reader, table
  <2>2. RatedTo' = RatedTo /\ Dropped' = Dropped /\ \A i : Ts(i)' = Ts(i)
    BY <2>1 DEF RatedTo, Dropped, Current, Ts
  <2>3. ASSUME NEW i \in 1..Dropped PROVE Ts(i) < (clock + 1) - RateWindow
    <3>1. i \in 1..Current /\ Ts(i) < clock - RateWindow
      BY <1>0, <1>a DEF RatesInv
    <3> QED
      BY <1>0, <3>1, MetricsAssumption
  <2>4. loop \in {"bytes", "msgs"} => cutoff <= clock + 1
    BY <1>0 DEF RatesInv
  <2> QED
    BY <2>1, <2>2, <2>3, <2>4 DEF RatesInv
<1>7. CASE UNCHANGED vars
  BY <1>7 DEF vars, windows, table, RatesInv, RatedTo, Dropped, Current, Ts
<1> QED
  BY <1>1, <1>2, <1>3, <1>4, <1>5, <1>6, <1>7 DEF Next

LEMMA TailDropsFirst ==
    ASSUME NEW s \in Seq(Nat), s # <<>>
    PROVE  /\ Tail(s) \in Seq(Nat) /\ Len(Tail(s)) = Len(s) - 1
           /\ \A i \in 1..Len(Tail(s)) : Tail(s)[i] = s[i + 1] /\ i + 1 \in 1..Len(s)
<1>1. /\ Tail(s) \in Seq(Nat) /\ Len(Tail(s)) = Len(s) - 1 /\ Len(s) \in Nat
      /\ \A i \in 1..Len(Tail(s)) : Tail(s)[i] = s[i + 1]
  BY HeadTailProperties, LenProperties
<1> QED
  BY <1>1

\* A pop, by either thread, keeps the order and what is known of the events.
LEMMA ErrorsPopped ==
    ASSUME ErrorsInv, errors # <<>>, errors' = Tail(errors),
           UNCHANGED <<clock, frames, cutoff>>,
           loop' = loop \/ (loop \in {"test", "pop"} /\ loop' \in {"test", "pop"})
    PROVE  ErrorsInv'
<1>1. /\ errors' \in Seq(Nat)
      /\ \A i \in 1..Len(errors') : errors'[i] = errors[i + 1] /\ i + 1 \in 1..Len(errors)
  BY TailDropsFirst DEF ErrorsInv
<1>2. Current' = Current /\ \A i : Ts(i)' = Ts(i)
  BY DEF Current, Ts
<1>3. \A j, k \in 1..Len(errors') : j <= k => Ts(errors'[j]) <= Ts(errors'[k])
  <2>1. SUFFICES ASSUME NEW j \in 1..Len(errors'), NEW k \in 1..Len(errors'), j <= k
                 PROVE  Ts(errors'[j]) <= Ts(errors'[k])
    OBVIOUS
  <2>2. j + 1 \in 1..Len(errors) /\ k + 1 \in 1..Len(errors) /\ j + 1 <= k + 1
    BY <1>1, <2>1
  <2>3. Ts(errors[j + 1]) <= Ts(errors[k + 1])
    BY <2>2 DEF ErrorsInv
  <2> QED
    BY <1>1, <2>3
<1> QED
  BY <1>1, <1>2, <1>3 DEF ErrorsInv, Ts

LEMMA ErrorsStep ==
    HistoryInv /\ ClockInv /\ SortedInv /\ ErrorsInv /\ [Next]_vars => ErrorsInv'
<1> SUFFICES ASSUME HistoryInv, ClockInv, SortedInv, ErrorsInv, [Next]_vars PROVE ErrorsInv'
  OBVIOUS
<1>0. clock \in Nat /\ Current \in Nat /\ \A i \in 1..Current : Ts(i) \in Nat
  BY TimesAreNat
<1>1. ASSUME NEW f \in Flows, NEW ts \in PacketTimes, NEW measured \in BOOLEAN,
             Capture(f, ts, measured)
      PROVE  ErrorsInv'
  <2>1. /\ UNCHANGED <<clock, errors, loop, cutoff>> /\ Current' = Current + 1
        /\ \A i \in 1..Current : frames'[i] = frames[i]
    BY <1>1, CaptureKeeps DEF windows
  <2>2. \A j \in 1..Len(errors) : errors[j] \in 1..Current /\ errors[j] \in 1..(Current + 1)
    BY <1>0 DEF ErrorsInv
  <2>3. \A j \in 1..Len(errors) : frames'[errors[j]].ts = Ts(errors[j])
    BY <2>1, <2>2 DEF Ts
  <2> QED
    BY <2>1, <2>2, <2>3 DEF ErrorsInv, Ts
<1>2. CASE SeeModbus
  <2>1. errors' = Append(errors, Current) /\ UNCHANGED <<clock, frames, loop, cutoff>>
        /\ cap = "error"
    BY <1>2 DEF SeeModbus, Seen, reader
  <2>2. Ts(Current) >= clock - MaxLag /\ Current \in 1..Current
    <3>1. frames # <<>> /\ Frame.ts >= clock - MaxLag
      BY <2>1 DEF ClockInv
    <3>2. Current > 0
      BY <1>0, <3>1, EmptySeq DEF Current, HistoryInv
    <3> QED
      BY <1>0, <3>1, <3>2 DEF Frame, Ts
  <2>3. /\ errors' \in Seq(Nat) /\ Len(errors') = Len(errors) + 1 /\ Len(errors) \in Nat
        /\ errors'[Len(errors) + 1] = Current
        /\ \A j \in 1..Len(errors) : errors'[j] = errors[j]
    BY <1>0, <2>1 DEF ErrorsInv
  <2>4. \A j \in 1..Len(errors') : errors'[j] \in 1..Current
    BY <2>2, <2>3 DEF ErrorsInv
  <2>5. \A j \in 1..Len(errors') :
           Ts(errors'[j]) \in Nat /\ Ts(errors'[j]) <= Ts(Current)
    <3>1. ASSUME NEW i \in 1..Current PROVE Ts(i) \in Nat /\ Ts(i) <= Ts(Current)
      BY <1>0, <2>2 DEF SortedInv
    <3> QED
      BY <2>4, <3>1
  <2>6. ASSUME NEW j \in 1..Len(errors'), NEW k \in 1..Len(errors'), j <= k
        PROVE  Ts(errors'[j]) <= Ts(errors'[k])
    <3>1. CASE k = Len(errors) + 1
      BY <2>2, <2>3, <2>5, <3>1
    <3>2. CASE k \in 1..Len(errors)
      <4>1. j \in 1..Len(errors)
        BY <2>3, <2>6, <3>2
      <4> QED
        BY <2>3, <2>6, <3>2, <4>1 DEF ErrorsInv
    <3> QED
      BY <2>3, <3>1, <3>2
  <2>7. ASSUME loop = "errors", NEW j \in 1..Len(errors') PROVE Ts(errors'[j]) >= cutoff
    <3>1. CASE j = Len(errors) + 1
      <4>1. cutoff \in Int /\ cutoff <= clock - ErrorWindow /\ Ts(Current) \in Nat
        BY <1>0, <2>2, <2>7 DEF ErrorsInv
      <4> QED
        BY <1>0, <2>2, <2>3, <3>1, <4>1, LagAssumption, MetricsAssumption
    <3>2. CASE j \in 1..Len(errors)
      BY <2>3, <2>7, <3>2 DEF ErrorsInv
    <3> QED
      BY <2>3, <3>1, <3>2
  <2>8. Current' = Current /\ \A i : Ts(i)' = Ts(i)
    BY <2>1 DEF Current, Ts
  <2> QED
    BY <2>1, <2>3, <2>4, <2>6, <2>7, <2>8 DEF ErrorsInv, Ts
<1>3. CASE CapturePop
  BY <1>3, ErrorsPopped DEF CapturePop, reader
<1>4. CASE LoopPop
  BY <1>4, ErrorsPopped DEF LoopPop, capture
<1>5. CASE CaptureNext /\ ~SeeModbus /\ ~CapturePop
           /\ ~\E f \in Flows, ts \in PacketTimes, measured \in BOOLEAN : Capture(f, ts, measured)
  <2>1. UNCHANGED <<clock, frames, loop, cutoff>>
    BY <1>5, CaptureStays
  <2>2. errors' = errors
    BY <1>5 DEF CaptureNext, AddSample, TrimSamples, CaptureTest, RecordRate, RecordLatency,
                RecordRecent, RecordBytes, RecordPkts, RecordLast, RecordWindow, windows
  <2> QED
    BY <2>1, <2>2 DEF ErrorsInv, Current, Ts
<1>6. CASE ErrorsBegin
  <2>1. /\ UNCHANGED <<clock, frames, errors>> /\ loop' = "test"
        /\ cutoff' = clock - ErrorWindow
    BY <1>6 DEF ErrorsBegin, capture, windows
  <2>2. cutoff' \in Int /\ cutoff' <= clock - ErrorWindow
    BY <1>0, <2>1, MetricsAssumption
  <2> QED
    BY <2>1, <2>2 DEF ErrorsInv, Current, Ts
<1>7. CASE LoopTest
  <2>1. /\ UNCHANGED <<clock, frames, errors, cutoff>> /\ loop = "test"
        /\ loop' = IF errors # <<>> /\ IsStale(errors[1], cutoff) THEN "pop" ELSE "errors"
    BY <1>7 DEF LoopTest, capture, windows
  <2>2. ASSUME loop' = "errors", NEW j \in 1..Len(errors) PROVE Ts(errors[j]) >= cutoff
    <3>1. 1 \in 1..Len(errors) /\ errors # <<>>
      BY <2>2
    <3>2. ~(Ts(errors[1]) < cutoff)
      BY <2>1, <2>2, <3>1 DEF IsStale
    <3>3. Ts(errors[1]) <= Ts(errors[j]) /\ Ts(errors[1]) \in Nat /\ Ts(errors[j]) \in Nat
      BY <1>0, <3>1 DEF ErrorsInv
    <3>4. cutoff \in Int
      BY <2>1 DEF ErrorsInv
    <3> QED
      BY <3>2, <3>3, <3>4
  <2>3. loop' \in {"pop", "errors"}
    BY <2>1
  <2> QED
    BY <2>1, <2>2, <2>3 DEF ErrorsInv, Current, Ts
<1>8. CASE LoopNext /\ ~ErrorsBegin /\ ~LoopTest /\ ~LoopPop
  <2>1. /\ UNCHANGED <<clock, frames, errors>>
        /\ loop' \in {"test", "pop", "errors"} => loop' = loop /\ cutoff' = cutoff
    BY <1>8 DEF LoopNext, RateBegin, SamplesBegin, IterBegin, IterRaise, IterEnd,
                PercentileBegin, PercentileGet, PerfSnapshot, TableBegin, TableRest,
                TableRaise, TableEnd, TableVisit, TableVisitOther, Iterating, Done,
                windows, capture, table, reader
  <2> QED
    BY <2>1 DEF ErrorsInv, Current, Ts
<1>9. CASE ClockTick
  <2>1. clock' = clock + 1 /\ UNCHANGED <<frames, errors, loop, cutoff>>
    BY <1>9 DEF ClockTick, windows, reader
  <2>2. loop \in {"test", "pop", "errors"} =>
           cutoff \in Int /\ cutoff <= (clock + 1) - ErrorWindow
    BY <1>0, MetricsAssumption DEF ErrorsInv
  <2> QED
    BY <2>1, <2>2 DEF ErrorsInv, Current, Ts
<1>10. CASE UNCHANGED vars
  BY <1>10 DEF vars, windows, ErrorsInv, Current, Ts
<1> QED
  BY <1>1, <1>2, <1>3, <1>4, <1>5, <1>6, <1>7, <1>8, <1>9, <1>10 DEF Next

LEMMA RecentStep ==
    HistoryInv /\ ClockInv /\ SortedInv /\ RecentInv /\ [Next]_vars => RecentInv'
<1> SUFFICES ASSUME HistoryInv, ClockInv, SortedInv, RecentInv, [Next]_vars PROVE RecentInv'
  OBVIOUS
<1>0. clock \in Nat /\ Current \in Nat /\ \A i \in 1..Current : Ts(i) \in Nat
  BY TimesAreNat
<1>1. ASSUME NEW f \in Flows, NEW ts \in PacketTimes, NEW measured \in BOOLEAN,
             Capture(f, ts, measured)
      PROVE  RecentInv'
  <2>1. /\ UNCHANGED <<clock, recent>> /\ Current' = Current + 1
        /\ \A i \in 1..Current : frames'[i] = frames[i]
        /\ cap = "idle" /\ cap' \in {"add", "error", "rate"}
        /\ \A i \in 1..Current : Ts(i)' = Ts(i)
    BY <1>1, CaptureKeeps DEF windows
  <2>7. frames'[Current + 1].ts = ts
    BY <1>1, CaptureKeeps
  <2>2. \A j \in 1..Len(recent) : recent[j] \in 1..Current /\ recent[j] \in 1..(Current + 1)
    BY <1>0 DEF RecentInv
  <2>3. \A j \in 1..Len(recent) : frames'[recent[j]] = frames[recent[j]]
    BY <2>1, <2>2
  <2>4. Passed = Current /\ Passed' = Current
    BY <1>0, <2>1 DEF Passed
  <2>5. \A i : InRecent(i)' <=> InRecent(i)
    BY <2>1 DEF InRecent
  <2>6. ASSUME NEW i \in 1..Current, frames[i].measured
        PROVE  InRecent(i) \/ Ts(i) < ts - SamplesWindow
    <3>1. InRecent(i) \/ Ts(i) < Ts(Current) - SamplesWindow
      BY <2>4, <2>6 DEF RecentInv
    <3>2. Current \in 1..Current /\ frames # <<>>
      BY <1>0 DEF Current
    <3>3. Ts(Current) <= ts /\ ts \in Nat /\ Ts(i) \in Nat /\ Ts(Current) \in Nat
      BY <1>0, <3>2, PacketTime DEF Frame, Ts
    <3> QED
      BY <3>1, <3>3, MetricsAssumption
  <2>8. \A i \in 1..Passed' :
           frames'[i].measured => InRecent(i)' \/ Ts(i)' < Ts(Current)' - SamplesWindow
    <3>1. Ts(Current)' = ts
      BY <2>1, <2>7 DEF Ts
    <3> QED
      BY <2>1, <2>4, <2>5, <2>6, <3>1
  <2> QED
    BY <2>1, <2>2, <2>3, <2>8 DEF RecentInv, Ts
<1>2. CASE RecordRate
  <2>1. /\ UNCHANGED <<clock, frames, recent>> /\ cap = "rate"
        /\ cap' = IF Frame.measured THEN "latency" ELSE "bytes"
    BY <1>2 DEF RecordRate, reader
  <2>2. Frame' = Frame /\ Current' = Current /\ \A i : Ts(i)' = Ts(i)
        /\ (InRecent(i)' <=> InRecent(i))
    BY <2>1 DEF Frame, Current, Ts, InRecent
  <2>3. ASSUME NEW i \in 1..Passed', frames[i].measured
        PROVE  InRecent(i) \/ Ts(i) < Ts(Current) - SamplesWindow
    <3>1. CASE i \in 1..(Current - 1)
      BY <2>1, <2>3, <3>1 DEF RecentInv, Passed
    <3>2. CASE i \notin 1..(Current - 1)
      <4>1. cap' = "bytes" /\ i = Current
        BY <1>0, <2>1, <2>2, <2>3, <3>2 DEF Passed
      <4> QED
        BY <2>1, <2>3, <4>1 DEF Frame
    <3> QED
      BY <3>1, <3>2
  <2>4. cap' # "idle" /\ cap' \in {"latency", "recent"} => Frame.measured
    BY <2>1
  <2> QED
    BY <2>1, <2>2, <2>3, <2>4 DEF RecentInv, Ts
<1>3. CASE RecordRecent
  <2>1. /\ UNCHANGED <<clock, frames>> /\ cap = "recent" /\ cap' = "bytes"
        /\ recent' = Append(recent, Current)
    BY <1>3 DEF RecordRecent
  <2>2. frames # <<>> /\ Frame.measured
    BY <2>1 DEF ClockInv, RecentInv
  <2>3. Current \in 1..Current /\ frames[Current].measured
    <3>1. Current > 0
      BY <1>0, <2>2, EmptySeq DEF Current, HistoryInv
    <3> QED
      BY <1>0, <2>2, <3>1 DEF Frame, Ts
  <2>4. /\ recent' \in Seq(Nat) /\ Len(recent') = Len(recent) + 1 /\ Len(recent) \in Nat
        /\ recent'[Len(recent) + 1] = Current
        /\ \A j \in 1..Len(recent) : recent'[j] = recent[j]
    BY <1>0, <2>1 DEF RecentInv
  <2>5. \A j \in 1..Len(recent') : recent'[j] \in 1..Current /\ frames[recent'[j]].measured
    BY <2>3, <2>4 DEF RecentInv
  <2>6. \A j \in 1..Len(recent') :
           Ts(recent'[j]) \in Nat /\ Ts(recent'[j]) <= Ts(Current)
    <3>1. ASSUME NEW i \in 1..Current PROVE Ts(i) \in Nat /\ Ts(i) <= Ts(Current)
      BY <1>0, <2>3 DEF SortedInv
    <3> QED
      BY <2>5, <3>1
  <2>7. ASSUME NEW j \in 1..Len(recent'), NEW k \in 1..Len(recent'), j <= k
        PROVE  Ts(recent'[j]) <= Ts(recent'[k])
    <3>1. CASE k = Len(recent) + 1
      BY <2>3, <2>4, <2>6, <3>1
    <3>2. CASE k \in 1..Len(recent)
      <4>1. j \in 1..Len(recent)
        BY <2>4, <2>7, <3>2
      <4> QED
        BY <2>4, <2>7, <3>2, <4>1 DEF RecentInv
    <3> QED
      BY <2>4, <3>1, <3>2
  <2>8. \A i : InRecent(i)' <=> InRecent(i) \/ i = Current
    BY <2>4 DEF InRecent
  <2>9. Passed = Current - 1 /\ Passed' = Current
    BY <2>1 DEF Passed, Current
  <2>10. \A i \in 1..Passed' :
            frames[i].measured => InRecent(i)' \/ Ts(i) < Ts(Current) - SamplesWindow
    <3>1. SUFFICES ASSUME NEW i \in 1..Current, frames[i].measured, i # Current
                   PROVE  InRecent(i) \/ Ts(i) < Ts(Current) - SamplesWindow
      BY <2>8, <2>9
    <3>2. i \in 1..Passed
      BY <1>0, <2>9, <3>1
    <3> QED
      BY <3>1, <3>2 DEF RecentInv
  <2>11. Current' = Current /\ \A i : Ts(i)' = Ts(i)
    BY <2>1 DEF Current, Ts
  <2> QED
    BY <2>1, <2>4, <2>5, <2>7, <2>10, <2>11 DEF RecentInv, Ts
<1>4. CASE RecordWindow
  <2> DEFINE limit == Frame.ts - SamplesWindow
  <2>1. /\ UNCHANGED <<clock, frames>> /\ cap = "window" /\ cap' = "idle"
        /\ recent' = Evicted(recent, limit)
    BY <1>4 DEF RecordWindow
  <2>2. limit = Ts(Current) - SamplesWindow /\ limit \in Int
    <3>1. frames # <<>>
      BY <2>1 DEF ClockInv
    <3>2. Current \in 1..Current
      BY <1>0, <3>1, EmptySeq DEF Current, HistoryInv
    <3> QED
      BY <1>0, <3>2, MetricsAssumption DEF Frame, Ts
  <2>3. PICK k \in 0..Len(recent) :
           /\ \A i \in 1..k : IsStale(recent[i], limit)
           /\ k < Len(recent) => ~IsStale(recent[k + 1], limit)
           /\ recent' = SubSeq(recent, k + 1, Len(recent))
    BY <2>1, EvictedIs DEF RecentInv
  <2>4. /\ recent' \in Seq(Nat) /\ Len(recent') = Len(recent) - k
        /\ \A j \in 1..(Len(recent) - k) :
              recent'[j] = recent[k + j] /\ k + j \in 1..Len(recent)
    BY <2>3, CutFront DEF RecentInv
  <2> HIDE DEF limit
  <2>5. \A j \in 1..Len(recent') : recent'[j] \in 1..Current /\ frames[recent'[j]].measured
    BY <2>4 DEF RecentInv
  <2>6. ASSUME NEW i \in 1..Len(recent'), NEW j \in 1..Len(recent'), i <= j
        PROVE  Ts(recent'[i]) <= Ts(recent'[j])
    <3>1. k + i <= k + j
      BY <2>6
    <3>2. Ts(recent[k + i]) <= Ts(recent[k + j])
      BY <2>4, <3>1 DEF RecentInv
    <3> QED
      BY <2>4, <3>2
  <2>7. ASSUME NEW j \in 1..Len(recent'), k < Len(recent) PROVE Ts(recent'[j]) >= limit
    <3>1. k + 1 \in 1..Len(recent) /\ k + 1 <= k + j /\ k + j \in 1..Len(recent)
      BY <2>4, <2>7
    <3>2. Ts(recent[k + 1]) <= Ts(recent[k + j]) /\ ~(Ts(recent[k + 1]) < limit)
      BY <2>3, <2>7, <3>1 DEF RecentInv, IsStale
    <3>3. Ts(recent[k + 1]) \in Nat /\ Ts(recent[k + j]) \in Nat
      BY <1>0, <3>1 DEF RecentInv
    <3> QED
      BY <2>2, <2>4, <3>2, <3>3
  <2>8. \A j \in 1..Len(recent') : Ts(recent'[j]) >= limit
    <3>1. ASSUME NEW j \in 1..Len(recent') PROVE k < Len(recent)
      BY <2>4
    <3> QED
      BY <2>7, <3>1
  <2>9. ASSUME NEW i \in 1..Current, frames[i].measured
        PROVE  InRecent(i)' <=> Ts(i) >= limit
    <3>1. ASSUME InRecent(i)' PROVE Ts(i) >= limit
      BY <2>8, <3>1 DEF InRecent
    <3>2. ASSUME Ts(i) >= limit PROVE InRecent(i)'
      <4>1. i \in 1..Passed
        BY <2>1 DEF Passed
      <4>2. Ts(i) \in Nat
        BY <1>0
      <4>3. InRecent(i)
        BY <2>2, <2>9, <3>2, <4>1, <4>2 DEF RecentInv
      <4>4. PICK j \in 1..Len(recent) : recent[j] = i
        BY <4>3 DEF InRecent
      <4>5. j \notin 1..k
        BY <2>2, <2>3, <3>2, <4>2, <4>4 DEF IsStale
      <4>6. j - k \in 1..(Len(recent) - k) /\ k + (j - k) = j
        BY <4>5
      <4>7. recent'[j - k] = i
        BY <2>4, <4>4, <4>6
      <4> QED
        BY <2>4, <4>6, <4>7 DEF InRecent
    <3> QED
      BY <3>1, <3>2
  <2>10. Frame' = Frame /\ Current' = Current /\ \A i : Ts(i)' = Ts(i)
    BY <2>1 DEF Frame, Current, Ts
  <2>11. ASSUME NEW i \in 1..Current, frames[i].measured
         PROVE  InRecent(i)' \/ Ts(i) < Ts(Current) - SamplesWindow
    BY <1>0, <2>2, <2>9, <2>11
  <2>12. Passed' = Current
    BY <2>1 DEF Passed, Current
  <2>13. \A i \in 1..Current : frames[i].measured => (InRecent(i)' <=> Ts(i) >= Frame.ts - SamplesWindow)
    BY <2>9 DEF limit
  <2> QED
    BY <2>1, <2>4, <2>5, <2>6, <2>10, <2>11, <2>12, <2>13 DEF RecentInv, Ts
<1>5. CASE CaptureNext /\ ~RecordRate /\ ~RecordRecent /\ ~RecordWindow
           /\ ~\E f \in Flows, ts \in PacketTimes, measured \in BOOLEAN : Capture(f, ts, measured)
  <2>1. UNCHANGED <<clock, frames>>
    BY <1>5, CaptureStays
  <2>2. /\ recent' = recent /\ cap' # "idle" /\ cap' # "latency"
        /\ cap' = "recent" => cap = "latency"
        /\ cap \in {"idle", "bytes", "pkts", "last", "window"}
              <=> cap' \in {"idle", "bytes", "pkts", "last", "window"}
    BY <1>5 DEF CaptureNext, AddSample, TrimSamples, SeeModbus, CaptureTest, CapturePop,
                RecordLatency, RecordBytes, RecordPkts, RecordLast, AfterAggregator, windows
  <2>3. /\ Frame' = Frame /\ Passed' = Passed /\ Current' = Current
        /\ \A i : Ts(i)' = Ts(i) /\ (InRecent(i)' <=> InRecent(i))
    BY <2>1, <2>2 DEF Frame, Passed, Current, Ts, InRecent
  <2> QED
    BY <2>1, <2>2, <2>3 DEF RecentInv, Ts
<1>6. CASE LoopNext \/ UNCHANGED vars
  <2>1. UNCHANGED <<clock, frames, cap, recent>>
    BY <1>6 DEF vars, windows, LoopNext, RateBegin, ErrorsBegin, LoopTest, LoopPop,
                SamplesBegin, IterBegin, IterRaise, IterEnd, PercentileBegin, PercentileGet,
                PerfSnapshot, TableBegin, TableRest, TableRaise, TableEnd, TableVisit,
                TableVisitOther, capture
  <2> QED
    BY <2>1 DEF RecentInv, InRecent, Passed, Frame, Current, Ts
<1>7. CASE ClockTick
  <2>1. clock' = clock + 1 /\ UNCHANGED <<frames, cap, recent>> /\ cap = "idle"
    BY <1>7 DEF ClockTick, windows
  <2>3. /\ Frame' = Frame /\ Passed' = Current /\ Current' = Current
        /\ \A i : Ts(i)' = Ts(i) /\ (InRecent(i)' <=> InRecent(i))
    BY <2>1 DEF Frame, Passed, Current, Ts, InRecent
  <2>4. Passed = Current
    BY <2>1 DEF Passed
  <2> QED
    BY <2>1, <2>3, <2>4 DEF RecentInv, Ts
<1> QED
  BY <1>1, <1>2, <1>3, <1>4, <1>5, <1>6, <1>7 DEF Next

WindowsInv == SortedInv /\ RatesInv /\ ErrorsInv /\ RecentInv

LEMMA WindowsInit == Init => WindowsInv
<1> SUFFICES ASSUME Init PROVE WindowsInv
  OBVIOUS
<1>1. /\ frames = <<>> /\ cap = "idle" /\ loop = "idle" /\ rates = <<>> /\ errors = <<>>
      /\ recent = <<>>
  BY DEF Init
<1>2. Len(<<>>) = 0 /\ 1..0 = {} /\ 0 - 0 = 0 /\ \A S : <<>> \in Seq(S)
  OBVIOUS
<1> QED
  BY <1>1, <1>2 DEF WindowsInv, SortedInv, RatesInv, ErrorsInv, RecentInv, RatedTo, Dropped,
                    Passed, Current

---------------------------------------------------------------------------
\* PercentileAggregator.percentile never indexes past the end of the sorted list,
\* whatever the capture thread adds and removes between len and the element's read.
THEOREM PercentileIsSafe == Spec => []PercentileFinds
<1>1. HistoryInv /\ OrderInv => PercentileFinds
  <2> SUFFICES ASSUME HistoryInv, OrderInv, loop = "get"
               PROVE  PercentileIndex < Len(order)
    BY DEF PercentileFinds
  <2>1. n \in 1..(MaxSamples + 1) /\ Len(order) >= Lesser(n, MaxSamples)
    BY DEF OrderInv
  <2>2. PercentileIndex < Lesser(n, MaxSamples)
    BY <2>1, IndexBelowCapacity DEF PercentileIndex
  <2>3. PercentileIndex \in Int /\ Lesser(n, MaxSamples) \in Int /\ Len(order) \in Int
    BY <2>1, CapacityAssumption DEF PercentileIndex, Lesser, OrderInv
  <2> QED
    BY <2>1, <2>2, <2>3
<1> QED
  BY <1>1, MetricsInit, HistoryStep, OrderStep, PTL DEF Spec

\* _evict_modbus never pops from an empty deque, although the capture thread and the
\* metrics tick run it at the same time without a common lock.
THEOREM EvictionIsSafe == Spec => []PopFinds
<1>1. EvictInv => PopFinds
  BY DEF EvictInv, OwnEvent, PopFinds
<1> QED
  BY <1>1, MetricsInit, HistoryStep, EvictStep, PTL DEF Spec

\* A read of a window that completes is of what the window is about, although nothing
\* keeps the capture thread from recording and evicting while it is read: the throughput
\* sums every event of the last window_s and no other but for packets that lagged behind
\* and came in since it evicted, no Modbus event that was over is counted,
\* and between frames exactly the samples of the last samples_window_s are exported.
THEOREM WindowsAreRead == Spec => []ReadsAreWindowed
<1>1. HistoryInv /\ ClockInv /\ WindowsInv => ReadsAreWindowed
  <2> SUFFICES ASSUME HistoryInv, WindowsInv, loop \in Iterating, snap = Iterated
               PROVE  LET read == {snap[i] : i \in DOMAIN snap} IN
                      /\ loop \in {"bytes", "msgs"} =>
                            /\ {i \in 1..RatedTo : Ts(i) >= cutoff} \subseteq read
                            /\ \A i \in read :
                                  i <= RatedTo /\ (Ts(i) >= cutoff \/ i > before.rated)
                      /\ loop = "errors" => \A i \in read : Ts(i) >= cutoff
                      /\ (loop = "samples" /\ cap = "idle" /\ frames # <<>>) =>
                            read = {i \in 1..Current : frames[i].measured
                                       /\ Ts(i) >= Frame.ts - SamplesWindow}
    BY DEF ReadsAreWindowed
  <2> DEFINE read == {snap[i] : i \in DOMAIN snap}
  <2> USE DEF WindowsInv
  <2>0. clock \in Nat /\ Current \in Nat /\ \A i \in 1..Current : Ts(i) \in Nat
    BY TimesAreNat
  <2>1. ASSUME loop \in {"bytes", "msgs"}
        PROVE  /\ {i \in 1..RatedTo : Ts(i) >= cutoff} \subseteq read
               /\ \A i \in read : i <= RatedTo /\ (Ts(i) >= cutoff \/ i > before.rated)
    <3>1. snap = rates /\ DOMAIN snap = 1..Len(rates) /\ Len(rates) \in Nat
      BY <2>1 DEF Iterated, RatesInv
    <3>2. RatedTo \in {Current, Current - 1} /\ RatedTo \in Int
      BY <2>0 DEF RatedTo
    <3>3. Dropped \in Nat /\ Dropped + Len(rates) = RatedTo
      BY <3>1, <3>2 DEF Dropped, RatesInv
    <3>4. ASSUME NEW j \in 1..Len(rates)
          PROVE  rates[j] <= RatedTo /\ (Ts(rates[j]) >= cutoff \/ rates[j] > before.rated)
      <4>1. rates[j] = Dropped + j /\ Dropped + j \in 1..RatedTo /\ ~(Dropped + j <= Dropped)
        BY <2>0, <3>2, <3>3 DEF RatesInv
      <4> QED
        BY <2>1, <4>1 DEF RatesInv
    <3>5. ASSUME NEW i \in 1..RatedTo, Ts(i) >= cutoff
          PROVE  \E j \in 1..Len(rates) : rates[j] = i
      <4>1. i \in 1..Current
        BY <2>0, <3>2
      <4>2. ~(i <= Dropped)
        <5>1. i <= Dropped => i \in 1..Dropped
          BY <3>3
        <5>2. cutoff \in Int /\ Ts(i) \in Nat
          BY <2>0, <2>1, <4>1 DEF RatesInv
        <5> QED
          BY <2>1, <3>5, <5>1, <5>2 DEF RatesInv
      <4>3. i - Dropped \in 1..Len(rates) /\ Dropped + (i - Dropped) = i
        BY <3>2, <3>3, <4>2
      <4> QED
        BY <4>3 DEF RatesInv
    <3> QED
      BY <3>1, <3>4, <3>5
  <2>2. ASSUME loop = "errors" PROVE \A i \in read : Ts(i) >= cutoff
    <3>1. snap = errors /\ DOMAIN snap = 1..Len(errors)
      BY <2>2 DEF Iterated, ErrorsInv
    <3> QED
      BY <2>2, <3>1 DEF ErrorsInv
  <2>3. ASSUME loop = "samples", cap = "idle", frames # <<>>
        PROVE  read = {i \in 1..Current : frames[i].measured
                          /\ Ts(i) >= Frame.ts - SamplesWindow}
    <3>1. snap = recent /\ DOMAIN snap = 1..Len(recent)
      BY <2>3 DEF Iterated, RecentInv
    <3>2. \A i : i \in read <=> InRecent(i)
      BY <3>1 DEF InRecent
    <3>3. \A i : InRecent(i) => i \in 1..Current /\ frames[i].measured
      BY DEF InRecent, RecentInv
    <3>4. \A i \in 1..Current :
             frames[i].measured => (InRecent(i) <=> Ts(i) >= Frame.ts - SamplesWindow)
      BY <2>3 DEF RecentInv
    <3> HIDE DEF read
    <3> QED
      BY <3>2, <3>3, <3>4
  <2> QED
    BY <2>1, <2>2, <2>3
<1>2. Init => HistoryInv /\ ClockInv /\ WindowsInv
  BY MetricsInit, TablesInit, WindowsInit
<1>3. HistoryInv /\ ClockInv /\ WindowsInv /\ [Next]_vars
         => (HistoryInv /\ ClockInv /\ WindowsInv)'
  BY HistoryStep, ClockStep, SortedStep, RatesStep, ErrorsStep, RecentStep DEF WindowsInv
<1> QED
  BY <1>1, <1>2, <1>3, PTL DEF Spec

\* Between frames the per-flow tables are about the same flows, count the same frames,
\* and know every flow that had traffic in the last flow_idle_s.
THEOREM TablesAgree == Spec => []FlowTablesAgree
<1>1. HistoryInv /\ TablesInv /\ LastInv => FlowTablesAgree
  <2> SUFFICES ASSUME HistoryInv, TablesInv, LastInv, cap = "idle"
               PROVE  FlowTablesAgree
    BY DEF FlowTablesAgree
  <2>1. bytes = pkts /\ DOMAIN pkts = DOMAIN lastTs /\ DOMAIN pkts = protos
    BY DEF TablesInv
  <2>2. \A f \in DOMAIN latencies : f \in DOMAIN pkts /\ latencies[f] <= pkts[f]
    BY DEF TablesInv, Count, Ahead
  <2>3. \A i \in 1..Current : Ts(i) >= clock - FlowIdle => frames[i].flow \in DOMAIN pkts
    BY <2>1 DEF LastInv, Noted
  <2> QED
    BY <2>1, <2>2, <2>3 DEF FlowTablesAgree
<1>2. Init => HistoryInv /\ ClockInv /\ SortedInv /\ TablesInv /\ LastInv
  BY MetricsInit, TablesInit, WindowsInit DEF WindowsInv
<1>3. HistoryInv /\ ClockInv /\ SortedInv /\ TablesInv /\ LastInv /\ [Next]_vars
         => (HistoryInv /\ ClockInv /\ SortedInv /\ TablesInv /\ LastInv)'
  BY HistoryStep, ClockStep, SortedStep, TablesStep, LastStep
<1> QED
  BY <1>1, <1>2, <1>3, PTL DEF Spec

\* An unlocked export of the per-flow tables that completes lists no flow twice and omits
\* only flows whose first latency came in while it was read.
THEOREM ExportIsOnce == Spec => []ExportedOnce
<1>1. RowsInv => ExportedOnce
  <2> SUFFICES ASSUME RowsInv, TableComplete PROVE ExportedOnce
    BY DEF ExportedOnce
  <2>1. loop = "others" /\ DOMAIN pkts \subseteq visited /\ DOMAIN rows = 1..Len(rows)
    BY DEF TableComplete, RowsInv
  <2>2. \A f \in before.pkts : Listed(f) \/ f \in DOMAIN latencies \ before.latencies
    BY <2>1 DEF RowsInv
  <2> QED
    BY <2>1, <2>2 DEF ExportedOnce, RowsInv, Listed
<1>2. Init => RowsInv
  BY TablesInit
<1> QED
  BY <1>1, <1>2, RowsStep, PTL DEF Spec
=============================================================================
