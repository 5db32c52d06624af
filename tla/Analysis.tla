------------------------------ MODULE Analysis ------------------------------
(***************************************************************************)
(* What the page computes of its packets beside the graph: the rail with   *)
(* topics and talkers (frontend/app.jsx), and the performance tab          *)
(* (frontend/perf.jsx) with its statistics, its charts, its flow table and *)
(* the spreadsheet it exports.  Numbers are integers: a probability is     *)
(* given as its numerator, a mean is rounded down.                         *)
(***************************************************************************)
EXTENDS GraphViews

CONSTANTS CdfPoints,    \* 80: what a CDF is thinned to, about
          TalkerLimit   \* 5

ASSUME AnalysisAssumption == CdfPoints \in Nat \ {0} /\ TalkerLimit \in Nat

---------------------------------------------------------------------------
(* The rail *)

\* How many packets each value of a key has, for the keys in order of appearance.
CountBy(packets, Key(_)) ==
    LET keys == Distinct([i \in DOMAIN packets |-> Key(packets[i])])
    IN  [k \in DOMAIN keys |-> [key |-> keys[k],
                                n |-> Len(Filter(packets, LAMBDA p : Key(p) = keys[k]))]]

\* topTalkers: the most frequent pairs of a source and a protocol.
TopTalkers(packets) ==
    LET all == CountBy(packets, LAMBDA p : <<IpOf(p.src), p.proto>>)
    IN  SubSeq(Sorted(all, LAMBDA a, b : a.n > b.n),
               1, IF Len(all) < TalkerLimit THEN Len(all) ELSE TalkerLimit)

\* buildTopicTree: the count of every path in the tree, which is that of the topics it
\* begins; topics are sequences of levels, empty ones left out, <<>> is no topic.
TopicTree(packets) ==
    LET paths == UNION {{SubSeq(p.topic, 1, n) : n \in 1..Len(p.topic)} : p \in ToSet(packets)}
    IN  [path \in paths |-> Len(Filter(packets, LAMBDA p : IsPrefix(path, p.topic)))]

---------------------------------------------------------------------------
(* synthFromPackets *)

EmptyStats == [n |-> 0, min |-> 0, max |-> 0, mean |-> 0, stddev |-> 0,
               p50 |-> 0, p90 |-> 0, p95 |-> 0, p99 |-> 0]

Ascending(s) == Sorted(s, <)

\* pick(p) = s[min(n - 1, floor(n * p))], counted from 0
Pick(s, percent) ==
    LET k == (Len(s) * percent) \div 100 IN s[1 + (IF k < Len(s) - 1 THEN k ELSE Len(s) - 1)]

IntSqrt(x) == CHOOSE r \in 0..x : r * r <= x /\ (r + 1) * (r + 1) > x

Summary(samples) ==
    IF samples = <<>> THEN EmptyStats
    ELSE LET s == Ascending(samples)
             n == Len(s)
             mean == Total(s, LAMBDA x : x) \div n
         IN  [n |-> n, min |-> s[1], max |-> s[n], mean |-> mean,
              stddev |-> IntSqrt(Total(s, LAMBDA x : (x - mean) * (x - mean)) \div n),
              p50 |-> Pick(s, 50), p90 |-> Pick(s, 90), p95 |-> Pick(s, 95), p99 |-> Pick(s, 99)]

\* A mutant of CdfEnd: a thinned CDF is left where thinning ends it.
CdfEnd_Open(points, s) == points
\* The last sample is appended unless the points end with it.
CdfEnd(points, s) ==
    IF Last(points)[2] < Len(s) THEN Append(points, <<Last(s), Len(s)>>) ELSE points

\* Points <<x, k>> for P(X <= x) = k / n: every step-th of the sorted samples.
Cdf(samples) ==
    LET s == Ascending(samples)
        step == IF Len(s) < CdfPoints THEN 1 ELSE Len(s) \div CdfPoints
    IN  IF s = <<>> THEN <<>>
        ELSE CdfEnd([k \in 1..1 + (Len(s) - 1) \div step |->
                        <<s[1 + (k - 1) * step], 1 + (k - 1) * step>>], s)

Of(packets, proto) == Filter(packets, LAMBDA p : p.proto = proto)
Latencies(ps) == [i \in DOMAIN ps |-> ps[i].latency]

PerProto(packets) ==
    [proto \in {p.proto : p \in ToSet(packets)} |->
        LET ps == Of(packets, proto)
        IN  [latency |-> Summary(Latencies(ps)),
             iat |-> Summary([i \in 1..Len(ps) - 1 |-> ps[i + 1].ts - ps[i].ts]),
             size |-> Summary([i \in DOMAIN ps |-> ps[i].size]),
             cdf |-> Cdf(Latencies(ps))]]

\* A mutant of FlowKey: both directions of a connection are one flow.
FlowKey_Undirected(p) == IF IpOf(p.src) < IpOf(p.dst) THEN <<p.src, p.dst>> ELSE <<p.dst, p.src>>
FlowKey(p) == <<p.src, p.dst>>

\* A flow has the protocol of its first packet and the time of its last.
PerFlow(packets) ==
    LET keys == Distinct([i \in DOMAIN packets |-> FlowKey(packets[i])])
    IN  [k \in DOMAIN keys |->
            LET ps == Filter(packets, LAMBDA p : FlowKey(p) = keys[k])
            IN  [src |-> keys[k][1], dst |-> keys[k][2], protocol |-> ps[1].proto,
                 latency |-> Summary(Latencies(ps)), bytes |-> TotalBytes(ps),
                 packets |-> Len(ps), last |-> Last(ps).ts]]

\* protoRows: a row for every protocol, with or without packets.
ProtoRows(packets) ==
    [i \in DOMAIN ProtoOrder |->
        LET found == PerProto(packets)
        IN  IF ProtoOrder[i] \in DOMAIN found THEN found[ProtoOrder[i]]
            ELSE [latency |-> EmptyStats, iat |-> EmptyStats, size |-> EmptyStats, cdf |-> <<>>]]

---------------------------------------------------------------------------
(* Charts.  Places are relative to the plot, from 0 to the size of its side. *)

PlotW == 662
PlotH == 184

\* xScale: a domain without extent is drawn at its left end.
XScale(v, lo, hi) == IF hi = lo THEN 0 ELSE ((v - lo) * PlotW) \div (hi - lo)
\* yScale, from the top; the domain has an extent.
YScale(v, lo, hi) == PlotH - ((v - lo) * PlotH) \div (hi - lo)

\* LatencyCdfChart: the largest latency of any row, and at least 1
XMax(rows) == Max({1} \cup UNION {{pt[1] : pt \in ToSet(r.cdf)} : r \in ToSet(rows)})

\* The points of the CDFs; the x domain ends 5% beyond the largest latency.
CdfDrawn(rows) ==
    UNION {{<<XScale(20 * pt[1], 0, 21 * XMax(rows)), YScale(pt[2], 0, r.latency.n)>> :
               pt \in ToSet(r.cdf)} : r \in ToSet(rows)}

\* LatencyTimeSeriesChart on one bucket per protocol, at the time of its last packet:
\* the x domain spans the buckets, the y domain ends 12% above the largest p99.
TimeSeriesDrawn(packets) ==
    LET found == PerProto(packets)
        lastTs(proto) == Last(Of(packets, proto)).ts
        times == {lastTs(proto) : proto \in DOMAIN found}
        yMax == Max({1} \cup {found[proto].latency.p99 : proto \in DOMAIN found})
    IN  UNION {{<<XScale(lastTs(proto), Min(times), Max(times)), YScale(25 * v, 0, 28 * yMax)>> :
                   v \in {found[proto].latency.p50, found[proto].latency.p95,
                          found[proto].latency.p99}} : proto \in DOMAIN found}

\* A bar of a hundred units.
Percent(v, max) == (100 * v) \div max

\* ProtocolComparison: mean, p95 and p99 against the largest p99, cut at 100.
ComparisonBars(rows) ==
    LET max == Max({1} \cup {r.latency.p99 : r \in ToSet(rows)})
        bar(v) == Min({100, Percent(v, max)})
    IN  UNION {{<<0, bar(r.latency.mean)>>, <<0, bar(r.latency.p95)>>, <<0, bar(r.latency.p99)>>} :
                  r \in ToSet(rows)}

\* IatPanel: the mean, and the band of a standard deviation around it.
IatBars(rows) ==
    LET max == Max({1} \cup {r.iat.max : r \in ToSet(rows)})
        left(r) == Max({0, r.iat.mean - r.iat.stddev})
        right(r) == Min({max, r.iat.mean + r.iat.stddev})
    IN  UNION {{<<0, Percent(r.iat.mean, max)>>,
                <<Percent(left(r), max), Percent(right(r) - left(r), max)>>} : r \in ToSet(rows)}

\* SizePanel: the bar of the p95, the marks of mean and median.
SizeBars(rows) ==
    LET max == Max({1} \cup {r.size.max : r \in ToSet(rows)})
    IN  UNION {{<<0, Percent(r.size.p95, max)>>, <<Percent(r.size.mean, max), 0>>,
                <<Percent(r.size.p50, max), 0>>} : r \in ToSet(rows)}

---------------------------------------------------------------------------
(* PerFlowTable *)

\* The columns that have numbers; the others compare as texts.
Column(row, key) ==
    CASE key = "packets" -> row.packets [] key = "bytes" -> row.bytes
      [] key = "mean" -> row.latency.mean [] key = "p95" -> row.latency.p95
      [] key = "p99" -> row.latency.p99 [] key = "max" -> row.latency.max
      [] key = "last" -> row.last

\* Sorted by the column, equal rows as they came.
SortedFlows(rows, sort) ==
    LET ahead(a, b) == IF sort.dir = "asc" THEN Column(a, sort.key) < Column(b, sort.key)
                       ELSE Column(a, sort.key) > Column(b, sort.key)
    IN  Sorted(rows, ahead)

\* toggleSort: the same column turns round, another starts with its largest.
ToggleSort(sort, key) ==
    [key |-> key, dir |-> IF sort.key = key /\ sort.dir = "desc" THEN "asc" ELSE "desc"]

---------------------------------------------------------------------------
(* Spreadsheets.  A text is a sequence of tokens: values of cells, which are numbers *)
(* here, and the separators.  coerceSheetCell, applied to every cell that ends,      *)
(* makes the text of a number that number again, so that it                          *)
(* leaves these cells alone; what it does to other texts (an id that reads as a      *)
(* number, blanks around one) is left out.                                           *)

Cell(v) == [is |-> "value", value |-> v]
Separator(name) == [is |-> name, value |-> 0]

\* The local export: one line per row, each ended by a newline; without rows a second
\* newline follows the header's.
CsvLine(cells) ==
    Append(Front(FlattenSeq([i \in DOMAIN cells |-> <<Cell(cells[i]), Separator("comma")>>])),
           Separator("newline"))
CsvOf(header, rows) ==
    CsvLine(header) \o (IF rows = <<>> THEN <<Separator("newline")>>
                        ELSE FlattenSeq([i \in DOMAIN rows |-> CsvLine(rows[i])]))

\* A mutant of EndRow: the cell before the newline is dropped.
EndRow_DropsCell(st) == [st EXCEPT !.rows = Append(@, st.row), !.row = <<>>, !.cell = <<>>]
EndRow(st) == [st EXCEPT !.rows = Append(@, Append(st.row, st.cell)), !.row = <<>>, !.cell = <<>>]

\* csvToRows: the state of its loop after the i-th token.  A cell is the sequence of its
\* tokens.  Within quotes a pair of quotes is one quote, which "skip" passes over.
CsvStart == [rows |-> <<>>, row |-> <<>>, cell |-> <<>>, quoted |-> FALSE, skip |-> FALSE]
CsvStep(text, st, i) ==
    LET is == text[i].is
        kept == [st EXCEPT !.cell = Append(@, text[i])]
    IN  IF st.skip THEN [st EXCEPT !.skip = FALSE]
        ELSE IF st.quoted
             THEN IF is # "quote" THEN kept
                  ELSE IF i < Len(text) /\ text[i + 1].is = "quote"
                       THEN [kept EXCEPT !.skip = TRUE]
                       ELSE [st EXCEPT !.quoted = FALSE]
        ELSE CASE is = "quote" -> [st EXCEPT !.quoted = TRUE]
               [] is = "comma" -> [st EXCEPT !.row = Append(@, st.cell), !.cell = <<>>]
               [] is = "newline" -> EndRow(st)
               [] is = "return" -> st
               [] OTHER -> kept

\* A last line needs no newline.
CsvToRows(text) ==
    LET after[i \in 0..Len(text)] == IF i = 0 THEN CsvStart ELSE CsvStep(text, after[i - 1], i)
        end == after[Len(text)]
    IN  IF end.cell # <<>> \/ end.row # <<>> THEN EndRow(end).rows
        ELSE IF end.rows = <<>> THEN <<<<<<Separator("empty")>>>>>> ELSE end.rows
============================================================================
