------------------------------- MODULE Views -------------------------------
(***************************************************************************)
(* The views of the page over its list of packets: the connection graph    *)
(* with its protocol chips, its host labels and its remembered device map  *)
(* (ConnectionGraph of graph.jsx), the performance tab in demo mode        *)
(* (perf.jsx) and the rail (app.jsx).  React renders after every change of *)
(* state, so that what is shown is a function of the state below; only the *)
(* device map is kept from one rendering to the next.                      *)
(***************************************************************************)
EXTENDS Analysis

CONSTANTS Traffic,       \* the packets that may arrive, with time 0
          MaxPackets,    \* MAX_PACKETS = 600
          StoredBefore,  \* the host labels an earlier visit may have left
          MaxArrivals, MaxClicks, MaxSteps
                         \* bounds on packets, on what the user does, and on both

ASSUME ViewsAssumption == /\ MaxPackets \in Nat \ {0}
                          /\ {MaxArrivals, MaxClicks, MaxSteps} \subseteq Nat

\* An earlier visit saved what the dialog made: every entry has a field.
ASSUME LabelsAssumption ==
    \A saved \in StoredBefore : /\ DOMAIN saved \subseteq Ips
                                /\ \A ip \in DOMAIN saved : DOMAIN saved[ip] # {}

Protos == ToSet(ProtoOrder)
Endpoint == Ips \X Nat
Packet == [src : Endpoint, dst : Endpoint, proto : Protos, topic : Seq(STRING),
           size : Nat, latency : Nat, isError : BOOLEAN, ts : Nat]

ASSUME TrafficAssumption == Traffic \subseteq Packet

VARIABLES
    demo,        \* ?demo=1: presets are shown, simulated packets come from them
    packets, arrivals, clicks,
    tab,         \* activeTab; the view of another tab is unmounted
    showProtos, overrides, devMap,   \* the graph's state and its remembered map
    madeFor,     \* history: the endpoints and overrides the map was made for
    stored,      \* the host labels in localStorage
    saveFailed,  \* history: localStorage refused a write since the labels were loaded
    sort         \* the order of the flow table

graph == <<showProtos, overrides, devMap, madeFor, saveFailed>>
vars == <<demo, packets, arrivals, clicks, tab, graph, stored, sort>>

NoOverrides == [ip \in {} |-> NoFields]
DefaultSort == [key |-> "p99", dir |-> "desc"]

\* The map is made again if its endpoints or overrides are others than before.
Render(newPackets, newOverrides) ==
    LET key == <<EndpointKey(newPackets), newOverrides>>
    IN  /\ overrides' = newOverrides
        /\ madeFor' = key
        /\ devMap' = IF key = madeFor THEN devMap
                     ELSE BuildDeviceMap(newPackets, newOverrides, demo)

Init ==
    /\ demo \in BOOLEAN
    /\ packets = <<>> /\ arrivals = 0 /\ clicks = 0
    /\ tab \in {"graph", "perf"} /\ showProtos = Protos /\ sort = DefaultSort
    /\ stored \in StoredBefore /\ overrides = stored /\ saveFailed = FALSE
    /\ madeFor = <<EndpointKey(<<>>), stored>>
    /\ devMap = BuildDeviceMap(<<>>, stored, demo)

\* setPackets: the oldest packets give way.
SetPackets(new) ==
    /\ packets' = new
    /\ IF tab = "graph" THEN Render(new, overrides)
       ELSE UNCHANGED <<overrides, devMap, madeFor>>

Arrive ==
    /\ arrivals < MaxArrivals /\ arrivals + clicks < MaxSteps
    /\ arrivals' = arrivals + 1
    /\ \E p \in Traffic :
          /\ demo => Hosts(<<p>>) \subseteq DOMAIN Preset
          /\ LET next == Append(packets, [p EXCEPT !.ts = arrivals])
             IN  SetPackets(IF Len(next) > MaxPackets THEN Tail(next) ELSE next)
    /\ UNCHANGED <<demo, clicks, tab, showProtos, stored, saveFailed, sort>>

Click == /\ clicks < MaxClicks /\ arrivals + clicks < MaxSteps
         /\ clicks' = clicks + 1

OnClear ==
    /\ Click /\ SetPackets(<<>>)
    /\ UNCHANGED <<demo, arrivals, tab, showProtos, stored, saveFailed, sort>>

ToggleProto ==
    /\ Click /\ tab = "graph"
    /\ \E proto \in Protos :
          showProtos' = IF proto \in showProtos THEN showProtos \ {proto}
                        ELSE showProtos \cup {proto}
    /\ UNCHANGED <<demo, packets, arrivals, tab, overrides, devMap, madeFor, stored,
                   saveFailed, sort>>

\* updateOverrides: the state changes, and what localStorage refuses is not told.
UpdateOverrides(next) ==
    /\ Render(packets, next)
    /\ \/ stored' = next /\ UNCHANGED saveFailed
       \/ saveFailed' = TRUE /\ UNCHANGED stored
    /\ UNCHANGED <<demo, packets, arrivals, tab, showProtos, sort>>

\* The hosts dialog lists every known host, and every field takes any text; the role
\* is one of the options.
EditField ==
    /\ Click /\ tab = "graph"
    /\ \E ip \in ToSet(Listed(packets, devMap, demo, TRUE)) :
          \/ \E value \in {"", "named"} :
                UpdateOverrides(UpdateField(overrides, ip, "label", value))
          \/ \E value \in {"plc", "sensor"} :
                UpdateOverrides(UpdateField(overrides, ip, "role", value))
          \/ \E value \in {"", "noted"} :
                UpdateOverrides(UpdateField(overrides, ip, "detail", value))

ResetRow ==
    /\ Click /\ tab = "graph"
    /\ \E ip \in DOMAIN overrides : UpdateOverrides(Without(overrides, ip))

ClearAll ==
    /\ Click /\ tab = "graph" /\ DOMAIN overrides # {}
    /\ UpdateOverrides(NoOverrides)

\* Another tab: leaving unmounts the view, coming back mounts it with its first state
\* and the labels that are stored.
ShowTab ==
    /\ Click
    /\ \E t \in {"graph", "perf"} \ {tab} :
          /\ tab' = t
          /\ IF t = "graph"
             THEN /\ showProtos' = Protos /\ overrides' = stored /\ saveFailed' = FALSE
                  /\ madeFor' = <<EndpointKey(packets), stored>>
                  /\ devMap' = BuildDeviceMap(packets, stored, demo)
                  /\ UNCHANGED sort
             ELSE sort' = DefaultSort /\ UNCHANGED graph
    /\ UNCHANGED <<demo, packets, arrivals, stored>>

SortFlows ==
    /\ Click /\ tab = "perf"
    /\ \E key \in {"packets", "p99", "last"} : sort' = ToggleSort(sort, key)
    /\ UNCHANGED <<demo, packets, arrivals, tab, graph, stored>>

Next == \/ Arrive \/ OnClear \/ ToggleProto \/ EditField \/ ResetRow \/ ClearAll
        \/ ShowTab \/ SortFlows

Spec == Init /\ [][Next]_vars

---------------------------------------------------------------------------
\* What the graph shows.
Drawn == Shown(packets, showProtos, devMap)
Devices == DevicesFromMap(devMap, demo)
Columns == ActiveDevices(packets, showProtos, Devices)
DrawnEdges == Edges(Drawn)
Stats == NodeStats(Drawn, devMap)
Places == Positions(Devices, devMap, DrawnEdges, Stats)

\* The device map is not made again for every packet, and yet it never misses a host of
\* the buffer and never keeps one that left it; only the role it inferred may be that of
\* packets evicted since, or of another pairing of the same endpoints.
GraphIsComplete ==
    LET fresh == BuildDeviceMap(packets, overrides, demo)
    IN  tab = "graph" =>
           /\ DOMAIN devMap = DOMAIN fresh
           /\ \A ip \in DOMAIN devMap :
                 /\ devMap[ip].label = fresh[ip].label
                 /\ devMap[ip].detail = fresh[ip].detail
                 /\ \/ devMap[ip] = fresh[ip]
                    \/ ip \notin DOMAIN overrides \/ "role" \notin DOMAIN overrides[ip]

\* The sequence diagram, the topology, the matrix and the dialog count the same packets:
\* every packet whose protocol is on is one message between two columns, is on one edge,
\* sent by one node and received by one, and in one cell of the matrix unless it stays
\* within a host; lanes count a packet once for each lane it touches.
ViewsAgree ==
    LET on == Filter(packets, LAMBDA p : p.proto \in showProtos)
        matrix == PairMat(Drawn)
        ips == ActiveIps(Stats, Devices)
        lane(p) == {devMap[IpOf(p.src)].group, devMap[IpOf(p.dst)].group}
        meta(g) == GroupMeta(g, Devices, devMap, DrawnEdges, Stats)
    IN  tab = "graph" =>
           /\ IsSuffix(Messages(Drawn), on)
           /\ Len(Messages(Drawn)) = Min({Len(on), MessageLimit})
           /\ ToSet(Columns) = Hosts(on) /\ ips = Columns
           /\ Total(DrawnEdges, LAMBDA e : e.count) = Len(on)
           /\ Total(DrawnEdges, LAMBDA e : e.bytes) = TotalBytes(on)
           /\ SumFunction([ip \in DOMAIN Stats |-> Stats[ip].sent]) = Len(on)
           /\ SumFunction([ip \in DOMAIN Stats |-> Stats[ip].recv]) = Len(on)
           /\ SumFunction([pair \in Cells(matrix, ips) |-> matrix[pair].count])
                 = Len(Filter(on, LAMBDA p : IpOf(p.src) # IpOf(p.dst)))
           /\ Lines(matrix, ips) = DOMAIN matrix
           /\ \A g \in Groups : meta(g).packets = Len(Filter(on, LAMBDA p : g \in lane(p)))
           /\ \A ip \in ToSet(Devices) :
                 showProtos = Protos =>
                    PacketCount(packets, ip) = Stats[ip].sent + Stats[ip].recv

\* A label, role or detail the user set is the one shown, in the lane of the role, whatever
\* traffic, presets and the remembered map say, until it is reset; an entry always has a
\* field (the dialog counts entries as hosts with labels), and all edits but those
\* localStorage refused are there for the next visit.
OverridesWin ==
    tab = "graph" =>
       /\ \A ip \in DOMAIN overrides :
             LET ov == overrides[ip]
             IN  /\ DOMAIN ov # {}
                 /\ "label" \in DOMAIN ov => devMap[ip].label = ov["label"]
                 /\ "role" \in DOMAIN ov => /\ devMap[ip].role = ov["role"]
                                            /\ devMap[ip].group = GroupForRole(ov["role"])
                 /\ "detail" \in DOMAIN ov => devMap[ip].detail = ov["detail"]
       /\ saveFailed \/ stored = overrides

\* Every device, arrow, point, bar and mark lies within its drawing, with no sample, one
\* sample, equal samples or a protocol without packets, and no scale divides by nought.
\* No two devices have one place: a lane's devices, ranked by their neighbours, are all
\* placed and lie apart, as do the curves of one lane (and two protocols between the same
\* devices) while the lane has no more edges than the limit of their shift allows.
DrawnApartInside ==
    LET rows == ProtoRows(packets)
        messages == Messages(Drawn)
        columns == Columns
        width == SequenceWidth(Len(columns))
        edges == DrawnEdges
        places == Places
        slots == RouteSlots(edges, devMap, places)
        lane(i) == {j \in DOMAIN edges : LaneOf(edges[j], devMap) = LaneOf(edges[i], devMap)}
    IN  /\ tab = "graph" =>
              /\ \A k \in DOMAIN messages :
                    LET arrow == Arrow(messages, columns, k)
                    IN  /\ {arrow.from, arrow.to} \subseteq 0..width
                        /\ arrow.y \in 0..SequenceHeight(messages) - 64 - 40
              /\ DOMAIN places = DOMAIN devMap
              /\ \A ip \in DOMAIN places :
                    LaneX(devMap[ip].group) \in 0..Width /\ places[ip] \in 56 * Unit..(Height - 40) * Unit
              /\ \A a, b \in DOMAIN devMap :
                    a # b /\ devMap[a].group = devMap[b].group => places[a] # places[b]
              /\ \A i \in DOMAIN edges : \A j \in lane(i) \ {i} :
                    Cardinality(lane(i)) <= 2 * (SlotLimit \div 7) + 1 =>
                       /\ slots[i] # slots[j]
                       /\ edges[i].src = edges[j].src /\ edges[i].dst = edges[j].dst =>
                             CurveShift(edges[i], slots[i]) # CurveShift(edges[j], slots[j])
        /\ tab = "perf" =>
              /\ \A pt \in CdfDrawn(rows) \cup TimeSeriesDrawn(packets) :
                    pt[1] \in 0..PlotW /\ pt[2] \in 0..PlotH
              /\ \A bar \in ComparisonBars(rows) \cup IatBars(rows) \cup SizeBars(rows) :
                    bar[1] >= 0 /\ bar[2] >= 0 /\ bar[1] + bar[2] <= 100

\* The statistics of the demo mode are those of the samples: a percentile has at most its
\* share of the samples below it and at least its share up to it, and a CDF rises through
\* the right ranks to 1 however much it was thinned.
StatsAreQuantiles ==
    \A proto \in DOMAIN PerProto(packets) :
       LET s == Latencies(Of(packets, proto))
           row == PerProto(packets)[proto]
           below(x) == Len(Filter(s, LAMBDA v : v < x))
           upTo(x) == Len(Filter(s, LAMBDA v : v <= x))
           isQuantile(x, percent) == /\ 100 * below(x) <= percent * Len(s)
                                     /\ 100 * upTo(x) >= percent * Len(s)
       IN  /\ isQuantile(row.latency.p50, 50) /\ isQuantile(row.latency.p90, 90)
           /\ isQuantile(row.latency.p95, 95) /\ isQuantile(row.latency.p99, 99)
           /\ row.latency.mean \in row.latency.min..row.latency.max
           /\ \A pt \in ToSet(row.cdf) : below(pt[1]) < pt[2] /\ pt[2] <= upTo(pt[1])
           /\ \A k \in 2..Len(row.cdf) : row.cdf[k - 1][2] < row.cdf[k][2]
           /\ Last(row.cdf) = <<row.latency.max, Len(s)>>

\* The flow ledger, the pairs of the matrix, the protocol rows, the talkers, the topics
\* and the totals of the top bar divide the same packets, whatever the table is sorted by.
FlowsAddUp ==
    LET flows == SortedFlows(PerFlow(packets), sort)
        between(pair) == Filter(flows, LAMBDA f : <<IpOf(f.src), IpOf(f.dst)>> = pair)
        matrix == PairMat(packets)
        rows == ProtoRows(packets)
        talkers == TopTalkers(packets)
        tree == TopicTree(packets)
    IN  tab = "perf" =>
           /\ \A pair \in DOMAIN matrix :
                 /\ Total(between(pair), LAMBDA f : f.packets) = matrix[pair].count
                 /\ Total(between(pair), LAMBDA f : f.bytes) = matrix[pair].bytes
           /\ Total(flows, LAMBDA f : f.bytes) = TotalBytes(packets)
           /\ Total(flows, LAMBDA f : f.latency.n) = Total(rows, LAMBDA r : r.latency.n)
           /\ Total(rows, LAMBDA r : r.size.n) = Len(packets)
           /\ Len(talkers) < TalkerLimit => Total(talkers, LAMBDA t : t.n) = Len(packets)
           /\ \A k \in 2..Len(talkers) : talkers[k - 1].n >= talkers[k].n
           /\ \A path \in DOMAIN tree :
                 tree[path] = SumFunction([sub \in {q \in DOMAIN tree : Front(q) = path} |-> tree[sub]])
                                + Len(Filter(packets, LAMBDA p : p.topic = path))
           /\ \A k \in 2..Len(flows) :
                 IF sort.dir = "asc" THEN Column(flows[k - 1], sort.key) <= Column(flows[k], sort.key)
                 ELSE Column(flows[k - 1], sort.key) >= Column(flows[k], sort.key)

\* The spreadsheet of the flow table has its header, a row for each flow and the same
\* cells in each, from the page's own text as from one with quoted cells and CRLF, as a
\* CSV writer may send it; without flows one empty row follows the header.
SheetKeepsTable ==
    LET header == <<-1, -2, -3>>
        flows == PerFlow(packets)
        table == [k \in DOMAIN flows |-> <<flows[k].packets, flows[k].bytes, flows[k].last>>]
        sheet(rows) == [k \in DOMAIN rows |-> [i \in DOMAIN rows[k] |-> <<Cell(rows[k][i])>>]]
        quoted(text) ==
            FlattenSeq([i \in DOMAIN text |->
                CASE text[i].is = "value" -> <<Separator("quote"), text[i], Separator("quote")>>
                  [] text[i].is = "newline" -> <<Separator("return"), text[i]>>
                  [] OTHER -> <<text[i]>>])
    IN  tab = "perf" =>
           \A text \in {CsvOf(header, table), quoted(CsvOf(header, table))} :
              CsvToRows(text) = sheet(<<header>> \o table)
                                   \o (IF table = <<>> THEN <<<<<<>>>>>> ELSE <<>>)
============================================================================
