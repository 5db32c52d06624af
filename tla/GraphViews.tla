----------------------------- MODULE GraphViews -----------------------------
(***************************************************************************)
(* What the three views of the connection graph draw (frontend/graph.jsx): *)
(* the sequence diagram, the topology and the matrix of the packets whose  *)
(* protocol is switched on.  Coordinates are whole SVG units, rounded      *)
(* down; the places of the topology are exact, in Unit-ths of one.         *)
(* Hovering only dims what is drawn.                                       *)
(***************************************************************************)
EXTENDS HostMap

CONSTANTS MessageLimit,   \* 120: the messages of the sequence diagram
          SlotLimit,      \* 44: how far an edge is moved off the middle of its lane
          Width, Height,  \* the size of a view
          Unit            \* an SVG unit, as a multiple of what makes all places whole

ASSUME MessageAssumption == MessageLimit \in Nat

\* A view is at least 400 by 300, however small its frame.
ASSUME ViewAssumption ==
    /\ Width \in Nat /\ Width >= 400 /\ Height \in Nat /\ Height >= 300
    /\ SlotLimit \in Nat
    /\ Unit \in Nat \ {0} /\ \A n \in 1..Len(IpOrder) : Unit % (2 * n) = 0

ProtoOrder == <<"modbus", "mqtt-tcp", "mqtt-ws">>
RankOf(proto) == CHOOSE i \in DOMAIN ProtoOrder : ProtoOrder[i] = proto

Total(ps, Of(_)) == SumFunction([i \in DOMAIN ps |-> Of(ps[i])])
TotalBytes(ps) == Total(ps, LAMBDA p : p.size)
Errors(ps) == Len(Filter(ps, LAMBDA p : p.isError))

---------------------------------------------------------------------------
(* buildStats *)

\* A mutant of Shown: the protocol chips are not looked at.
Shown_AnyProto(packets, showProtos, devMap) ==
    Filter(packets, LAMBDA p : {IpOf(p.src), IpOf(p.dst)} \subseteq DOMAIN devMap)
Shown(packets, showProtos, devMap) ==
    Filter(packets, LAMBDA p : /\ p.proto \in showProtos
                                  /\ {IpOf(p.src), IpOf(p.dst)} \subseteq DOMAIN devMap)

PairOf(p) == <<IpOf(p.src), IpOf(p.dst)>>

\* One edge per direction and protocol, in the order they appeared.
Edges(shown) ==
    LET keys == Distinct([i \in DOMAIN shown |-> <<PairOf(shown[i]), shown[i].proto>>])
    IN  [k \in DOMAIN keys |->
            LET ps == Filter(shown, LAMBDA p : <<PairOf(p), p.proto>> = keys[k])
            IN  [src |-> keys[k][1][1], dst |-> keys[k][1][2], proto |-> keys[k][2],
                 count |-> Len(ps), bytes |-> TotalBytes(ps), errors |-> Errors(ps)]]

PairMat(shown) ==
    [pair \in {PairOf(p) : p \in ToSet(shown)} |->
        LET ps == Filter(shown, LAMBDA p : PairOf(p) = pair)
        IN  [count |-> Len(ps), bytes |-> TotalBytes(ps), errors |-> Errors(ps),
             protos |-> {p.proto : p \in ToSet(ps)}]]

NodeStats(shown, devMap) ==
    [ip \in DOMAIN devMap |->
        LET out == Filter(shown, LAMBDA p : IpOf(p.src) = ip)
            in == Filter(shown, LAMBDA p : IpOf(p.dst) = ip)
        IN  [sent |-> Len(out), recv |-> Len(in),
             bytes |-> TotalBytes(out) + TotalBytes(in), errors |-> Errors(out) + Errors(in)]]

Busy(stats, ip) == stats[ip].sent + stats[ip].recv > 0

---------------------------------------------------------------------------
(* SequenceView *)

\* The last messages, and the devices that get a column: those of all shown packets.
Messages(shown) == SubSeq(shown, IF Len(shown) > MessageLimit
                                 THEN Len(shown) - MessageLimit + 1 ELSE 1, Len(shown))
ActiveDevices(packets, showProtos, devices) ==
    LET seen == Hosts(Filter(packets, LAMBDA p : p.proto \in showProtos))
    IN  Filter(devices, LAMBDA ip : ip \in seen)

SequenceWidth(columns) ==
    LET wanted == 80 + (IF columns > 1 THEN columns ELSE 1) * 120
    IN  IF Width > wanted THEN Width ELSE wanted
SequenceHeight(messages) ==
    LET wanted == 64 + 12 + Len(messages) * 28 + 40
    IN  IF Height > wanted THEN Height ELSE wanted

ColX(i, columns) == 60 + ((SequenceWidth(columns) - 80) * (2 * i - 1)) \div (2 * columns)
RowY(k) == 12 + 28 * k - 14

\* The arrow of the k-th message; a message within one device is a loop beside it.
Arrow(messages, columns, k) ==
    LET col(ip) == CHOOSE i \in DOMAIN columns : columns[i] = ip
        x1 == ColX(col(IpOf(messages[k].src)), Len(columns))
        x2 == ColX(col(IpOf(messages[k].dst)), Len(columns))
    IN  CASE x1 = x2 -> [from |-> x1, to |-> x1 + 22, y |-> RowY(k)]
          [] x1 < x2 -> [from |-> x1 + 6, to |-> x2 - 6, y |-> RowY(k)]
          [] x1 > x2 -> [from |-> x1 - 6, to |-> x2 + 6, y |-> RowY(k)]

---------------------------------------------------------------------------
(* TopologyView *)

LaneX(group) ==
    CASE group = "plcs" -> (Width * 12) \div 100 [] group = "control" -> (Width * 32) \div 100
      [] group = "brokers" -> (Width * 55) \div 100 [] group = "edge" -> (Width * 75) \div 100
      [] group = "sensors" -> (Width * 92) \div 100

Members(devices, devMap, group) == Filter(devices, LAMBDA ip : devMap[ip].group = group)

\* placeMembers: the y of the i-th of n devices of a lane, in the middle of its share.
Place(i, n) == 56 * Unit + (Height - 96) * ((2 * i - 1) * (Unit \div (2 * n)))

Placed(positions, members) ==
    [ip \in DOMAIN positions \cup ToSet(members) |->
        IF Contains(members, ip)
        THEN Place(CHOOSE i \in DOMAIN members : members[i] = ip, Len(members))
        ELSE positions[ip]]

\* The mean of the places of a device's neighbours, weighed by their packets, as a
\* fraction; its own place if it has none.
Neighbourhood(ip, edges, positions) ==
    LET mine == Filter(edges, LAMBDA e : ip \in {e.src, e.dst})
        other(e) == IF e.src = ip THEN e.dst ELSE e.src
    IN  IF mine = <<>> THEN <<positions[ip], 1>>
        ELSE <<Total(mine, LAMBDA e : positions[other(e)] * e.count),
               Total(mine, LAMBDA e : e.count)>>

\* The order of a lane: devices with traffic first, then by the place of the neighbours;
\* members are listed in the order of devices, which decides between equals.
Ranked(members, edges, stats, positions) ==
    LET ahead(a, b) ==
            LET s == Neighbourhood(a, edges, positions)
                t == Neighbourhood(b, edges, positions)
            IN  IF Busy(stats, a) # Busy(stats, b) THEN Busy(stats, a)
                ELSE s[1] * t[2] < t[1] * s[2]
    IN  Sorted(members, ahead)

GroupOrder == <<"plcs", "control", "brokers", "edge", "sensors">>

\* positions: as listed, then three passes over the lanes, each lane seeing the new
\* places of those before it.  The x of a device is that of its lane.
Positions(devices, devMap, edges, stats) ==
    LET lane(k) == Members(devices, devMap, GroupOrder[1 + ((k - 1) % Len(GroupOrder))])
        rankLane(pos, k) == Placed(pos, Ranked(lane(k), edges, stats, pos))
        listed[k \in 0..Len(GroupOrder)] ==
            IF k = 0 THEN [ip \in {} |-> 0] ELSE Placed(listed[k - 1], lane(k))
        ranked[k \in 0..3 * Len(GroupOrder)] ==
            IF k = 0 THEN listed[Len(GroupOrder)] ELSE rankLane(ranked[k - 1], k)
    IN  ranked[3 * Len(GroupOrder)]

Clamp(x, limit) == IF x < -limit THEN -limit ELSE IF x > limit THEN limit ELSE x

\* A mutant of Slot: the slots of a lane are spread around nought without its middle.
Slot_Crowded(i, n) == Clamp(((i - 1) \div 2) * 14, 2 * SlotLimit)
\* Twice the shift of the i-th of the n edges of a lane.
Slot(i, n) == Clamp((2 * (i - 1) - (n - 1)) * 7, 2 * SlotLimit)

LaneOf(e, devMap) == <<devMap[e.src].group, devMap[e.dst].group>>

\* routeSlots: the shift of each edge, by its place among the edges between the same
\* two lanes.
RouteSlots(edges, devMap, positions) ==
    LET middle(i) == positions[edges[i].src] + positions[edges[i].dst]
        before(i, j) == \/ middle(i) < middle(j)
                        \/ /\ middle(i) = middle(j)
                           /\ \/ RankOf(edges[i].proto) < RankOf(edges[j].proto)
                              \/ edges[i].proto = edges[j].proto /\ i < j
        lane(i) == {j \in DOMAIN edges : LaneOf(edges[j], devMap) = LaneOf(edges[i], devMap)}
    IN  [i \in DOMAIN edges |->
            Slot(1 + Cardinality({j \in lane(i) : before(j, i)}), Cardinality(lane(i)))]

\* topologyPath: twice the vertical shift of an edge's curve, its protocol's included.
CurveShift(e, slot) == 2 * (16 * (RankOf(e.proto) - 2)) + slot

\* groupMeta: what the head of a lane says.
GroupMeta(group, devices, devMap, edges, stats) ==
    LET touching == Filter(edges, LAMBDA e : group \in {devMap[e.src].group, devMap[e.dst].group})
        members == Members(devices, devMap, group)
    IN  [total |-> Len(members),
         active |-> Len(Filter(members, LAMBDA ip : Busy(stats, ip))),
         packets |-> Total(touching, LAMBDA e : e.count),
         errors |-> Total(touching, LAMBDA e : e.errors)]

---------------------------------------------------------------------------
(* MatrixView and CircularGraph *)

ActiveIps(stats, devices) == Filter(devices, LAMBDA ip : Busy(stats, ip))

\* The cells with a number: the diagonal shows a dash whatever it counts.
Cells(pairMat, ips) ==
    {pair \in DOMAIN pairMat : pair[1] # pair[2] /\ pair[1] \in ToSet(ips) /\ pair[2] \in ToSet(ips)}

\* The lines of the circle: pairs with both ends on it.
Lines(pairMat, ips) == {pair \in DOMAIN pairMat : {pair[1], pair[2]} \subseteq ToSet(ips)}
============================================================================
