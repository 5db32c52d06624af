------------------------------ MODULE Decoder ------------------------------
(***************************************************************************)
(* One direction of one flow after TCP reassembly: the WebSocket unmasker  *)
(* (transport/websocket.py), parse_buf and the loops that cut Modbus and   *)
(* MQTT packets from it (capture.py, protocols/modbus.py and mqtt.py).     *)
(*                                                                         *)
(* The sender's bytes are chosen first; the sniffer then joins, at the     *)
(* start or late, and push hands it the rest in chunks of any size.  Bytes *)
(* are numbers below 2 * Radix.  A packet is in miniature:                 *)
(*   MQTT    type, variable-length length of 1..MaxVlq bytes, body; 0 and  *)
(*           3 are the reserved types, 1 is a type whose body needs        *)
(*           MinBody bytes for its fields, 2 is a type without fields      *)
(*   Modbus  the MBAP header up to its length byte, unit, function, data   *)
(* A WebSocket stream is made of tokens: a part of the HTTP handshake, a   *)
(* whole frame header, or one payload byte.                                *)
(***************************************************************************)
EXTENDS Integers, Sequences, SequencesExt, FiniteSetsExt

CONSTANTS Radix,            \* 128 in MQTT
          MaxVlq,           \* 4 in MQTT
          MinBody,          \* 2 for the acknowledgements of MQTT
          Protocols,        \* a subset of {"modbus", "mqtt-tcp", "mqtt-ws"}
          Directions,       \* "s2c": from the server, "c2s": from the client
          Packets,          \* protocol -> the packets a sender may send
          MaxPackets,       \* bound on the packets sent
          MaxPings,         \* bound on the WebSocket control frames
          LateJoin          \* may the sniffer join an open connection?

ASSUME DecoderAssumption ==
    /\ Radix \in Nat \ {0} /\ MaxVlq \in Nat \ {0} /\ MinBody \in Nat
    /\ Protocols \subseteq {"modbus", "mqtt-tcp", "mqtt-ws"}
    /\ Directions \subseteq {"s2c", "c2s"}
    /\ MaxPackets \in Nat /\ MaxPings \in Nat /\ LateJoin \in BOOLEAN

VARIABLES
    proto, dir, packets,        \* the flow and what its sender sends
    framed, midMessage, pings,  \* how much of it is on the wire, in frames
    line,                       \* bytes push has not returned yet
    late,                       \* the sniffer joined after the first byte
    upgraded, handshake_buf, buf, fragments,    \* WebSocketUnmasker
    out,                        \* _drain's local bytearray
    parse_buf,                  \* FlowState.parse_buf
    frames,                     \* packets emitted, in order
    seen,                       \* history: all bytes appended to parse_buf
    pc                          \* wire, idle, unmask, parse

sender == <<proto, dir, packets, framed, midMessage, pings>>
unmasker == <<upgraded, handshake_buf, buf, fragments, out>>
parser == <<parse_buf, frames, seen>>
vars == <<sender, line, late, unmasker, parser, pc>>

Byte(v) == <<"byte", v>>
Control(v) == <<"control", v>>
Header(fin, op, n) == <<"header", fin, op, n>>
Upgrade == <<"http", "101">>        \* a head with HTTP/1.1 101
Request == <<"http", "GET">>        \* a head without it
EndOfHead == <<"http", "end">>

Bytes == 0..2 * Radix - 1

App == FlattenSeq(packets)
Values(tokens) == [i \in DOMAIN tokens |-> tokens[i][2]]

Init ==
    /\ proto \in Protocols
    /\ dir \in IF proto = "mqtt-ws" THEN Directions ELSE {"s2c"}
    /\ packets \in SeqOf(Packets[proto], MaxPackets) \ {<<>>}
    /\ midMessage = FALSE /\ pings = 0
    /\ IF proto = "mqtt-ws"
       THEN /\ line = <<IF dir = "s2c" THEN Upgrade ELSE Request, EndOfHead>>
            /\ framed = 0
       ELSE /\ line = [i \in DOMAIN App |-> Byte(App[i])]
            /\ framed = Len(App)
    /\ late = FALSE
    /\ upgraded = FALSE /\ handshake_buf = <<>> /\ buf = <<>>
    /\ fragments = <<>> /\ out = <<>>
    /\ parse_buf = <<>> /\ frames = <<>> /\ seen = <<>>
    /\ pc = "wire"

---------------------------------------------------------------------------
(* The sender and the tap. *)

\* A data frame with the next n bytes, which ends a message or is to be continued.
SendFrame(n, fin) ==
    /\ pc = "wire"
    /\ n <= Len(App) - framed
    /\ n = 0 => midMessage /\ fin      \* an empty frame may end a message
    /\ ~fin => framed + n < Len(App)
    /\ line' = line \o <<Header(fin, IF midMessage THEN "cont" ELSE "data", n)>>
                    \o [i \in 1..n |-> Byte(App[framed + i])]
    /\ framed' = framed + n
    /\ midMessage' = ~fin
    /\ UNCHANGED <<proto, dir, packets, pings, late, unmasker, parser, pc>>

\* A control frame, which may come between the fragments of a message.
SendPing ==
    /\ pc = "wire" /\ proto = "mqtt-ws" /\ pings < MaxPings
    /\ pings' = pings + 1
    /\ line' = line \o <<Header(TRUE, "control", 1), Control(0)>>
    /\ UNCHANGED <<proto, dir, packets, framed, midMessage, late, unmasker,
                   parser, pc>>

\* The first segment the sniffer captures begins after j tokens.
Join(j) ==
    /\ pc = "wire" /\ framed = Len(App) /\ ~midMessage
    /\ line' = SubSeq(line, j + 1, Len(line))
    /\ late' = (j > 0)
    /\ pc' = "idle"
    /\ UNCHANGED <<sender, unmasker, parser>>

---------------------------------------------------------------------------
(* _on_packet with the bytes push returned; the first k tokens of line. *)

\* Modbus and MQTT over TCP: straight to the parser.
FeedParser(k) ==
    /\ pc = "idle" /\ proto # "mqtt-ws"
    /\ parse_buf' = parse_buf \o Values(SubSeq(line, 1, k))
    /\ seen' = seen \o Values(SubSeq(line, 1, k))
    /\ line' = SubSeq(line, k + 1, Len(line))
    /\ pc' = "parse"
    /\ UNCHANGED <<sender, late, unmasker, frames>>

\* feed before the upgrade: wait for the end of a head; a head with 101 upgrades the
\* flow, any other is dropped with everything behind it.
FeedHandshake(k) ==
    LET h == handshake_buf \o SubSeq(line, 1, k)
        ends == {i \in DOMAIN h : h[i] = EndOfHead}
    IN
    /\ pc = "idle" /\ proto = "mqtt-ws" /\ ~upgraded
    /\ \/ /\ ends = {}
          /\ handshake_buf' = h
          /\ pc' = "idle"
          /\ UNCHANGED <<upgraded, buf>>
       \/ /\ ends # {}
          /\ handshake_buf' = <<>>
          /\ IF \E i \in 1..Min(ends) : h[i] = Upgrade
             THEN /\ upgraded' = TRUE
                  /\ buf' = buf \o SubSeq(h, Min(ends) + 1, Len(h))
                  /\ pc' = "unmask"
             ELSE /\ pc' = "idle"
                  /\ UNCHANGED <<upgraded, buf>>
    /\ line' = SubSeq(line, k + 1, Len(line))
    /\ UNCHANGED <<sender, late, fragments, out, parser>>

FeedFrames(k) ==
    /\ pc = "idle" /\ proto = "mqtt-ws" /\ upgraded
    /\ buf' = buf \o SubSeq(line, 1, k)
    /\ line' = SubSeq(line, k + 1, Len(line))
    /\ pc' = "unmask"
    /\ UNCHANGED <<sender, late, upgraded, handshake_buf, fragments, out, parser>>

\* _parse_frame finds a whole frame.
FrameComplete == buf # <<>> /\ Len(buf) >= 1 + buf[1][4]

\* A mutant of Message: a control frame between fragments starts a new message.
Message_Reset(op, payload) ==
    IF op = "cont" THEN fragments \o payload
    ELSE IF op = "data" THEN payload ELSE <<>>
Message(op, payload) ==
    IF op = "cont" THEN fragments \o payload
    ELSE IF op = "data" THEN payload ELSE fragments

\* One iteration of _drain: control frames are ignored, the fragments of a message are
\* collected, and its last one releases it.
UnmaskFrame ==
    LET fin == buf[1][2]
        op == buf[1][3]
        n == buf[1][4]
        message == Message(op, Values(SubSeq(buf, 2, n + 1)))
    IN
    /\ pc = "unmask" /\ FrameComplete
    /\ buf' = SubSeq(buf, n + 2, Len(buf))
    /\ IF fin /\ op # "control"
       THEN out' = out \o message /\ fragments' = <<>>
       ELSE fragments' = message /\ UNCHANGED out
    /\ UNCHANGED <<sender, line, late, upgraded, handshake_buf, parser, pc>>

\* feed returns: nothing to parse, or more bytes for the parser.
UnmaskDone ==
    /\ pc = "unmask" /\ ~FrameComplete
    /\ parse_buf' = parse_buf \o out
    /\ seen' = seen \o out
    /\ out' = <<>>
    /\ pc' = IF out = <<>> THEN "idle" ELSE "parse"
    /\ UNCHANGED <<sender, line, late, upgraded, handshake_buf, buf, fragments,
                   frames>>

---------------------------------------------------------------------------
(* The parsers: the length of the packet at the head of b, 0 for None. *)

\* The number of bytes of the length field, 0 if it is cut off or too long.
VlqLen(b) ==
    LET ends == {i \in 1..MaxVlq : i < Len(b) /\ b[i + 1] < Radix}
    IN IF ends = {} THEN 0 ELSE Min(ends)

\* The value of the length field.
RemainingLength(b) ==
    LET field == SubSeq(b, 2, VlqLen(b) + 1)
        v[i \in 0..Len(field)] ==       \* value and multiplier after i bytes
          IF i = 0 THEN <<0, 1>>
          ELSE <<v[i - 1][1] + (field[i] % Radix) * v[i - 1][2], v[i - 1][2] * Radix>>
    IN v[Len(field)][1]

MqttTotal(b) == 1 + VlqLen(b) + RemainingLength(b)

\* Does the body have room for the fields of its type?
BodyFits(b) == b[1] = 1 => RemainingLength(b) >= MinBody

Whole(b) == VlqLen(b) > 0 /\ MqttTotal(b) <= Len(b)

ParseMqtt(b) ==
    IF Len(b) >= 2 /\ Whole(b) /\ BodyFits(b) THEN MqttTotal(b) ELSE 0

MbapPrefix == 2     \* the bytes of the header up to the length field: 6 in Modbus

ParseModbus(b) ==
    IF Len(b) < MbapPrefix + 2 THEN 0
    ELSE LET total == MbapPrefix + b[MbapPrefix]
         IN IF b[MbapPrefix] < 2 \/ Len(b) < total THEN 0 ELSE total

ValidTypes == {1, 2}

ParseAs(p, b) ==
    IF p = "modbus" THEN ParseModbus(b)
    ELSE IF Len(b) >= 2 /\ b[1] \in ValidTypes THEN ParseMqtt(b) ELSE 0

Parse(b) == ParseAs(proto, b)

\* What a sender sends are whole packets of its protocol.
ASSUME PacketsAssumption ==
    \A p \in Protocols : \A k \in Packets[p] :
       k \in Seq(Bytes) /\ Len(k) > 0 /\ ParseAs(p, k) = Len(k)

\* A mutant of Skippable: a lone byte is skipped before its packet has arrived.
Skippable_Lone(b) ==
    proto # "modbus" /\ b # <<>> /\ (Len(b) < 2 \/ b[1] \notin ValidTypes)
Skippable(b) == proto # "modbus" /\ Len(b) >= 2 /\ b[1] \notin ValidTypes

\* Mid-stream resync of _drain_mqtt: a byte that cannot begin a packet is skipped.
SkipByte ==
    /\ pc = "parse" /\ Skippable(parse_buf)
    /\ parse_buf' = Tail(parse_buf)
    /\ UNCHANGED <<sender, line, late, unmasker, frames, seen, pc>>

\* A mutant of EmitPacket: one packet a call.
EmitPacket_Once ==
    LET n == Parse(parse_buf) IN
    /\ pc = "parse" /\ n > 0
    /\ frames' = Append(frames, SubSeq(parse_buf, 1, n))
    /\ parse_buf' = SubSeq(parse_buf, n + 1, Len(parse_buf))
    /\ pc' = "idle"
    /\ UNCHANGED <<sender, line, late, unmasker, seen>>

\* A packet is cut off and emitted.
EmitPacket ==
    LET n == Parse(parse_buf) IN
    /\ pc = "parse" /\ n > 0
    /\ frames' = Append(frames, SubSeq(parse_buf, 1, n))
    /\ parse_buf' = SubSeq(parse_buf, n + 1, Len(parse_buf))
    /\ UNCHANGED <<sender, line, late, unmasker, seen, pc>>

\* A mutant of Stuck: the loop ends only when nothing is left to parse.
Stuck_WhenEmpty == parse_buf = <<>>
Stuck == ~Skippable(parse_buf) /\ Parse(parse_buf) = 0

\* Both loops end when the parser returns None.
ParseDone ==
    /\ pc = "parse" /\ Stuck
    /\ pc' = "idle"
    /\ UNCHANGED <<sender, line, late, unmasker, parser>>

---------------------------------------------------------------------------
SendNext == \/ \E n \in 0..Len(App), fin \in BOOLEAN : SendFrame(n, fin)
            \/ SendPing

Feed == \E k \in 1..Len(line) : FeedParser(k) \/ FeedHandshake(k) \/ FeedFrames(k)

DrainNext == UnmaskFrame \/ UnmaskDone \/ SkipByte \/ EmitPacket \/ ParseDone

Next == \/ SendNext
        \/ \E j \in IF LateJoin THEN 0..Len(line) - 1 ELSE {0} : Join(j)
        \/ Feed
        \/ DrainNext

Spec == Init /\ [][Next]_vars

\* A call of _on_packet runs to its end.
FairSpec == Spec /\ WF_vars(DrainNext)

---------------------------------------------------------------------------
TypeOK ==
    /\ proto \in Protocols /\ dir \in {"s2c", "c2s"}
    /\ packets \in Seq(Packets[proto]) /\ framed \in 0..Len(App)
    /\ midMessage \in BOOLEAN /\ pings \in 0..MaxPings
    /\ late \in BOOLEAN /\ upgraded \in BOOLEAN
    /\ fragments \in Seq(Bytes) /\ out \in Seq(Bytes)
    /\ parse_buf \in Seq(Bytes) /\ seen \in Seq(Bytes)
    /\ frames \in Seq(Seq(Bytes) \ {<<>>})
    /\ pc \in {"wire", "idle", "unmask", "parse"}
    /\ pc = "idle" => out = <<>>

\* The payload bytes among the tokens.
Data(tokens) ==
    FlattenSeq([i \in DOMAIN tokens |->
                  IF tokens[i][1] = "byte" THEN <<tokens[i][2]>> ELSE <<>>])

\* From a handshake it has seen, the unmasker hands over every payload byte once and in
\* order, however messages are fragmented, interleaved with control frames and cut into
\* chunks; what it has not handed over yet it still holds.
PayloadIntact ==
    (pc # "wire" /\ ~late /\ dir = "s2c") =>
       seen \o out \o fragments \o Data(handshake_buf \o buf) \o Data(line) = App

\* A flow captured from its start decodes to the packets that were sent, in order, and
\* between two chunks no packet that has arrived completely is held back.
PacketsExact ==
    ~late => /\ IsPrefix(frames, packets)
             /\ pc = "idle" /\ frames # packets =>
                   Len(seen) < Len(FlattenSeq(SubSeq(packets, 1, Len(frames) + 1)))

\* What parsing s in one go as protocol p would emit: d[n] is for its last n bytes.
Decoded(p, s) ==
    LET rest(n) == SubSeq(s, Len(s) - n + 1, Len(s))
        d[n \in 0..Len(s)] ==
          IF p # "modbus" /\ n >= 2 /\ rest(n)[1] \notin ValidTypes THEN d[n - 1]
          ELSE IF ParseAs(p, rest(n)) = 0 THEN <<>>
          ELSE <<SubSeq(rest(n), 1, ParseAs(p, rest(n)))>> \o d[n - ParseAs(p, rest(n))]
    IN d[Len(s)]

\* Segment boundaries never change what is decoded, not even after a late join.
SegmentationIrrelevant ==
    pc = "idle" => frames = Decoded(proto, seen)

\* No chunk keeps the capture thread, which holds the engine lock.
DrainReturns ==
    pc # "wire" ~> pc = "idle"

\* A flow whose handshake was captured is decoded, in either direction: the unmasker
\* "strips RFC 6455 frame headers and XOR-unmasks the payload" (README.md:297), and
\* only the frames of a client are masked.
HandshakeIsEnough ==
    (pc = "idle" /\ ~late /\ line = <<>>) => seen = App

=============================================================================
