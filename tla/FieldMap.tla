------------------------------ MODULE FieldMap ------------------------------
(***************************************************************************)
(* The field maps of the server's parsers: parse_modbus (protocols/        *)
(* modbus.py) and parse_mqtt (protocols/mqtt.py) on one buffer, and the    *)
(* packet the page makes of the frame they are sent in (_emit_* of         *)
(* capture.py, frameToPacket of live.jsx).  Fields are those of Simulator. *)
(***************************************************************************)
EXTENDS Simulator

CONSTANT PreviewLimit      \* 64: the bytes of payload_bytes

ASSUME PreviewAssumption == PreviewLimit \in Nat

\* The first bytes of s, at most so many.
UpTo(limit, s) == SubSeq(s, 1, IF Len(s) < limit THEN Len(s) ELSE limit)

\* What a parser returns for a truncated or malformed buffer.
NoFrame == [fields |-> <<>>, total |-> 0, payload |-> <<>>]

\* int.from_bytes(buf[at:at+2], "big"), at counted from 0
Int16(buf, at) == 256 * buf[at + 1] + buf[at + 2]

\* A slice that the end of the buffer cuts short is the number of the bytes it has.
CutInt16(buf, at) == IF Len(buf) >= at + 2 THEN Int16(buf, at)
                     ELSE IF Len(buf) > at THEN buf[at + 1] ELSE 0

ModbusData(buf) == SubSeq(buf, 9, 6 + Int16(buf, 4))

\* Which shape the data of a function code has decides what annotates it.
ModbusBody(fc, data) ==
    CASE fc \in 1..4 /\ Len(data) = 4 ->
            <<Field("Starting Address", "pdu", 8, 2, Int16(data, 0), 3),
              Field("Quantity", "pdu", 10, 2, Int16(data, 2), 3)>>
      [] fc \in 1..4 /\ Len(data) # 4 /\ data # <<>> /\ Head(data) + 1 = Len(data) ->
            <<Field("Byte Count", "pdu", 8, 1, Head(data), 3),
              Field("Register Values", "pdu", 9, Head(data), NoNumber, 4)>>
      [] fc \in {5, 6} /\ Len(data) = 4 ->
            <<Field("Address", "pdu", 8, 2, Int16(data, 0), 3),
              Field("Value", "pdu", 10, 2, Int16(data, 2), 4)>>
      [] OTHER -> <<>>

ParseModbus(buf) ==
    IF Len(buf) < 8 \/ Int16(buf, 4) < 2 \/ Len(buf) < 6 + Int16(buf, 4) THEN NoFrame
    ELSE LET data == ModbusData(buf)
             isExc == buf[8] >= 128
         IN  [total |-> 6 + Int16(buf, 4), payload |-> data,
              fields |->
                <<Field("Transaction ID", "header", 0, 2, Int16(buf, 0), 0),
                  Field("Protocol ID", "header", 2, 2, Int16(buf, 2), 0),
                  Field("Length", "header", 4, 2, Int16(buf, 4), 0),
                  Field("Unit Identifier", "header", 6, 1, buf[7], 0),
                  Field("Function Code", "pdu", 7, 1, buf[8], IF isExc THEN 5 ELSE 0)>>
                \o (IF isExc /\ data # <<>>
                    THEN <<Field("Exception Code", "pdu", 8, 1, Head(data), 5)>>
                    ELSE ModbusBody(buf[8] % 128, data))]

---------------------------------------------------------------------------
\* _decode_vlq at offset 1: the bytes up to the first below 128, at most four.
VlqEnds(buf) == {n \in 1..4 : /\ n + 1 <= Len(buf) /\ buf[n + 1] < 128
                              /\ \A k \in 2..n : buf[k] >= 128}
VlqValue(buf, n) ==
    FoldLeftDomain(LAMBDA v, k : v + (buf[k + 1] % 128) * 128^(k - 1), 0, SubSeq(buf, 2, n + 1))

\* The fields of a PUBLISH; none if its topic or its packet id does not fit.
PublishFields(body, base, qos) ==
    LET tlen == Int16(body, 0)
        idLen == IF qos > 0 THEN 2 ELSE 0
    IN  <<Field("Topic Length", "header", base, 2, tlen, 1),
          Field("Topic", "header", base + 2, tlen, NoNumber, 2)>>
        \o (IF qos > 0
            THEN <<Field("Packet ID", "header", base + 2 + tlen, 2,
                         Int16(body, 2 + tlen), 1)>> ELSE <<>>)
        \o <<Field("Payload", "bytes", base + 2 + tlen + idLen,
                   Len(body) - 2 - tlen - idLen, NoNumber, 3)>>

ConnectFields(body, base) ==
    LET pnlen == Int16(body, 0)
        cidLen == CutInt16(body, pnlen + 6)
    IN  <<Field("Protocol Name", "header", base, 2 + pnlen, NoNumber, 1),
          Field("Protocol Level", "header", base + 2 + pnlen, 1, body[3 + pnlen], 1),
          Field("Connect Flags", "header", base + 3 + pnlen, 1, NoNumber, 1),
          Field("Keep Alive", "header", base + 4 + pnlen, 2, Int16(body, pnlen + 4), 1),
          Field("Client ID", "payload", base + 6 + pnlen, 2 + cidLen, NoNumber, 2)>>

SubscribeFields(body, base) ==
    IF Len(body) < 4 \/ Len(body) < 5 + Int16(body, 2) THEN <<>>
    ELSE <<Field("Topic Filter", "payload", base + 2, 2 + Int16(body, 2), NoNumber, 2),
           Field("Requested QoS", "payload", base + 4 + Int16(body, 2), 1,
                 body[5 + Int16(body, 2)], 2)>>

Malformed(type, qos, body) ==
    \/ type \in {1, 3, 4, 5, 6, 7, 8, 9, 11} /\ Len(body) < 2
    \/ type = 3 /\ Len(body) < 2 + Int16(body, 0) + (IF qos > 0 THEN 2 ELSE 0)
    \/ type = 1 /\ Len(body) < 2 + Int16(body, 0) + 4

BodyFields(type, qos, body, base) ==
    LET id == <<Field("Packet ID", "header", base, 2, Int16(body, 0), 1)>>
    IN  CASE type = 3 -> PublishFields(body, base, qos)
          [] type = 1 -> ConnectFields(body, base)
          [] type \in {4, 5, 6, 7, 11} -> id
          [] type = 8 -> id \o SubscribeFields(body, base)
          [] type = 9 -> id \o (IF Len(body) >= 3
                                THEN <<Field("Granted QoS", "payload", base + 2, 1, body[3], 2)>>
                                ELSE <<>>)
          [] type = 2 /\ Len(body) >= 2 ->
                <<Field("Ack Flags", "header", base, 1, body[1], 1),
                  Field("Reason Code", "header", base + 1, 1, body[2], 1)>>
          [] OTHER -> <<>>

ParseMqtt(buf) ==
    IF Len(buf) < 2 \/ VlqEnds(buf) = {} THEN NoFrame
    ELSE LET vlqLen == CHOOSE n \in VlqEnds(buf) : TRUE
             remaining == VlqValue(buf, vlqLen)
             base == 1 + vlqLen
             type == Head(buf) \div 16
             qos == (Head(buf) % 8) \div 2
             body == SubSeq(buf, base + 1, base + remaining)
         IN  IF Len(buf) < base + remaining \/ Malformed(type, qos, body) THEN NoFrame
             ELSE LET fields == BodyFields(type, qos, body, base)
                  IN  [total |-> base + remaining,
                       payload |-> IF type = 3
                                   THEN SubSeq(buf, base + remaining - Len(Last(fields).bytes) + 1,
                                               base + remaining)
                                   ELSE <<>>,
                       fields |->
                         <<Field("Fixed Header", "header", 0, 1, Head(buf), 0),
                           Field("Remaining Length", "header", 1, vlqLen, remaining, 0)>> \o fields]

Parse(proto, buf) == IF proto = "modbus" THEN ParseModbus(buf) ELSE ParseMqtt(buf)

---------------------------------------------------------------------------
\* What the inspector reads of a packet.  _emit_* sends the preview and the length of
\* the payload, which frameToPacket keeps; a simulated packet has neither.
LivePacket(proto, buf) ==
    LET m == Parse(proto, buf)
    IN  [proto |-> proto, bytes |-> SubSeq(buf, 1, m.total), fieldMap |-> m.fields,
         payloadBytes |-> UpTo(PreviewLimit, m.payload),
         payloadLen |-> Len(m.payload)]

DemoPacket(p) ==
    [proto |-> p.proto, bytes |-> p.bytes, fieldMap |-> p.fieldMap,
     payloadBytes |-> <<>>, payloadLen |-> NoNumber]
============================================================================
