----------------------------- MODULE Simulator -----------------------------
(***************************************************************************)
(* The packet synthesizer of the demo mode (frontend/sim.jsx).  What the   *)
(* code draws at random is the argument of an operator: a record "c" of    *)
(* choices.  A packet has the bytes of its frame and the field map that    *)
(* describes them; offsets count from 0, as in the code.  Texts are        *)
(* sequences of bytes.  The value of a field is its number, or NoNumber    *)
(* for a text; its desc only says whether the word "payload" is in it.     *)
(* Addresses, summaries and latencies are left out.                        *)
(***************************************************************************)
EXTENDS Integers, Sequences, FiniteSets, SequencesExt

NoNumber == -1

\* (n >> 8) & 0xFF and n & 0xFF
Word(n) == <<(n \div 256) % 256, n % 256>>

\* An entry of a field map for len bytes from an offset.
Field(name, desc, from, len, value, group) ==
    [name |-> name, desc |-> desc, value |-> value, group |-> group,
     bytes |-> [i \in 1..len |-> from + i - 1]]

---------------------------------------------------------------------------
(* synthModbus: c has fc, exception (0 for none), isResp, txid, unit, addr, qty, val
   and vals, the registers of a read response, of which there are qty. *)

ReadsRegisters(c) == c.exception = 0 /\ c.isResp /\ c.fc \in {3, 4}
WritesOne(c) == c.exception = 0 /\ c.isResp /\ c.fc \in {5, 6}

Registers(c) == FlattenSeq([i \in DOMAIN c.vals |-> Word(c.vals[i])])

\* The bytes after the function code.
Pdu(c) ==
    CASE c.exception # 0 -> <<c.exception>>
      [] ReadsRegisters(c) -> <<2 * c.qty>> \o Registers(c)
      [] WritesOne(c) -> Word(c.addr) \o Word(c.val)
      [] OTHER -> Word(c.addr) \o Word(c.qty)

PduFields(c) ==
    CASE c.exception # 0 ->
            <<Field("Exception Code", "pdu", 8, 1, c.exception, 5)>>
      [] ReadsRegisters(c) ->
            <<Field("Byte Count", "pdu", 8, 1, 2 * c.qty, 3),
              Field("Register Values", "pdu", 9, 2 * c.qty, NoNumber, 4)>>
      [] WritesOne(c) ->
            <<Field("Address", "pdu", 8, 2, c.addr, 3),
              Field("Value", "pdu", 10, 2, c.val, 4)>>
      [] OTHER ->
            <<Field(IF c.isResp THEN "Address" ELSE "Starting Address",
                    "pdu", 8, 2, c.addr, 3),
              Field("Quantity", "pdu", 10, 2, c.qty, 3)>>

\* A mutant of MbapLength: the unit identifier is not counted.
MbapLength_NoUnit(pdu) == Len(pdu) + 1
\* bytes.length - 6
MbapLength(pdu) == Len(pdu) + 2

SynthModbus(c) ==
    LET fcByte == c.fc + (IF c.exception # 0 THEN 128 ELSE 0)
        length == MbapLength(Pdu(c))
    IN  [proto |-> "modbus", isError |-> c.exception # 0,
         bytes |-> Word(c.txid) \o <<0, 0>> \o Word(length) \o <<c.unit, fcByte>> \o Pdu(c),
         fieldMap |->
            <<Field("Transaction ID", "header", 0, 2, c.txid, 0),
              Field("Protocol ID", "header", 2, 2, 0, 0),
              Field("Length", "header", 4, 2, length, 0),
              Field("Unit Identifier", "header", 6, 1, c.unit, 0),
              Field("Function Code", "pdu", 7, 1, fcByte,
                    IF c.exception # 0 THEN 5 ELSE 0)>> \o PduFields(c)]

---------------------------------------------------------------------------
(* synthMqtt: c has type, qos, retain, topic, payload, pktId and clientId. *)

Connect == 1   Connack == 2   Publish == 3   Puback == 4
Subscribe == 8   Suback == 9

\* Only a PUBLISH has a QoS and a RETAIN flag.
HeaderByte(c) ==
    c.type * 16 + (IF c.type = Publish THEN 2 * c.qos + (IF c.retain THEN 1 ELSE 0) ELSE 0)

PacketId(c) == IF c.qos > 0 THEN Word(c.pktId) ELSE <<>>

\* What follows the two bytes of the fixed header.
MqttBody(c) ==
    CASE c.type = Publish ->
            Word(Len(c.topic)) \o c.topic \o PacketId(c) \o c.payload
      [] c.type = Connect ->
            Word(4) \o <<77, 81, 84, 84>> \o <<4, 2, 0, 60>>
               \o <<0, Len(c.clientId)>> \o c.clientId
      [] c.type = Connack -> <<0, 0>>
      [] c.type = Puback -> Word(c.pktId)
      [] c.type = Suback -> Word(c.pktId) \o <<1>>
      [] c.type = Subscribe ->
            Word(c.pktId) \o Word(Len(c.topic)) \o c.topic \o <<1>>
      [] OTHER -> <<>>

IdField(c, at) == Field("Packet ID", "header", at, 2, c.pktId, 1)

\* A mutant of PayloadField: it starts at the packet identifier.
PayloadField_AtId(c) ==
    Field("Payload", "bytes", 4 + Len(c.topic), Len(c.payload), NoNumber, 3)
PayloadField(c) ==
    Field("Payload", "bytes", 4 + Len(c.topic) + Len(PacketId(c)), Len(c.payload), NoNumber, 3)

MqttFields(c) ==
    CASE c.type = Publish ->
            <<Field("Topic Length", "header", 2, 2, Len(c.topic), 1),
              Field("Topic", "header", 4, Len(c.topic), NoNumber, 2)>>
               \o (IF c.qos > 0 THEN <<IdField(c, 4 + Len(c.topic))>> ELSE <<>>)
               \o <<PayloadField(c)>>
      [] c.type = Connect ->
            <<Field("Protocol Name", "header", 2, 6, NoNumber, 1),
              Field("Protocol Level", "header", 8, 1, 4, 1),
              Field("Connect Flags", "header", 9, 1, NoNumber, 1),
              Field("Keep Alive", "header", 10, 2, 60, 1),
              Field("Client ID", "payload", 12, Len(c.clientId) + 2, NoNumber, 2)>>
      [] c.type = Connack ->
            <<Field("Ack Flags", "header", 2, 1, 0, 1),
              Field("Reason Code", "header", 3, 1, 0, 1)>>
      [] c.type = Puback -> <<IdField(c, 2)>>
      [] c.type = Suback -> <<IdField(c, 2), Field("Granted QoS", "payload", 4, 1, 1, 2)>>
      [] c.type = Subscribe ->
            <<IdField(c, 2),
              Field("Topic Filter", "payload", 4, Len(c.topic) + 2, NoNumber, 2),
              Field("Requested QoS", "payload", 6 + Len(c.topic), 1, 1, 2)>>
      [] OTHER -> <<>>

\* The remaining length is one byte, whatever it is.
SynthMqtt(c) ==
    [proto |-> c.kind, isError |-> FALSE,
     bytes |-> <<HeaderByte(c), Len(MqttBody(c))>> \o MqttBody(c),
     fieldMap |->
        <<Field("Fixed Header", "header", 0, 1, HeaderByte(c), 0),
          Field("Remaining Length", "header", 1, 1, Len(MqttBody(c)), 0)>> \o MqttFields(c)]

============================================================================
