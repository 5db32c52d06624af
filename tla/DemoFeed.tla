------------------------------ MODULE DemoFeed ------------------------------
(***************************************************************************)
(* The demo mode: synthPacket makes packets of the enabled protocols one   *)
(* after another, numbering them with its two counters, and the inspector  *)
(* shows the last one.  The properties set it beside the same frame taken  *)
(* off the wire: parsed by the server and shown live.                      *)
(***************************************************************************)
EXTENDS Inspector, TLC

CONSTANTS EnabledProtos,   \* the protocols the page enables
          ModbusChoices,   \* what synthModbus may draw, but for txid
          MqttChoices,     \* what synthMqtt may draw, but for pktId
          FirstTxid,       \* TXID = 0x4C10
          FirstPktId,      \* MQTT_PKT = 1
          MaxSynthesized   \* bound on the packets of a run

VARIABLES TXID, MQTT_PKT,  \* the counters
          drawn            \* what was drawn for the packet shown; <<>> before the first
vars == <<TXID, MQTT_PKT, drawn>>

Init == TXID = FirstTxid /\ MQTT_PKT = FirstPktId /\ drawn = <<>>

Synthesized == (TXID - FirstTxid) + (MQTT_PKT - FirstPktId)

DrawModbus ==
    /\ "modbus" \in EnabledProtos /\ Synthesized < MaxSynthesized
    /\ \E c \in ModbusChoices : drawn' = <<c @@ [txid |-> TXID]>>
    /\ TXID' = TXID + 1
    /\ UNCHANGED MQTT_PKT

DrawMqtt ==
    /\ Synthesized < MaxSynthesized
    /\ \E c \in MqttChoices : /\ c.kind \in EnabledProtos
                              /\ drawn' = <<c @@ [pktId |-> MQTT_PKT]>>
    /\ MQTT_PKT' = MQTT_PKT + 1
    /\ UNCHANGED TXID

Next == DrawModbus \/ DrawMqtt
Spec == Init /\ [][Next]_vars

---------------------------------------------------------------------------
\* The packet shown, as the demo makes it and as it would arrive from the wire.
IsModbus(c) == "fc" \in DOMAIN c
Demo(c) == DemoPacket(IF IsModbus(c) THEN SynthModbus(c) ELSE SynthMqtt(c))
Live(c) == LivePacket(Demo(c).proto, Demo(c).bytes)

\* What the frame carries for its application: the data after a Modbus function code,
\* of which a response that reads registers names the registers, and the part of an
\* MQTT message that is called its payload.
Carried(c) ==
    IF IsModbus(c) THEN IF ReadsRegisters(c) THEN Registers(c) ELSE Pdu(c)
    ELSE CASE c.type = Publish -> c.payload
           [] c.type = Connect -> <<0, Len(c.clientId)>> \o c.clientId
           [] c.type = Subscribe -> Word(Len(c.topic)) \o c.topic \o <<1>>
           [] c.type = Suback -> <<1>>
           [] OTHER -> <<>>

\* The live field map has other names for a write request, which it takes for its
\* response, and for the echo of coils, which it takes for a request; and none for the
\* writes of several registers or coils.
NamedOtherwise(c) ==
    IsModbus(c) /\ c.exception = 0 /\ (c.fc = 16 \/ (c.fc = 6 /\ ~c.isResp)
                                                 \/ (c.fc = 1 /\ c.isResp))

\* The synthesizer's packets are what live.jsx makes of the same frame (sim.jsx:1): the
\* server's parser takes exactly the frame, and both field maps name the same fields at
\* the same offsets in the same groups, with the same numbers as far as two bytes hold
\* them (the counters are not reset at 65536, the bytes are).
DemoMatchesLive ==
    \A c \in ToSet(drawn) :
       LET Wire(fields) == [i \in DOMAIN fields |->
                               [fields[i] EXCEPT !.value = IF @ = NoNumber THEN @ ELSE @ % 65536]]
       IN  /\ Live(c).bytes = Demo(c).bytes
           /\ ~NamedOtherwise(c) => Wire(Live(c).fieldMap) = Wire(Demo(c).fieldMap)

\* The rows of the field table lie one after another, each one interval of offsets, from
\* the first byte of the frame to its last (the live map of a PDU it does not annotate
\* stops at the function code), a number is the one its bytes spell, and the two panels
\* above the table hold all of its fields: no byte is shown under two fields or none.
FieldsTile ==
    \A c \in ToSet(drawn) : \A p \in {Demo(c), Live(c)} :
       LET rows == FieldRows(p)
           end == IF p = Live(c) /\ NamedOtherwise(c) /\ c.fc = 16 THEN 8 ELSE Len(p.bytes)
           starts == [i \in DOMAIN rows |->
                         IF i = 1 THEN 0 ELSE Last(p.fieldMap[i - 1].bytes) + 1]
           spelt(f) == FoldLeft(LAMBDA n, i : 256 * n + p.bytes[i + 1], 0, f.bytes)
       IN  /\ \A i \in DOMAIN rows :
                 rows[i].ranges = {<<starts[i], IF i = Len(rows) THEN end - 1
                                                ELSE starts[i + 1] - 1>>}
           /\ \A f \in {g \in ToSet(p.fieldMap) : g.value # NoNumber} :
                 spelt(f) = f.value % 256^Len(f.bytes)
           /\ FixedPanel(p) \o VariablePanel(p) = p.fieldMap

\* From the drawn values through frame, parser, field map and inspector, the payload the
\* page shows is what the frame carries, up to the limit; only a simulated message
\* without payload shows its whole frame instead.  Bytes that are left out of the payload
\* or of the raw dump are always announced, and the note appears for nothing else, except
\* under the registers of a live response, whose reported length also counts the
\* byte-count byte.
PayloadShown ==
    \A c \in ToSet(drawn) :
       /\ BytesOf(ShownPairs(Live(c))) = UpTo(PayloadLimit, Carried(c))
       /\ BytesOf(ShownPairs(Demo(c))) =
             UpTo(PayloadLimit, IF Carried(c) = <<>> THEN Demo(c).bytes ELSE Carried(c))
       /\ \A p \in {Demo(c), Live(c)} :
             /\ RawNote(p) <=> Len(p.bytes) > RawLimit
             /\ PayloadNote(p) <=>
                   \/ Len(Carried(c)) > PayloadLimit
                   \/ Carried(c) = <<>> /\ p = Demo(c) /\ Len(p.bytes) > PayloadLimit
                   \/ p = Live(c) /\ IsModbus(c) /\ ReadsRegisters(c)

\* The offset that labels a row of a dump and a byte's column in it give that byte's
\* place in the frame, in the dump of the payload and in that of the packet, and the
\* words decoded below are the registers that were sent, with the sign of their top bit.
DumpIsFaithful ==
    \A c \in ToSet(drawn) : \A p \in {Demo(c), Live(c)} :
       /\ \A rows \in {HexRows(ShownPairs(p)), RawRows(p)} :
             \A k \in DOMAIN rows : \A i \in DOMAIN rows[k].bytes :
                p.bytes[rows[k].offset + i] = rows[k].bytes[i]
       /\ IsModbus(c) /\ ReadsRegisters(c) =>
             /\ Len(RegisterWords(p)) = Len(UpTo(WordLimit, c.vals))
             /\ \A k \in DOMAIN RegisterWords(p) :
                   LET w == RegisterWords(p)[k]
                   IN  /\ w.u16 = c.vals[k] /\ w.i16 \in -32768..32767
                       /\ w.i16 % 65536 = w.u16 /\ (w.i16 < 0 <=> Head(w.bits) = 1)
============================================================================
