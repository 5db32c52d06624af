----------------------------- MODULE Inspector -----------------------------
(***************************************************************************)
(* The packet inspector of the page (frontend/app.jsx): which bytes of a   *)
(* packet it shows as the payload, how it numbers them in its dumps, when  *)
(* it says that bytes are hidden, and how it decodes registers.  A packet  *)
(* is a LivePacket or a DemoPacket of FieldMap; a pair is a byte with its  *)
(* offset in the frame.  The text decodings of the same bytes are left     *)
(* out.                                                                    *)
(***************************************************************************)
EXTENDS FieldMap

CONSTANTS PayloadLimit,   \* PAYLOAD_RENDER_LIMIT = 1024
          RawLimit,       \* RAW_PACKET_RENDER_LIMIT = 4096
          HexRow,         \* HEX_ROW_SIZE = 16
          WordLimit       \* 24: the words of the register table

ASSUME InspectorAssumption ==
    /\ PayloadLimit \in Nat /\ RawLimit \in Nat /\ WordLimit \in Nat
    /\ HexRow \in Nat \ {0}

\* pairsFromBytes
Pairs(bytes) == [i \in DOMAIN bytes |-> [offset |-> i - 1, byte |-> bytes[i]]]
BytesOf(pairs) == [i \in DOMAIN pairs |-> pairs[i].byte]

\* payload.map(i => bytes[i]), in increasing order and without the offsets past the end
PairsAt(bytes, offsets) == SelectSeq(Pairs(bytes), LAMBDA q : q.offset \in offsets)

---------------------------------------------------------------------------
(* Which bytes are the payload *)

IsExact(f) == f.name \in {"Payload", "Register Values"}
IsPayloadLike(f) == IsExact(f) \/ f.desc = "payload"

OffsetsOf(fields) == UNION {ToSet(f.bytes) : f \in ToSet(fields)}

\* A mutant of PayloadIndexes: the first field that looks like payload is taken.
PayloadIndexes_First(p) ==
    LET like == SelectSeq(p.fieldMap, IsPayloadLike)
    IN  IF like # <<>> THEN ToSet(Head(like).bytes)
        ELSE IF p.proto = "modbus" THEN 8..Len(p.bytes) - 1 ELSE {}

\* payloadIndexesFor: the named field unless it is empty, the fields that look like
\* payload, the PDU after its function code, or nothing.
PayloadIndexes(p) ==
    LET exact == SelectSeq(p.fieldMap, IsExact)
        like == SelectSeq(p.fieldMap, IsPayloadLike)
    IN  IF exact # <<>> /\ Head(exact).bytes # <<>> THEN ToSet(Head(exact).bytes)
        ELSE IF like # <<>> THEN OffsetsOf(like)
        ELSE IF p.proto = "modbus" THEN 8..Len(p.bytes) - 1
        ELSE {}

\* Without a mapped byte, the preview that was sent, and without that the whole frame
\* unless the payload is reported empty.
PayloadBytes(p) ==
    LET mapped == BytesOf(PairsAt(p.bytes, PayloadIndexes(p)))
    IN  IF mapped # <<>> THEN mapped
        ELSE IF p.payloadBytes # <<>> THEN p.payloadBytes
        ELSE IF p.payloadLen = 0 THEN <<>>
        ELSE p.bytes

PayloadPairs(p) ==
    IF PayloadIndexes(p) # {} THEN PairsAt(p.bytes, PayloadIndexes(p))
    ELSE Pairs(PayloadBytes(p))

ShownPairs(p) == UpTo(PayloadLimit, PayloadPairs(p))

\* payload_len, as reported or else as found
PayloadLength(p) ==
    CASE p.payloadLen # NoNumber -> p.payloadLen
      [] p.payloadLen = NoNumber /\ PayloadIndexes(p) # {} ->
            Cardinality(PayloadIndexes(p))
      [] OTHER -> Len(PayloadBytes(p))

\* payloadTruncated and rawPacketTruncated: is a note shown?
PayloadNote(p) == \/ Len(PayloadPairs(p)) > Len(ShownPairs(p))
                  \/ PayloadLength(p) > Len(ShownPairs(p))
RawNote(p) == Len(p.bytes) > Len(UpTo(RawLimit, p.bytes))

---------------------------------------------------------------------------
(* The dumps *)

\* The HexRow items of s that make its k-th row.
RowOf(s, k) == UpTo(HexRow, SubSeq(s, HexRow * (k - 1) + 1, Len(s)))
RowCount(s) == (Len(s) + HexRow - 1) \div HexRow

\* A mutant of HexRows: a row is labelled with its place in the dump.
HexRows_Place(pairs) ==
    [k \in 1..RowCount(pairs) |->
        [offset |-> HexRow * (k - 1), bytes |-> BytesOf(RowOf(pairs, k))]]

\* bytePairRows: a row is labelled with the offset of its first byte.
HexRows(pairs) ==
    [k \in 1..RowCount(pairs) |->
        [offset |-> Head(RowOf(pairs, k)).offset, bytes |-> BytesOf(RowOf(pairs, k))]]

RawRows(p) == HexRows(Pairs(UpTo(RawLimit, p.bytes)))

\* fieldRanges: the maximal intervals of the offsets, of which four are printed.
Ranges(offsets) ==
    {<<a, b>> \in offsets \X offsets :
        a <= b /\ a..b \subseteq offsets /\ a - 1 \notin offsets /\ b + 1 \notin offsets}

\* fieldGroupName
GroupName(group) ==
    CASE group = 0 -> "fixed" [] group \in {1, 2} -> "variable"
      [] group \in {3, 4} -> "payload" [] group = 5 -> "error" [] OTHER -> "field"

\* PayloadFieldTable
FieldRows(p) ==
    [i \in DOMAIN p.fieldMap |->
        LET f == p.fieldMap[i]
        IN  [group |-> GroupName(f.group), name |-> f.name,
             ranges |-> Ranges(ToSet(f.bytes)), value |-> f.value]]

\* The two panels of FramePanel split the map by position, five fields to each.
FixedPanel(p) == UpTo(5, p.fieldMap)
VariablePanel(p) == SubSeq(p.fieldMap, 6, Len(UpTo(10, p.fieldMap)))

---------------------------------------------------------------------------
(* Registers *)

U16(high, low) == 256 * high + low

I16(u16) == IF u16 > 32767 THEN u16 - 65536 ELSE u16

\* The bit grid of the first register, bit 15 first.
Bits(u16) == [i \in 1..16 |-> (u16 \div 2^(16 - i)) % 2]

\* wordsFromBytes: whole words only, up to the limit
Words(bytes) ==
    UpTo(WordLimit, [k \in 1..Len(bytes) \div 2 |->
        LET u16 == U16(bytes[2 * k - 1], bytes[2 * k])
        IN  [u16 |-> u16, i16 |-> I16(u16), bits |-> Bits(u16)]])

RegisterBytes(p) ==
    BytesOf(PairsAt(p.bytes,
        OffsetsOf(SelectSeq(p.fieldMap, LAMBDA f : f.name = "Register Values"))))

\* The registers of a response, or else any words of a Modbus payload.
RegisterWords(p) ==
    IF Len(RegisterBytes(p)) >= 2 THEN Words(RegisterBytes(p))
    ELSE IF p.proto = "modbus" THEN Words(PayloadBytes(p)) ELSE <<>>
============================================================================
