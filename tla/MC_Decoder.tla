----------------------------- MODULE MC_Decoder -----------------------------
(***************************************************************************)
(* The TLC instance of Decoder: Radix is 2 and MaxVlq is 2, so that a      *)
(* length field of one byte holds 0..1 and one of two bytes 0..3.          *)
(***************************************************************************)
EXTENDS Decoder

\* MQTT: an acknowledgement, a ping, and a packet of two bytes whose length field has
\* two bytes and whose body looks like the start of an acknowledgement.
MqttPackets == {<<1, 1, 0>>, <<2, 0>>, <<2, 2, 1, 1, 0>>}

\* Modbus: length 2 (no data) and length 3, with bytes that look like other lengths.
ModbusPackets == {<<1, 2, 3, 2>>, <<3, 3, 0, 1, 2>>}

\* Over WebSocket the frames, not the packets, make the cases.
WsPackets == {<<1, 1, 0>>, <<2, 0>>}

SmallPackets == [p \in {"modbus", "mqtt-tcp", "mqtt-ws"} |->
                    IF p = "modbus" THEN ModbusPackets
                    ELSE IF p = "mqtt-tcp" THEN MqttPackets ELSE WsPackets]
=============================================================================
