---------------------------- MODULE MC_DemoFeed ----------------------------
\* Every kind of packet, with payloads around the limits; the counters start one
\* below the size of their two bytes.
EXTENDS DemoFeed

Vals == {<<0, 65534>>, <<32767, 32768, 258>>, <<1, 2, 3, 4, 5>>}

MC_ModbusChoices ==
    {c \in [fc : {1, 3, 4, 6, 16}, exception : {0, 2, 6}, isResp : BOOLEAN, unit : {17},
            addr : {0, 65534}, val : {258}, vals : Vals, qty : {2, 3, 5}] :
       /\ c.qty = Len(c.vals)
       /\ c.fc = 1 => c.exception = 0}

Text(n) == [i \in 1..n |-> 96 + i]

MC_MqttChoices ==
    {c \in [kind : {"mqtt-tcp", "mqtt-ws"}, type : {1, 2, 3, 4, 8, 9, 12, 13}, qos : 0..2,
            retain : BOOLEAN, topic : {Text(1), Text(4)}, clientId : {Text(9)},
            payload : {Text(n) : n \in {1, 4, 5, 13}}] :
       c.type # Publish => c.qos = 0 /\ ~c.retain /\ c.payload = Text(1)}

Protos == {"modbus", "mqtt-tcp", "mqtt-ws"}
============================================================================
