------------------------------ MODULE MC_Views ------------------------------
\* Five hosts, three of them presets: a client, its PLC and a broker, which also talks to
\* itself, a publisher and a gateway.
EXTENDS Views, TLC

Frame(src, dst, proto, size, latency, isError, topic) ==
    [src |-> src, dst |-> dst, proto |-> proto, size |-> size, latency |-> latency,
     isError |-> isError, topic |-> topic, ts |-> 0]

MC_IpOrder == <<1, 2, 3, 4, 5>>
MC_PresetOrder == <<3, 1, 2>>
MC_Preset == 1 :> Device("HMI-01", "hmi", "WinCC") @@ 2 :> Device("PLC-A01", "plc", "S7-1500")
             @@ 3 :> Device("broker-01", "broker", "EMQX")

MC_StoredBefore == {NoOverrides, 2 :> ("label" :> "named")}

MC_Traffic ==
    {Frame(<<1, 40000>>, <<2, 502>>, "modbus", 12, 0, FALSE, <<>>),
     Frame(<<2, 502>>, <<1, 40000>>, "modbus", 9, 30, TRUE, <<>>),
     Frame(<<1, 40001>>, <<3, 1883>>, "mqtt-tcp", 20, 4, FALSE, <<"plant", "temp">>),
     Frame(<<3, 40003>>, <<3, 1883>>, "mqtt-tcp", 7, 1, FALSE, <<"plant">>),
     Frame(<<4, 40002>>, <<5, 8083>>, "mqtt-ws", 15, 8, FALSE, <<"plant", "flow">>)}
============================================================================
