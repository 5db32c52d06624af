------------------------------ MODULE HostMap ------------------------------
(***************************************************************************)
(* The hosts of the connection graph (frontend/graph.jsx): the map of      *)
(* devices built from the packets, the demo presets and the labels the     *)
(* user edits, and the edits themselves.  An endpoint is an <<ip, port>>;  *)
(* a device is what the map keeps of an ip, a set of overrides is a        *)
(* function from ips to functions from edited fields to values.            *)
(***************************************************************************)
EXTENDS Lists, SequencesExt

CONSTANTS IpOrder,      \* the ips, in the order of localeCompare
          PresetOrder,  \* the ips of PRESET_DEVICES, in the order of the list
          Preset        \* ip -> device, for those

Ips == ToSet(IpOrder)

ASSUME HostAssumption == /\ IpOrder \in Seq(Ips) /\ IsInjective(IpOrder)
                         /\ PresetOrder \in Seq(Ips) /\ IsInjective(PresetOrder)
                         /\ DOMAIN Preset = ToSet(PresetOrder)

IpOf(endpoint) == endpoint[1]
PortOf(endpoint) == endpoint[2]

KnownPorts == {502, 1883, 8083}

InferRole(port) ==
    CASE port = 502 -> "plc" [] port = 1883 -> "broker"
      [] port = 8083 -> "gateway" [] OTHER -> "edge"

Groups == {"plcs", "control", "brokers", "edge", "sensors"}

GroupForRole(role) ==
    CASE role = "plc" -> "plcs" [] role \in {"hmi", "scada"} -> "control"
      [] role \in {"broker", "gateway"} -> "brokers" [] role = "sensor" -> "sensors"
      [] OTHER -> "edge"

\* The label of an ip nobody named: "host-" and its last part.
LabelFromIp == "host"

Device(label, role, detail) ==
    [label |-> label, role |-> role, group |-> GroupForRole(role), detail |-> detail]

\* Every preset has its lane.
ASSUME PresetAssumption == \A ip \in DOMAIN Preset : Preset[ip].group \in Groups

Hosts(packets) == {IpOf(p.src) : p \in ToSet(packets)} \cup {IpOf(p.dst) : p \in ToSet(packets)}

\* The first known destination port among the packets of an ip, which counts for both
\* ends of a packet; 0 without one.
FirstKnownPort(packets, ip) ==
    LET known == Filter(packets, LAMBDA p : /\ ip \in {IpOf(p.src), IpOf(p.dst)}
                                               /\ PortOf(p.dst) \in KnownPorts)
    IN  IF known = <<>> THEN 0 ELSE PortOf(Head(known).dst)

\* The edited fields win over what was found, and the group follows the role.
Overridden(device, ov) ==
    Device(IF "label" \in DOMAIN ov THEN ov["label"] ELSE device.label,
           IF "role" \in DOMAIN ov THEN ov["role"] ELSE device.role,
           IF "detail" \in DOMAIN ov THEN ov["detail"] ELSE device.detail)

\* A preset, a device inferred from traffic, or one that only has overrides.
BuildDeviceMap(packets, overrides, includePresets) ==
    LET presets == IF includePresets THEN DOMAIN Preset ELSE {}
        base(ip) ==
            IF ip \in presets THEN Preset[ip]
            ELSE IF ip \in Hosts(packets)
            THEN Device(LabelFromIp, InferRole(FirstKnownPort(packets, ip)), "auto")
            ELSE Device(LabelFromIp, "edge", "")
    IN  [ip \in presets \cup Hosts(packets) \cup DOMAIN overrides |->
            IF ip \in DOMAIN overrides THEN Overridden(base(ip), overrides[ip]) ELSE base(ip)]

\* The ips of the map in the order the views list them.
DevicesFromMap(devMap, includePresets) ==
    LET mapped(ips) == Filter(ips, LAMBDA ip : ip \in DOMAIN devMap)
    IN  IF includePresets
        THEN mapped(PresetOrder) \o Filter(mapped(IpOrder), LAMBDA ip : ip \notin DOMAIN Preset)
        ELSE mapped(IpOrder)

\* A mutant of EndpointKey: only how many there are is looked at.
EndpointKey_Count(packets) ==
    Cardinality({p.src : p \in ToSet(packets)} \cup {p.dst : p \in ToSet(packets)})

\* The endpoints whose change rebuilds the map.
EndpointKey(packets) == {p.src : p \in ToSet(packets)} \cup {p.dst : p \in ToSet(packets)}

---------------------------------------------------------------------------
(* HostsModal *)

Without(f, x) == [y \in DOMAIN f \ {x} |-> f[y]]
With(f, x, v) == [y \in DOMAIN f \cup {x} |-> IF y = x THEN v ELSE f[y]]
NoFields == [field \in {} |-> {}]

\* A mutant of UpdateField: an ip whose last field is emptied keeps its entry.
UpdateField_KeepsEmpty(overrides, ip, field, value) ==
    LET cur == IF ip \in DOMAIN overrides THEN overrides[ip] ELSE NoFields
    IN  With(overrides, ip, IF value = "" THEN Without(cur, field) ELSE With(cur, field, value))

\* An empty value removes the field, the last field removes the ip.
UpdateField(overrides, ip, field, value) ==
    LET cur == IF ip \in DOMAIN overrides THEN overrides[ip] ELSE NoFields
        edited == IF value = "" THEN Without(cur, field) ELSE With(cur, field, value)
    IN  IF DOMAIN edited = {} THEN Without(overrides, ip) ELSE With(overrides, ip, edited)

\* The packets of an ip, where one between two ports of the same ip counts twice.
PacketCount(packets, ip) ==
    Len(Filter(packets, LAMBDA p : IpOf(p.src) = ip))
      + Len(Filter(packets, LAMBDA p : IpOf(p.dst) = ip))

\* The rows of the table: all known hosts, or those with packets in the buffer.
Listed(packets, devMap, includePresets, showInactive) ==
    Filter(DevicesFromMap(devMap, includePresets),
              LAMBDA ip : showInactive \/ PacketCount(packets, ip) > 0)
============================================================================
