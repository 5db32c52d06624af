\* Two packets one after the other; the limits of the inspector shrunk to a few bytes.
CONSTANTS
    EnabledProtos <- Protos
    ModbusChoices <- MC_ModbusChoices
    MqttChoices <- MC_MqttChoices
    FirstTxid = 65535
    FirstPktId = 65535
    MaxSynthesized = 2
    PreviewLimit = 2
    PayloadLimit = 8
    RawLimit = 16
    HexRow = 4
    WordLimit = 4
SPECIFICATION Spec
INVARIANTS DemoMatchesLive FieldsTile PayloadShown DumpIsFaithful
CHECK_DEADLOCK FALSE
