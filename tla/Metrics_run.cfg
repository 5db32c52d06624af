\* One Modbus and one MQTT flow, three frames, two samples in the aggregator.
CONSTANTS
    Flows = {m1, q1}
    ModbusFlows = {m1}
    RateWindow = 1
    ErrorWindow = 2
    SamplesWindow = 1
    FlowIdle = 1
    MaxSamples = 2
    Num = 1
    Den = 2
    MaxLag = 2
    MaxFrames = 3
    MaxTime = 3
SPECIFICATION Spec
INVARIANTS PercentileFinds PopFinds ReadsAreWindowed FlowTablesAgree ExportedOnce
CHECK_DEADLOCK FALSE
