CONSTANTS
    IpOrder <- MC_IpOrder
    PresetOrder <- MC_PresetOrder
    Preset <- MC_Preset
    Traffic <- MC_Traffic
    MessageLimit = 2
    SlotLimit = 7
    Width = 900
    Height = 576
    Unit = 120
    CdfPoints = 1
    TalkerLimit = 3
    MaxPackets = 3
    StoredBefore <- MC_StoredBefore
    MaxArrivals = 4
    MaxClicks = 2
    MaxSteps = 4
SPECIFICATION Spec
INVARIANTS GraphIsComplete ViewsAgree OverridesWin DrawnApartInside
           StatsAreQuantiles FlowsAddUp SheetKeepsTable
CHECK_DEADLOCK FALSE
