\* One tool makes both; only one side is subcontracted.
SPECIFICATION PlanningSpec
CONSTANTS
    Twins <- MCTwins
    Solos = {3, 4}
    Horizon = 4
    Slots <- MCSlots
    Quantities = {1, 5}
    MaxOrders = 4
    Supplies <- MCSupplies
    Holidays = {1}
    Eco <- MCEco
    Lead <- MCLead
    Margin <- MCMargin
    Window <- MCWindow
    Campaign <- MCCampaign
    Priority <- MCPriority
    Minutes <- MCMinutes
    Tool <- MCTool
    Family <- MCFamily
    PairGap = 2
    Anticipation = 1
    MaxGap = 2
    MaxSpan = 3
    MaxRunMinutes = 6
    DayCap = 6
    SetupMinutes <- MCSetupMinutes
    Machines = {1, 2}
    Primary <- MCPrimary
    Alternative <- MCAlternative
    Nowhere = 0
    Group <- MCGroup
    ShiftMinutes = 3
    MachineBlocked <- MCMachineBlocked
    ToolBlocked <- MCToolBlocked
    MachineStops <- MCMachineStops
    ToolStops <- MCToolStops
    EarlyDays = 1
    CampaignWindow = 1
    SwapTolerance = 1
    Plans <- MCPlans
    NoPlan = NoPlan
    Tolerance = 2
    MaxEvaluations = 4
    Modes = {"quick", "normal", "large"}
    Budget = 2
CHECK_DEADLOCK FALSE
INVARIANT ControllingEventConsumed
