\* Two accounts, alarms, proposals, loops and writes: the second actor, loop or
\* answer that each page's hazard needs.
CONSTANTS
    Accts = {1, 2}
    Browsers = {"north"}
    MaxCalls = 2
    MaxAlarms = 2
    MaxFrames = 1
    MaxPersists = 2
    ChainLength = 3
    Levels = {1, 2}
    MaxRows = 3
    Tabs = {"left", "right"}
    MaxRecs = 2
    TrendLoops = {1, 2}
    Windows = {4, 8}
    MaxPoints = 4
    PxWidth = 3
    RingStep = 2
    LastFrame = 11
    Signals <- MCSignals
    CellSlots = 2
    CellLoops = {1, 2, 3}
    FramedLoops = {1, 2, 3}
    Framings = {0, 1, 2, 3}
    MaxGains = 2
    MaxLoops = 2
    PanelLoops = {1, 2}
    MaxOut = 1
    SimLoops = {1, 2}
    WriteSlots = {1, 2}
    MaxWrites = 2
    Projects = {1, 2}
    MaxRequests = 2
    Endpoints = {1, 2}
    Configured = 1
    MaxSaves = 2
    TagNodes = {1, 2, 3}
    TagVariables = {3}
    TagParent <- MCTagParent
    MaxTrail = 2
    ThemeUsers = {1, 2}
    Themes = {1, 2}
    Stations = {"desk"}
    MaxPicks = 2
    PrefValues = {1, 2}
    LogLevels = {1}
    MaxApplies = 2
    LogRows = {1, 2, 3, 4}
    Histories <- MCHistories
    LogLimit = 2
    ExportRequests = {1, 2}
    MaxJobs = 2
    Percents = {1, 5, 11}
    IntegralLimits = {1, 2}
    Charts = {1, 2}
    MaxSamples = 3
    PlotFrames = 3
SPECIFICATION HmiSpec
VIEW PageView
INVARIANTS
    HmiTypeOK
    EventIsReconciled
    StoredIsSound
    RowCountsItsSockets
    WrittenAtMostOnce
    WindowIsHonest
    CellsAreSeeded
    DcsGainsAreOrdered
    SettledPageIsTrue
    PlantFollowsItsProject
    DraftsStayWithTheirLoop
PROPERTIES
    RevocationIsImmediate
    OnlyARaceRemovesTheLastAdmin
    LogIsAlarmMachine
    HistoryIsImmobile
\* The bounds on calls, rows, proposals and time end a page's behaviours.
CHECK_DEADLOCK FALSE
