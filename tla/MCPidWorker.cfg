\* One loop, three signal levels, a cascade-capable block.
CONSTANTS
  Gain = 1
  IGain = 1
  DGain = 0
  Deadband = 0
  RecoveryGain = 2
  ArwLo = 0
  ArwHi = 2
  DirectActing = FALSE
  SpRateUp = 1
  SpRateDn = 0
  Signals <- MCSignals
  PvValues <- MCPvValues
  OutLo = 0
  OutHis <- MCOutHis
  ShedOpt = "AUTO"
  PermittedModes <- MCPermitted
  SpPvTrackInMan = TRUE
  SpPvTrackInLoOrIman = TRUE
  IncreaseToClose = FALSE
  PvBadOffered = {FALSE}
  BkValues <- MCBkValues
  BkStatusesOffered = {"BAD", "IR", "GOOD_CASCADE"}
  BkLimitsOffered = {"NONE"}
  RemoteKeys = {"rout_in"}
SPECIFICATION WorkerSpec
INVARIANTS TypeOK EngineMatchesOutput
PROPERTIES OutputWithinLimits ManualOutputIsOperators OperatorSetpointSurvives
