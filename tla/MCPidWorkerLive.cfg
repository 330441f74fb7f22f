\* Liveness: one loop whose valve closes on increase, ramp one unit a scan up.
CONSTANTS
  Gain = 1
  IGain = 1
  DGain = 0
  Deadband = 0
  RecoveryGain = 2
  ArwLo = 0
  ArwHi = 2
  DirectActing = FALSE
  SpRateUp = 1
  SpRateDn = 0
  Signals <- MCSignals
  PvValues <- MCPvValues
  OutLo = 0
  OutHis <- MCOutHisLive
  ShedOpt = "MAN"
  PermittedModes <- MCPermittedLive
  SpPvTrackInMan = FALSE
  SpPvTrackInLoOrIman = FALSE
  IncreaseToClose = TRUE
  PvBadOffered = {FALSE}
  BkValues <- MCBkValues
  BkStatusesOffered = {"GOOD", "BAD"}
  BkLimitsOffered = {"NONE"}
  RemoteKeys = {}
SPECIFICATION WorkerFairSpec
PROPERTIES
  ShedTakesEffect CascadeBreakIsTaken RampArrives StandingErrorReachesLimit
