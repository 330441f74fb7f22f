\* Frames whose PV is BAD.
CONSTANTS
  Gain = 1
  IGain = 1
  DGain = 0
  Deadband = 0
  RecoveryGain = 2
  ArwLo = 0
  ArwHi = 2
  DirectActing = FALSE
  SpRateUp = 1
  SpRateDn = 0
  Signals <- MCSignals
  PvValues <- MCPvValues
  OutLo = 0
  OutHis <- MCOutHis
  ShedOpt = "AUTO"
  PermittedModes <- MCPermitted
  SpPvTrackInMan = TRUE
  SpPvTrackInLoOrIman = TRUE
  IncreaseToClose = FALSE
  PvBadOffered = {TRUE, FALSE}
  BkValues <- MCBkValues
  BkStatusesOffered = {"GOOD"}
  BkLimitsOffered = {"NONE"}
  RemoteKeys = {}
SPECIFICATION DdcSpec
PROPERTIES BadPvForcesManual
