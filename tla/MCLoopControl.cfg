\* One loop with binary signals, a two-message actuation queue.
CONSTANTS
  Gain = 1
  IGain = 1
  DGain = 0
  Deadband = 0
  RecoveryGain = 1
  ArwLo = 0
  ArwHi = 1
  DirectActing = FALSE
  SpRateUp = 0
  SpRateDn = 0
  Signals <- MCSignals
  PvValues <- MCPvValues
  OutLo = 0
  OutHis <- MCOutHis
  ShedOpt = "MAN"
  PermittedModes <- MCPermitted
  SpPvTrackInMan = FALSE
  SpPvTrackInLoOrIman = FALSE
  IncreaseToClose = FALSE
  PvBadOffered = {FALSE}
  BkValues <- MCBkValues
  BkStatusesOffered = {"GOOD"}
  BkLimitsOffered = {"NONE"}
  RemoteKeys = {}
  CtrlCap = 2
  TelemCap = 1
  ReconCap = 1
  FieldSp = 1
SPECIFICATION ShedSpec
INVARIANTS LoopTypeOK
PROPERTIES SupervisoryBacklogShrinks
