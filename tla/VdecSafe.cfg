\* an h265 and an h264 instance, opened and released; it ends with both freed,
\* even on hardware that dies
CHECK_DEADLOCK FALSE
SPECIFICATION FairSpec
CONSTANTS
  v1 = v1
  v2 = v2
  v3 = v3
  NoVdec = NoVdec
  Cores = {"VDEC_1", "HEVC"}
  Needs <- MCNeeds
  Vdecs = {v1, v2}
  LateTimer = {}
  FlagsTimer = {v1}
  Resets = {}
  TimesOut = {}
INVARIANTS
  TypeOK
  CoresOwned
  DecodesOnGranted
  ListedStatus
  DisconnectedIsQuiet
  FreedIsStopped
PROPERTIES
  ComesBack
  ReleaseEnds
  NotStarved
