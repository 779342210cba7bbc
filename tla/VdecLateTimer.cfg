\* one mpeg12 instance: its work stops the timer of the next run
CHECK_DEADLOCK FALSE
SPECIFICATION FairSpec
CONSTANTS
  v1 = v1
  v2 = v2
  v3 = v3
  NoVdec = NoVdec
  Cores = {"VDEC_1", "HEVC"}
  Needs <- MCNeeds
  Vdecs = {v1}
  LateTimer = {v1}
  FlagsTimer = {}
  Resets = {}
  TimesOut = {}
PROPERTIES
  ComesBack
