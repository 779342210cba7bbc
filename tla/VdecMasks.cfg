\* one instance is reset and released, however long that takes, beside another
CHECK_DEADLOCK FALSE
SPECIFICATION Spec
CONSTANTS
  v1 = v1
  v2 = v2
  v3 = v3
  NoVdec = NoVdec
  Cores = {"VDEC_1", "HEVC"}
  Needs <- MCNeeds
  Vdecs = {v1, v2}
  LateTimer = {}
  FlagsTimer = {v1}
  Resets = {v1}
  TimesOut = {v1}
INVARIANTS
  CoresOwned
