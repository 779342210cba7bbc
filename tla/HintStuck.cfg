\* pictures may come while the device is removed
SPECIFICATION Spec
CONSTANTS
  Decoders = {"vavs"}
  Rates = {1, 2, 3}
  EsRates = {0, 1, 2}
  Early = {}
  Quiet = FALSE
INVARIANT
  SilentWhenOff
