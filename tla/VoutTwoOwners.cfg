\* two vouts validate a mode of the shared transmitter, then both set it
SPECIFICATION Spec
CONSTANTS
  NULL = NULL
  hdmi1 = hdmi1
  hdmi2 = hdmi2
  cvbs1 = cvbs1
  imposter = imposter
  hdmi = hdmi
  cvbs = cvbs
  rx1 = rx1
  ctl1 = ctl1
  ctl2 = ctl2
  any = any
  Vouts = {1, 2}
  Devices = {hdmi, cvbs}
  Modes = {"hdmi", "cvbs"}
  Policies = {1}
  VoutOf <- MCVoutOf
  DeviceOf <- MCDeviceOf
  NameOf <- MCNameOf
  Supports <- MCSupports
  HasDev <- MCHasDev
  Calls <- MCCalls
  CallVouts <- MCCallVouts
  Rates = {"r24"}
  Servers = {hdmi1, hdmi2, cvbs1}
  Callers = {ctl1, ctl2}
  Booted = {hdmi1, hdmi2, cvbs1}
  BootCurr <- CvbsCurr
  MaxUnbind = 0
INVARIANT
  DeviceExclusive
