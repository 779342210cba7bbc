\* drivers come and go under every call; an oops stops the machine
CHECK_DEADLOCK FALSE
SPECIFICATION Spec
CONSTANTS
  NULL = NULL
  hdmi1 = hdmi1
  hdmi2 = hdmi2
  cvbs1 = cvbs1
  imposter = imposter
  hdmi = hdmi
  cvbs = cvbs
  rx1 = rx1
  ctl1 = ctl1
  ctl2 = ctl2
  any = any
  Vouts = {1, 2}
  Devices = {hdmi, cvbs}
  Modes = {"hdmi", "cvbs"}
  Policies = {1}
  VoutOf <- MCVoutOf
  DeviceOf <- MCDeviceOf
  NameOf <- MCNameOf
  Supports <- MCSupports
  HasDev <- MCHasDev
  Calls <- MCCalls
  CallVouts <- MCCallVouts
  Rates = {"r24"}
  Servers = {hdmi1, cvbs1, imposter}
  Callers = {any, rx1}
  Booted = {hdmi1}
  BootCurr <- HdmiCurr
  MaxUnbind = 2
INVARIANTS
  CurrRegistered
