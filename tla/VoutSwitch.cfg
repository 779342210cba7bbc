\* both vouts switch modes over a shared HDMI transmitter while a decoder gives
\* hints on the first; no driver leaves
SPECIFICATION Spec
CONSTANTS
  NULL = NULL
  hdmi1 = hdmi1
  hdmi2 = hdmi2
  cvbs1 = cvbs1
  imposter = imposter
  hdmi = hdmi
  cvbs = cvbs
  rx1 = rx1
  ctl1 = ctl1
  ctl2 = ctl2
  any = any
  Vouts = {1, 2}
  Devices = {hdmi, cvbs}
  Modes = {"hdmi", "cvbs"}
  Policies = {1}
  VoutOf <- MCVoutOf
  DeviceOf <- MCDeviceOf
  NameOf <- MCNameOf
  Supports <- MCSupports
  HasDev <- MCHasDev
  Calls <- MCCalls
  CallVouts <- MCCallVouts
  Rates = {"r24", "r60"}
  Servers = {hdmi1, hdmi2, cvbs1}
  Callers = {rx1, ctl1, ctl2}
  Booted = {hdmi1, hdmi2, cvbs1}
  BootCurr <- HdmiCurr
  MaxUnbind = 0
INVARIANTS
  TypeOK
  
  
  
  BroadcastAgrees
PROPERTIES
  PictureOwned
