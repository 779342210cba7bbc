\* one restart, transfers that fail, numbers that wrap, a stop between two reads
SPECIFICATION FairSpec
CONSTANTS
  SDPCM_SEQUENCE_WRAP = 6
  InitMax = 2
  Unlikely = 2
  DongleBufs = 2
  GlomSize = 1
  FCHI = 1
  FCLOW = 1
  QLEN = 1
  RxBound = 2
  IdleTime = 1
  SlowStack = FALSE
  Faults = TRUE
  MaxStops = 1
INVARIANTS
  TypeOK
  NoOverrun
  InSequence
  
  BufferHasOwner
PROPERTIES
  QueueMoves
  ControlIsSent
  
