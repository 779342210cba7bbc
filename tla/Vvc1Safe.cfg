\* a buffer of fields and one of whole pictures go round, with resets
SPECIFICATION FairSpec
CONSTANTS
  b1 = b1
  b2 = b2
  s1 = s1
  s2 = s2
  s3 = s3
  NoBuffer = NoBuffer
  Scans <- MCScans
  Buffers = {b1, b2}
  Slots = {s1, s2, s3}
INVARIANTS
  TypeOK
  
  
  EachInOnePlace
  SlotForPicture

  
