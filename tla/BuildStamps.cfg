\* failures of everything that leaves nothing half done
SPECIFICATION FairSpec
CONSTANTS
  MayFail = {".stamp.config", "Image.gz", "dhd.ko", "tree", "kernel.img"}
  Goals = {"deploy", "bootfiles", "menuconfig", "getconfig", "clean", "touch"}
  Careful = TRUE
  WifiSdio = TRUE
  MaxEdits = 2
INVARIANTS
  TypeOK
  
  DeployedIsFresh
PROPERTIES
  ConfiguredForCause
  TryAgain
