\* patches that do not apply
SPECIFICATION FairSpec
CONSTANTS
  MayFail = {".stamp.patch"}
  Goals = {"deploy"}
  WifiSdio = FALSE
  Careful = TRUE
  MaxEdits = 0
PROPERTY
  TryAgain
