\* every decoder, and streams that stop before their device is removed;
\* vmpeg4, which is ready for it, meets pictures before its probe ends
SPECIFICATION FairSpec
CONSTANTS
  Decoders = {"vmpeg12", "vmpeg4", "vavs", "vh264", "vvc1"}
  Rates = {1, 2, 3}
  EsRates = {0, 1, 2}
  Early = {"vmpeg4"}
  Quiet = TRUE
INVARIANTS
  TypeOK
  

  
  
