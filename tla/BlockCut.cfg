\* Blocks cut at every byte.
SPECIFICATION FairBlockSpec
CONSTANTS
  Radix = 17
  HashLen = 2
  Junk = {0, 13}
  nullptr = nullptr
  Lossy = TRUE
  Outputs <- NoOutputs
  ForeignStreams <- NoStreams
  Wanted <- Typical
INVARIANTS
  CutBlockDiffers
  CutBlockIsRead
  CutNonceZero
PROPERTIES
  BlockTermination
