\* The block of tests/serialization.cpp, at the widths of the program.
SPECIFICATION FairBlockSpec
CONSTANTS
  Radix = 256
  HashLen = 32
  Junk = {0, 238}
  nullptr = nullptr
  Lossy = TRUE
  Outputs <- NoOutputs
  ForeignStreams <- NoStreams
  Wanted <- TestBlocks
INVARIANTS
  TestVector
  CutBlockDiffers
