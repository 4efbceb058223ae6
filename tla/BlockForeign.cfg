\* Blocks of another program, read and forwarded.
SPECIFICATION FairBlockSpec
CONSTANTS
  Radix = 17
  HashLen = 2
  Junk = {0, 13}
  nullptr = nullptr
  Lossy = FALSE
  Outputs <- NoOutputs
  ForeignStreams <- ForeignBlocks
  Wanted <- Relayed
INVARIANTS
  RoundTrip
  UnknownPayloadShifts
  UnknownKindCrashes
