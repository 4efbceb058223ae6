\* A transaction whose essence carries a payload.
SPECIFICATION FairBlockSpec
CONSTANTS
  Radix = 17
  HashLen = 2
  Junk = {0, 13}
  nullptr = nullptr
  Lossy = FALSE
  Outputs <- NoOutputs
  ForeignStreams <- NoStreams
  Wanted <- WithMessage
INVARIANTS
  EssencePayloadRoundTrip
