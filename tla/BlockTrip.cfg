\* Blocks of every kind and at every limit, built by any of the setters in any
\* order, sent whole and forwarded.
SPECIFICATION FairBlockSpec
CONSTANTS
  Radix = 17
  HashLen = 2
  Junk = {0, 13}
  nullptr = nullptr
  Lossy = FALSE
  Outputs <- NoOutputs
  ForeignStreams <- NoStreams
  Wanted <- Outgoing
INVARIANTS
  BlockTypeOK
  RoundTrip
  BlockEqualIffFits
