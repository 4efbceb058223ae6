\* Streams cut at every byte, and streams of a newer program.
SPECIFICATION FairSpec
CONSTANTS
  Radix = 17
  HashLen = 2
  Junk = {0, 13}
  nullptr = nullptr
  Lossy = TRUE
  Outputs <- Typical
  ForeignStreams <- Newer
  Wide = 4096
  Prices <- NodePrices
INVARIANTS
  CutNumbersWholeOrZero
  CutGivesObject
  PsetsOrdered
  ReceivedClones
PROPERTIES
  Termination
