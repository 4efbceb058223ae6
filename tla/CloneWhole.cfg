\* Every class with bytes of 256 values, delivered whole.
SPECIFICATION FairSpec
CONSTANTS
  Radix = 256
  HashLen = 4
  Junk = {0, 238}
  nullptr = nullptr
  Lossy = FALSE
  Outputs <- Typical
  ForeignStreams <- NoStreams
  Wide = 4096
  Prices <- NodePrices
INVARIANTS
  WholeStreamConsumed
PROPERTIES
  ImplementsClone
