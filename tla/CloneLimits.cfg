\* Lists and arrays at and past the limit of their size prefix, in a byte of 17 values,
\* and identifiers of a length they are not read with.
SPECIFICATION FairSpec
CONSTANTS
  Radix = 17
  HashLen = 2
  Junk = {0, 13}
  nullptr = nullptr
  Lossy = FALSE
  Outputs <- Odd
  ForeignStreams <- NoStreams
  Wide = 4096
  Prices <- NodePrices
INVARIANTS
  TypeOK
  CloneEqualIffFits
  DepositExactIfFits
