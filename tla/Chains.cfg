\* Chains of up to three outputs, two pointers.
SPECIFICATION Spec
CONSTANTS
  Handles = {h1, h2}
  nullptr = nullptr
  Address = {a1, a2}
  Feature = {f1}
  Token = {t1}
  Serial = {1}
  Ids <- MCIds
  ZeroId = 0
  HashOf <- MCHash
  Made <- MCMade
  MaxOutputs = 3
SYMMETRY Pointers
INVARIANTS
  TypeOK
  IdIsHashOfCreator
  FoundryIdKept
  SuccessorCarries
