\* A client that goes on with the outputs it gave; two transactions.
SPECIFICATION Spec
CONSTANTS
  Handles = {h1, h2}
  Objects = {1, 2}
  nullptr = nullptr
  Contents = {c1, c2}
  Made <- MCMade
  Genesis <- MCGenesis
  Discipline = "share"
  MaxTransactions = 2
  MaxInputs = 1
  MaxOutputs = 2
SYMMETRY Renamings
INVARIANTS
  SentValid
  OriginsValid
  IdsBeginChains
PROPERTIES
  SignedFrozen
