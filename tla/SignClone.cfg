\* A client that clones; two transactions.
SPECIFICATION Spec
CONSTANTS
  Handles = {h1, h2}
  Objects = {1, 2, 3}
  nullptr = nullptr
  Contents = {c1, c2}
  Made <- MCMade
  Genesis <- MCGenesis
  Discipline = "clone"
  MaxTransactions = 2
  MaxInputs = 1
  MaxOutputs = 1
SYMMETRY Renamings
INVARIANTS
  SentValid
  OriginsValid
  IdsBeginChains
PROPERTIES
  TransactionsAreValues
