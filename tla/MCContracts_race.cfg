SPECIFICATION ContractsSpec
CONSTANTS
  Mains = {m1}
  Contracts = {c1}
  Null = Null
  Amounts = {1}
  Opening <- NotYet
  Files = {f1}
  Sessions = {s1, s2}
  Faults = TRUE
  MaxRows = 2
  MaxBalance = 2
SYMMETRY Symmetry
CONSTRAINT Bounded
INVARIANTS ContractsTypeOK NoOverdraft
