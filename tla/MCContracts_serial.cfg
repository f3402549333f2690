SPECIFICATION ContractsSpec
CONSTANTS
  Mains = {m1}
  Contracts = {c1}
  Null = Null
  Amounts = {1, 2}
  Opening <- NotYet
  Files = {f1, f2}
  Sessions = {s1}
  Faults = FALSE
  MaxRows = 3
  MaxBalance = 4
SYMMETRY Symmetry
CONSTRAINT Bounded
INVARIANTS TotalExplained FilePresent HistoryCurrent
PROPERTY AmendmentKeepsHeld
