SPECIFICATION Spec
CONSTANTS
  Mains = {m1}
  Dzos = {"d1"}
  Emps = {}
  DzoOf <- OneDzoOf
  HrOf <- OneHrOf
  Admins = {"adm"}
  SuperAdmins = {}
  Events = {x1}
  ContractOf <- OneContract
  Contracts = {c1}
  Opening <- Three
  Costs = {1, 2}
  Sessions = {s1, s2}
  Null = Null
  MaxRounds = 1
  MaxRows = 3
SYMMETRY Symmetry
INVARIANTS TypeOK NoOverdraft ReturnsFollow LedgerBalanced
PROPERTY BudgetSpec
CHECK_DEADLOCK FALSE
