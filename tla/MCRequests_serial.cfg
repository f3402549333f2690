SPECIFICATION Spec
CONSTANTS
  Mains = {m1}
  Dzos = {"d1", "d2"}
  Emps = {"e1", "e2"}
  DzoOf <- PairDzoOf
  HrOf <- OneHrOf
  Admins = {"adm"}
  SuperAdmins = {}
  Events = {x1}
  ContractOf <- OneContract
  Contracts = {c1}
  Opening <- Three
  Costs = {1}
  Sessions = {s1}
  Null = Null
  MaxRounds = 2
  MaxRows = 3
SYMMETRY Symmetry
INVARIANTS ArchiveNeverCharged ApprovedHasEmployees ReturnOnce CancelledIsFinal
PROPERTY ParentFollowsChildren
CHECK_DEADLOCK FALSE
