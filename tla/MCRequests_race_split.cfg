SPECIFICATION Spec
CONSTANTS
  Mains = {m1}
  Dzos = {"d1", "d2"}
  Emps = {"e1", "e2"}
  DzoOf <- PairDzoOf
  HrOf <- OneHrOf
  Admins = {"adm"}
  SuperAdmins = {}
  Events = {x1}
  ContractOf <- OneContract
  Contracts = {c1}
  Opening <- Three
  Costs = {}
  Sessions = {s1, s2}
  Null = Null
  MaxRounds = 1
  MaxRows = 1
SYMMETRY Symmetry
INVARIANT ChildrenStayInDzo
PROPERTIES NeverReopened SplitCovers
CHECK_DEADLOCK FALSE
