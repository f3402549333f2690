SPECIFICATION LiveSpec
CONSTANTS
  Certs = {c1}
  Emps = {e1}
  EmpOf <- OneEmpOf
  Dzos = {d1}
  DzoOf <- OneDzoOf
  Hrs = {h1}
  HrDzo <- OneHrDzo
  Linked = {e1}
  Renewals = {r1}
  Jobs = {k1}
  Sessions = {s1}
  MaxAttempts = 2
  ProviderMayFail = TRUE
  MaxCrashes = 1
  Null = Null
INVARIANTS TypeOK SentMeansMailed RecordedOncePerJob FiledIsStored
PROPERTY EveryExpiryAnnounced
CHECK_DEADLOCK FALSE
