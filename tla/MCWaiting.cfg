SPECIFICATION LiveSpec
CONSTANTS
  Requests = {"m1"}
  Subs <- OneSub
  Contracts = {"k1"}
  ContractOf <- OneContract
  Events = {"x1"}
  Roster <- TwoGuests
  People = {"p1"}
  Sessions = {s1, s2, s3}
  Watched = {s1}
  Pool = 3
  Null = Null
INVARIANTS TypeOK DeadlockNeedsUnordered
PROPERTY EveryCallEnds
CHECK_DEADLOCK FALSE
