SPECIFICATION Spec
CONSTANTS
  Events = {x1}
  Emps = {"e1", "e2"}
  Clients = {"c1", "c2"}
  ClientOf <- TwoClientsOf
  Hosts = {h1}
  Seats = {1}
  Rosters <- AnyRoster
  Sessions = {s1, s2}
  Null = Null
SYMMETRY Symmetry
INVARIANTS TypeOK ParticipantsOfCompany MarkedRowsStay
CHECK_DEADLOCK FALSE
