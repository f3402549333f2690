SPECIFICATION Spec
CONSTANTS
  Events = {x1}
  Emps = {"e1", "e2"}
  Clients = {"c1"}
  ClientOf <- OneClientOf
  Hosts = {h1}
  Seats = {1}
  Rosters = {{}}
  Sessions = {s1, s2}
  Null = Null
SYMMETRY Symmetry
PROPERTY RegistrationFits
CHECK_DEADLOCK FALSE
