SPECIFICATION Spec
CONSTANTS
  Events = {x1}
  Emps = {"e1", "e2", "e3"}
  Clients = {"c1"}
  ClientOf <- OneClientOf
  Hosts = {h1, h2}
  Seats = {1, 2}
  Rosters <- AnyRoster
  Sessions = {s1}
  Null = Null
SYMMETRY Symmetry
PROPERTIES PlacesChecked AttendanceAfterEvent
CHECK_DEADLOCK FALSE
