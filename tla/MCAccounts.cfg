SPECIFICATION Spec
CONSTANTS
  Ids = {k1, k2}
  Emails = {a1, a2}
  Roles = {"EMP", "ADM"}
  Imports <- OneOrBoth
  Patches <- SomePatches
  Sessions = {s1, s2}
  Null = Null
  MaxCalls = 4
SYMMETRY Symmetry
INVARIANTS TypeOK EmailAgrees NoOrphanAccount 
PROPERTY BlockedStaysOut
CHECK_DEADLOCK FALSE
