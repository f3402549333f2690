SPECIFICATION Spec
CONSTANTS
  Courses = {c1}
  Emps = {e1, e2}
  Ids = {r1, r2, r3, r4}
  Sessions = {s1, s2}
  Null = Null
SYMMETRY Symmetry
INVARIANTS TypeOK OneRowPerOverlap CompletedHasDate
CHECK_DEADLOCK FALSE
