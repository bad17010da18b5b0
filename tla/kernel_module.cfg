SPECIFICATION Spec
CONSTANTS
  u1 = u1  u2 = u2  NoUser = NoUser
  p1 = p1  p2 = p2  p3 = p3  p4 = p4  f1 = f1  f2 = f2
  Users = {u1, u2}
  Pids = {p1, p2, p3, p4}
  Files = {f1, f2}
  FileStat <- MCFileStat
  Started = {p1}
  User <- MCUser
  Garbage <- MCGarbage
CONSTRAINT KernelBound
SYMMETRY PidSymmetry
CHECK_DEADLOCK FALSE
INVARIANTS TypeOK LeaksAreWarned
PROPERTIES RowsOnlyRise
