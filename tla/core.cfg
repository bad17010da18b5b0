SPECIFICATION Spec
CONSTANTS
  u1 = u1  u2 = u2  NoUser = NoUser  InitProc = InitProc
  sh1 = sh1  sh2 = sh2  p1 = p1  p2 = p2  p3 = p3
  private = private  shared = shared  made = made
  Users = {u1, u2}
  Pids = {sh1, sh2, p1, p2}
  Shells = {sh1, sh2}
  ShellUser <- MCShellUser
  Files = {private, made}
  NewFiles = {made}
  FileStat <- MCFileStat
  Privileged = {u1, u2}
  Faults = {"fork_fails"}
SYMMETRY PidSymmetry
CONSTRAINT CoreBound
CHECK_DEADLOCK FALSE
INVARIANTS TypeOK FlowInv Confidentiality Integrity OwnerKeepsAccess
PROPERTIES LabelsOnlyRise
