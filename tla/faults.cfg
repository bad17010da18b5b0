SPECIFICATION Spec
CONSTANTS
  u1 = u1  u2 = u2  NoUser = NoUser  InitProc = InitProc
  sh1 = sh1  sh2 = sh2  p1 = p1  p2 = p2  p3 = p3
  private = private  shared = shared  made = made
  Users = {u1, u2}
  Pids = {sh1, p1, p2}
  Shells = {sh1}
  ShellUser <- OneShellUser
  Files = {private}
  NewFiles = {}
  FileStat <- MCFileStat
  Privileged = {}
  Faults = {"fork_fails", "pid_reuse", "fork_overlap"}
SYMMETRY PidSymmetry
CHECK_DEADLOCK FALSE
PROPERTIES LabelsOnlyRise StopsOnlyForUnregistered
