SPECIFICATION FairSpec
CONSTANTS
  u1 = u1  u2 = u2  NoUser = NoUser  InitProc = InitProc
  sh1 = sh1  sh2 = sh2  p1 = p1  p2 = p2  p3 = p3
  private = private  shared = shared  made = made
  Users = {u1}
  Pids = {sh1, p1, p2, p3}
  Shells = {sh1}
  ShellUser <- OneShellUser
  Files = {}
  NewFiles = {}
  FileStat <- MCFileStat
  Privileged = {}
  Faults = {"fork_fails", "fork_overlap"}
CONSTRAINTS ShellsSignal OneFails
CHECK_DEADLOCK FALSE
PROPERTIES ForkReturns
