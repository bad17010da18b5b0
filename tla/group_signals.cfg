SPECIFICATION Spec
CONSTANTS
  u1 = u1  u2 = u2  NoUser = NoUser  InitProc = InitProc
  p1 = p1  p3 = p3  p4 = p4
  secret_file = secret_file
  Users = {u1, u2}
  Pids = {p1, p3, p4}
  Jobs = {p1, p3}
  Strangers = {}
  User <- MCUser
  Leader = p1
  Privileged = {u1}
  Files = {secret_file}
  FileStat <- SecretStat
CONSTRAINT GroupBound
CHECK_DEADLOCK FALSE
INVARIANTS TypeOK KnowledgeCovered OwnerKeepsAccess
PROPERTIES StopsOnlyForStrangers
