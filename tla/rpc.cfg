SPECIFICATION FairSpec
CONSTANTS
  u1 = u1  u2 = u2  NoUser = NoUser  InitProc = InitProc
  p1 = p1  p2 = p2  c1 = c1  c2 = c2
  private = private
  Users = {u1, u2}
  Pids = {p1, p2}
  Files = {private}
  FileStat <- RpcFileStat
  Clients = {c1, c2}
  Shells = {}
  PidOf <- OwnPids
  UserMaps <- OneOrTwoUsers
  Mortal = {c1}
CHECK_DEADLOCK FALSE
INVARIANTS TypeOK AnswersMatch ResultIsCurrent IdsHaveRows
PROPERTIES ChecksAreAtomic LockReleased
