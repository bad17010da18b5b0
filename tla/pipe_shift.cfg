SPECIFICATION Spec
CONSTANTS
  u1 = u1  u2 = u2  NoUser = NoUser  InitProc = InitProc
  p1 = p1  p2 = p2  p3 = p3
  private = private  shared = shared  ch1 = ch1  ch2 = ch2
  Users = {u1, u2}
  Pids = {p1, p2}
  Workers = {p1}
  WorkerUser <- OneWorker
  Files = {private}
  FileStat <- ChannelFileStat
  Channels = {ch1, ch2}
  Kinds = {"pipe"}
  Forkers = {p1}
  Mortals = {}
  Races = {}
  MaxPeers = 2
CHECK_DEADLOCK FALSE
INVARIANTS OpenPipesAreKnown
