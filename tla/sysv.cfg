SPECIFICATION Spec
CONSTANTS
  u1 = u1  u2 = u2  NoUser = NoUser  InitProc = InitProc
  p1 = p1  p2 = p2  q1 = q1  q2 = q2  i1 = i1
  secret_file = secret_file
  Users = {u1, u2}
  Pids = {p1, p2}
  User <- TwoUsers
  Files = {secret_file}
  FileStat <- SecretStat
  Queues = {q1, q2}
  Semaphores = {i1}
  Modes <- QueueModes
  SemOps <- Arrays
  Mortals = {p1}
  Reuse = FALSE
CONSTRAINT SystemVBound
CHECK_DEADLOCK FALSE
INVARIANTS TypeOK KnowledgeCovered
PROPERTIES IpcLabelsFixed StopsOnlyForRemoved
