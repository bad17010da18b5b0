SPECIFICATION Spec
CONSTANTS
  NoUser = NoUser
  Users = {0, 1, 2}
  Width = 5
INVARIANTS InferenceIsKernelRule InferenceOnWords ChecksOnWords
