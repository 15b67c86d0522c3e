SPECIFICATION Spec
CONSTANTS
  a = a
  b = b
  r1 = r1
  Ids = {a, b}
  Regs = {r1}
  Arns = {p}
  NoReg = NoReg
  NoArn = NoArn
  NoAccount = NoAccount
  NoState = NoState
  NoLease = NoLease
  NoRuntime = NoRuntime
  Rotations = 0
  SaveOutcomes = {TRUE}
  MaxRevision = 2
  MaxGeneration = 4
  MaxFetches = 1
  Requests = {q1, q2}
  InitialFiles <- OneOfTwo
  NewAccounts <- Newcomers
SYMMETRY Symmetry
CONSTRAINT SmallInstances
INVARIANTS StrictNeedsProof
PROPERTIES NoSendOnOutdatedLease SuccessHidesNoFailure StateNeverRollsBack DepletionIsSticky NoSecondTurn
