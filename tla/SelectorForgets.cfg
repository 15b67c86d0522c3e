SPECIFICATION Spec
CONSTANTS
  a = a
  b = b
  r1 = r1
  Ids = {a, b}
  Regs = {r1}
  Arns = {}
  NoReg = NoReg
  NoArn = NoArn
  NoAccount = NoAccount
  NoState = NoState
  NoLease = NoLease
  NoRuntime = NoRuntime
  Rotations = 0
  SaveOutcomes = {TRUE}
  MaxRevision = 3
  MaxGeneration = 3
  MaxFetches = 0
  Requests = {q1, q2}
  InitialFiles <- OneOfTwo
  NewAccounts <- Newcomers
PROPERTIES NoSendWhileDepleted
