SPECIFICATION Spec
CONSTANTS
  Ids = {a}
  Regs = {r1, r2}
  Arns = {p, q}
  NoReg = NoReg
  NoArn = NoArn
  NoAccount = NoAccount
  Rotations = 1
  SaveOutcomes = {TRUE}
  MaxRevision = 3
  MaxSnapshots = 2
SYMMETRY Symmetry
INVARIANTS RevisionPinsRouting CredentialPinsChain TokenOfItsRegistration StampsAgree
