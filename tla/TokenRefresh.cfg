SPECIFICATION Spec
CONSTANTS
  Ids = {a}
  Regs = {r1, r2}
  Arns = {}
  NoReg = NoReg
  NoArn = NoArn
  NoAccount = NoAccount
  NoCopy = NoCopy
  Rotations = 1
  SaveOutcomes = {TRUE, FALSE}
  MaxRevision = 2
  Callers = {c1, c2}
SYMMETRY Symmetry
INVARIANTS AsksWithNewest NoRotationDropped
PROPERTIES ServedIsStored
