SPECIFICATION Spec
CONSTANTS
  Ids = {a}
  Regs = {r1}
  Arns = {p}
  NoReg = NoReg
  NoArn = NoArn
  NoAccount = NoAccount
  Rotations = 0
  SaveOutcomes = {TRUE, FALSE}
  MaxRevision = 2
  MaxSnapshots = 0
SYMMETRY Symmetry
PROPERTIES SwitchIsPersisted
