SPECIFICATION Spec
CONSTANTS
  c1 = c1
  c2 = c2
  c3 = c3
  Commands <- MCCommands
  MaxDeaths = 1
  None = None
SYMMETRY MCSymmetry
INVARIANTS StartedFromOneInit SecretsFitVolumes RefusedUntouched
CHECK_DEADLOCK FALSE
