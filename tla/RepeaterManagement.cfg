SPECIFICATION MCSpec
CONSTANTS
  Nodes = {n1, n2}
  KeyForms = {TRUE}
  MaxConnects = 2
  MaxCommands = 2
  MaxReloads = 2
  MaxEdits = 1
  MaxRestarts = 1
SYMMETRY NodeSymmetry
INVARIANTS TypeOK AckedKept ShownTiers
PROPERTIES HealedAfterConnect LockedDown ManagedSurvives
