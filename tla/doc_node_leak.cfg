SPECIFICATION Spec
CONSTANTS
  Jobs = {"j1"}
  Args <- ArgA
  Backups = {"a"}
  Specs <- TwoNodeSpecs
  Pods = {"p1", "p2"}
  Claims <- OneClaim
  VolumeSource <- CsiSources
  Nodes = {"n1", "n2"}
  FirstNode <- SpreadPair
  Words <- PlainNames
  Faults = {}
  MaxFaults = 0
  MaxMoves = 0
  Nil = Nil
PROPERTY
  CleanupComplete
CHECK_DEADLOCK FALSE
