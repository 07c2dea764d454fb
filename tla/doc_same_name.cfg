SPECIFICATION Spec
CONSTANTS
  Jobs = {"j1", "j2"}
  Args <- ArgsEach
  Backups = {"a", "b"}
  Specs <- OneNameSpecs
  Pods = {"p1", "p2"}
  Claims <- OneClaim
  VolumeSource <- CsiSources
  Nodes = {"n1"}
  FirstNode <- OnOneNode
  Words <- PlainNames
  Faults = {}
  MaxFaults = 0
  MaxMoves = 0
  Nil = Nil
INVARIANT
  SnapshotsFaithful
CHECK_DEADLOCK FALSE
