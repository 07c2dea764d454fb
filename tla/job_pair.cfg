SPECIFICATION Spec
CONSTANTS
  Jobs = {"j1", "j2"}
  Args <- ArgsOverlap
  Backups = {"a", "b"}
  Specs <- OverlapSpecs
  Pods = {"p1"}
  Claims <- OneClaim
  VolumeSource <- CsiSources
  Nodes = {"n1", "n2"}
  FirstNode <- OnOneNode
  Words <- OverlapWords
  Faults = {"lookup", "delete", "exec", "kill"}
  MaxFaults = 1
  MaxMoves = 1
  Nil = Nil
INVARIANTS
  SnapshotsFaithful
  SuccessIsComplete
  NoFailureWithoutFault
PROPERTY
  RefinesBackupRun
CHECK_DEADLOCK FALSE
