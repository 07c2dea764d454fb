SPECIFICATION FairSpec
CONSTANTS
  Jobs = {"j1", "j2"}
  Args <- ArgsThree
  Backups = {"a", "b", "c"}
  Specs <- RunSpecs
  Pods = {"p1", "p2", "p3"}
  Claims <- RunClaims
  VolumeSource <- RunSources
  Nodes = {"n1"}
  FirstNode <- OnOneNode
  Words <- PlainNames
  Faults = {"get", "apply", "wait", "find", "exec", "secret", "mkdir", "fatal", "kill"}
  MaxFaults = 1
  MaxMoves = 1
  Nil = Nil
INVARIANTS
  TypeOK
  AtMostOnce
  SuccessIsComplete
PROPERTIES
  CleanupComplete
  SuccessCleansUp
  Termination
CHECK_DEADLOCK FALSE
