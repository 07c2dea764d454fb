SPECIFICATION SystemSpec
CONSTANTS
  Namespaces = {"default"}
  Names = {"a"}
  Targets = {"a"}
  Schedules = {"s"}
  DefaultNS = "default"
  EveryMinute = "everyMinute"
  Tamperable = {"serviceAccount"}
  Limit <- SystemLimit
  Nil = Nil
  Nodes = {n1, n2}
  Home <- AnyHome
INVARIANTS
  SystemTypeOK
  UndisturbedRunsSucceed
PROPERTIES
  BackupHappens
  LeftoversGo
CHECK_DEADLOCK FALSE
