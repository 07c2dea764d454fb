SPECIFICATION Spec
CONSTANTS
  Namespaces = {default}
  Names = {a}
  Targets = {t1, t2}
  Schedules = {s}
  DefaultNS = default
  EveryMinute = everyMinute
  Tamperable = {"serviceAccount", "cronJob"}
  Limit <- SingleLimit
  Nil = nil
INVARIANTS
  TypeOK
  IdleMeansConverged
  NoOrphans
CHECK_DEADLOCK FALSE
