SPECIFICATION Spec
CONSTANTS
  Namespaces = {default}
  Names = {a, b}
  Targets = {t}
  Schedules = {s}
  DefaultNS = default
  EveryMinute = everyMinute
  Tamperable = {}
  Limit <- SiblingLimit
  Nil = nil
SYMMETRY NamesSymmetry
INVARIANTS
  NoOrphans
  RegisteredOwnsCronJob
PROPERTY RefinesFinalizerProtocol
CHECK_DEADLOCK FALSE
