SPECIFICATION FairSpec
CONSTANTS
  Namespaces = {default}
  Names = {a, b}
  Targets = {t}
  Schedules = {s}
  DefaultNS = default
  EveryMinute = everyMinute
  Tamperable = {}
  Limit <- PairLimit
  Nil = nil
PROPERTY DeletionCompletes
CHECK_DEADLOCK FALSE
