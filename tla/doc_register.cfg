SPECIFICATION FairSpec
CONSTANTS
  Namespaces = {default, team}
  Names = {a}
  Targets = {t}
  Schedules = {s}
  DefaultNS = default
  EveryMinute = everyMinute
  Tamperable = {}
  Limit <- CreateOneLimit
  Nil = nil
PROPERTY RegistersEventually
CHECK_DEADLOCK FALSE
