SPECIFICATION Spec
CONSTANTS
  Namespaces = {default}
  Names = {a, b}
  Targets = {t}
  Schedules = {s}
  DefaultNS = default
  EveryMinute = everyMinute
  Tamperable = {}
  Limit <- CreateTwoLimit
  Nil = nil
INVARIANT EachCronJobHasRights
CHECK_DEADLOCK FALSE
