SPECIFICATION FairSpec
CONSTANTS
  Namespaces = {default}
  Names = {a}
  Targets = {t1, t2}
  Schedules = {s}
  DefaultNS = default
  EveryMinute = everyMinute
  Tamperable = {"serviceAccount", "clusterRole", "binding", "cronJob"}
  Limit <- LiveLimit
  Nil = nil
PROPERTIES
  Quiesces
  RegistersEventually
  DeletionCompletes
  RoleRecreated
CHECK_DEADLOCK FALSE
