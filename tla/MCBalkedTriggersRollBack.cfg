SPECIFICATION Spec
CONSTANTS
  r1 = r1
  r2 = r2
  Users = {r1}
  Owner = r1
  MaxEdits = 2
  MaxContexts = 2
  PluginsCatch = FALSE
  Unanswered = Unanswered
INVARIANTS BalkedTriggersRollBack
CHECK_DEADLOCK FALSE
