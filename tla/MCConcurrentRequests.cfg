SPECIFICATION FairSpec
CONSTANTS
  r1 = r1
  r2 = r2
  Users = {r1, r2}
  Owner = r1
  MaxEdits = 3
  MaxContexts = 3
  PluginsCatch = TRUE
  Unanswered = Unanswered
INVARIANTS StackCoversFrames CommitsOnlyOnSuccess
PROPERTIES EveryRequestAnswered
CHECK_DEADLOCK FALSE
