SPECIFICATION FairSpec
CONSTANTS
  r1 = r1
  r2 = r2
  Users = {r1}
  Owner = r1
  MaxEdits = 5
  MaxContexts = 4
  PluginsCatch = FALSE
  Unanswered = Unanswered
INVARIANTS TypeOK StackMatchesFrames OwnReply CommitsWhatIsReported
PROPERTIES NoEditAfterEnding EveryRequestAnswered IsAtomic
CHECK_DEADLOCK FALSE
