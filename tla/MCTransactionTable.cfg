SPECIFICATION FairSpec
CONSTANTS
  m1 = m1
  Models = {m1}
  Calls = {c1, c2, c3}
  ModelOf <- MCModelOf
  NoCall = NoCall
INVARIANTS TypeOK RegisteredWillClose LiveIsRegistered
PROPERTIES EvictsOnlyEnded EndedIsForgotten
CHECK_DEADLOCK FALSE
