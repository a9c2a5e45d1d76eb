SPECIFICATION FairSpec
CONSTANTS
  s1 = s1
  s2 = s2
  f1 = f1
  Clients = {s1, s2, f1}
  Subscribers = {s1, s2}
INVARIANTS TypeOK SendableCodes SubscriptionsAreLive
PROPERTIES EndsTogether UpstreamEndReachesClient
CHECK_DEADLOCK FALSE
