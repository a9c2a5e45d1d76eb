SPECIFICATION FairSpec
CONSTANTS
  s1 = s1
  s2 = s2
  f1 = f1
  Clients = {s1, f1}
  Subscribers = {s1}
PROPERTIES ClientEndReachesUpstream
CHECK_DEADLOCK FALSE
