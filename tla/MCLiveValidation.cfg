SPECIFICATION Spec
CONSTANTS
  e1 = e1
  e2 = e2
  s1 = s1
  s2 = s2
  Edits = {e1, e2}
  Patches = {e2}
  Services = {e2}
  Subscribers = {s1, s2}
SYMMETRY Symmetry
INVARIANTS TypeOK InformedBeforeAnswer NoMissedUpdate OnlyTheInvited ChangesAreNotDenied
CHECK_DEADLOCK FALSE
