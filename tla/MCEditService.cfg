SPECIFICATION Spec
CONSTANTS
  p1 = p1
  p2 = p2
  c1 = c1
  c2 = c2
  add = add
  t1 = t1
  t2 = t2
  t3 = t3
  v1 = v1
  v2 = v2
  custom = custom
  primitive = primitive
  Plugins = {p1, p2}
  Commands = {c1, c2, add}
  Triggers = {t1, t2, t3}
  Validators = {v1, v2}
  PluginOf <- MCPluginOf
  TypeOf <- MCTypeOf
  Primitive = {primitive}
  Reactive = {t1, t2}
  Applicable = {v1, v2}
  MaxRounds = 2
INVARIANTS TypeOK RegistriesMatchTokens TriggersNotMissed ValidatorsNotMissed
SYMMETRY Symmetry
CHECK_DEADLOCK FALSE
