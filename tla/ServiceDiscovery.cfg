CONSTANTS
  d1 = d1  d2 = d2  s1 = s1  s2 = s2  t1 = t1  t2 = t2  t3 = t3
  Discoverer = {d1, d2}
  Source = {s1, s2}
  Owner <- MCOwner
  Target = {t1, t2, t3}
  Groups <- MCGroups
  Composed <- MCComposed
  ConfFile = {c1, c2}
  Valid = {v1, v2}
  Invalid = {bad}
  NoData = NoData
  MaxFiles = 4
  NoGroup = NoGroup
  NoHand = NoHand
  MaxGroups = 3
SPECIFICATION MCSpec
INVARIANTS PipelineMatchesFile MirrorsTargets
PROPERTIES NoStaleGroups Delivers
