CONSTANTS
  Source = {r}
  File = {}
  ReadFile = {r}
  Hash = {h1}
  Malformed = Malformed
  NoGroup = NoGroup
  MaxWrites = 0
  MaxFaults = 0
  Discoverer <- MCDiscoverer
  Origin <- MCOrigin
  Owner <- MCOwner
  MaxVersion = 2
  d1 = d1
  d2 = d2
  s1 = s1
  s2 = s2
  s3 = s3
SPECIFICATION ManagerSpec
INVARIANT NothingStranded
PROPERTIES FeedSpec StopsWhenCancelled
