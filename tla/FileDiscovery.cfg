CONSTANTS
  Source = {f1, r}
  File = {f1}
  ReadFile = {r}
  Hash = {h1}
  Malformed = Malformed
  NoGroup = NoGroup
  MaxWrites = 4
  MaxFaults = 1
  Discoverer <- MCDiscoverer
  Origin <- MCOrigin
  Owner <- MCOwner
  MaxVersion = 0
  d1 = d1
  d2 = d2
  s1 = s1
  s2 = s2
  s3 = s3
SPECIFICATION FilesSpec
INVARIANT PublishedIsCached
PROPERTIES ReportsExactDifference Converges
