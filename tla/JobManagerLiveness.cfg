CONSTANTS
  h1 = h1  h2 = h2  n1 = n1  n2 = n2
  Hash = {h1, h2}
  Source = {s1}
  Name = {n1, n2}
  FullName <- OwnNames
  Contended = {n1}
  RetryEvery = {h2}
  SavedActive = {h1}
  K8sWatched = {}
  RecoverTries = 2
  K8sTries = 1
  Task = {1, 2}
  MaxBatches = 2
  StaleRetry = FALSE
SPECIFICATION FairSpec
INVARIANTS TrackedExactly RunningExactly
PROPERTIES EventuallyTracked RecoveryEnds StopsWhenCancelled
