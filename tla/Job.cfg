CONSTANTS
  UpdateEvery = 2
  PenaltyStep = 2
  MaxPenalty = 3
  MaxRetries = 6
  Period = 20
  Id = {x, y, z}
  TooLong = {z}
  MaxCharts = 4
  AddsTwice = FALSE
  MaxTime = 8
  Plugin = {p1, p2}
  Name = {n1, n2}
  Cfg = {c1, c2}
  Value = {running}
  None = None
  Unreadable = Unreadable
  MaxSaves = 3
  MaxInstances = 2
SPECIFICATION MCSpec
INVARIANTS ModuleProtocol NetdataMatchesList MapMatchesKernel OneCollector ExitKeepsStatuses
PROPERTIES StopTerminates KeepsCollecting StopEnds EventuallyFlushed
