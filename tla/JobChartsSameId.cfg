CONSTANTS
  Id = {x, y, z}
  TooLong = {z}
  MaxCharts = 4
  AddsTwice = TRUE
SPECIFICATION Spec
INVARIANT SameIdRefused
