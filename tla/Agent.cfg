CONSTANTS
  MaxSignals = 3
  MaxInstances = 3
  MaxCalls = 2
  MaxPayload = 2
  MaxReloads = 2
SPECIFICATION MCSpec
INVARIANTS OneInstance HostsRight OwnPayload
PROPERTY ProcessEnds
