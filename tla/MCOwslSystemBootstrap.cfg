SPECIFICATION Spec
CONSTANTS
  Readings = {0, 100, 600}
  CriticalBits = 64
  WarningBits = 256
  FrameLimit = 3
  AnomalyLimit = 1
  RecentLimit = 1
  Lookback = 1
  Requests = {r1, r2}
  MaxPermits = 1
  Free = Free
  MaxAge = 4
  Interval = 2
  Jitter = 1
  MaxBack = 0
  WholeSeconds = FALSE
INVARIANT BootstrapPermits
