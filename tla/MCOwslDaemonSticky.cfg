SPECIFICATION FairSpec
CONSTANTS
  Readings <- MCReadings
  CriticalBits = 64
  WarningBits = 256
  FrameLimit = 3
  AnomalyLimit = 4
  RecentLimit = 3
  Lookback = 2
PROPERTY HealthyReopens
