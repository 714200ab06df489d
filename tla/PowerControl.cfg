SPECIFICATION FairSpec
INVARIANTS TypeOK TargetKnowsFallback AutomaticStaysClear
PROPERTIES FixedTakesEffect
CONSTANTS
  Ceiling = 2
  ReportsPerDecision = 2
  MaxStepDown = 1
  MaxStepUp = 2
  FallbackMargin = 1
  FallbackReports = 2
  TelemetryAttempts = 1
  QueueDepth = 1
  Nothing = Nothing
  MaxFallbacks = 1
  MaxChanges = 2
