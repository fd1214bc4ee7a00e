SPECIFICATION MCSpec
CONSTANTS
  Sources <- MCSources
  Deadline <- MCDeadline
  Mandatory = {0, 1}
  SourceCapacity = 2
  RebootInterval = 4
  WatchdogTimeout = 2
  TimeModulus = 7
  StaleAfter = 4
  SyncInterval = 2
  RetryDelays <- MCRetryDelays
  ClockModulus = 10
  MaxPollGap = 2
  f1 = f1
  f2 = f2
  SourceCount = 2
  Frames <- MCFrames
  Off = Off
  Durations = {0, 1, 2}
  WrapTicks = 8
  MaxDelay = 1
  FailedApplyShows = FALSE
  DebounceMs = 1
  ShortPressMax = 2
  CommissioningMin = 4
  FactoryResetMin = 6
  ClockRange = 16
  MaxGap = 2
  MaxUptime = 20
  TickModulus = 10
  Characters = {"h", "s"}
  Enter = "enter"
  CliPeriod = 2
  SensorPeriod = 3
  TelemetryPeriod = 4
  CommandCapacity = 3
  Help <- MCHelp
  Status <- MCStatus
  WriteTicks = 2
  MaxLine = 3
  LinkCapacity = 2
  Delays <- MCDelays
  MaxAttempts = 5
  LinkTimeModulus = 32
  MaxLinkTime = 15
INVARIANT FedOnlyWhenHealthy
INVARIANT StaleTimeIsFlagged
INVARIANT ShowsHighest
INVARIANT PressIsHeld
INVARIANT ClockSafe
INVARIANT TelemetryOnTime
INVARIANT RetriedWithinCap
INVARIANT ObserverIsCurrent
PROPERTY CommandIsLine
PROPERTY RequestsSpaced
PROPERTY SilenceEnds
PROPERTY RequestsGoOn
