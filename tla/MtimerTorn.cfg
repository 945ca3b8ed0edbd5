SPECIFICATION DriverSpec
CONSTANTS
  Half = 8
  LastHigh = 3
  Period = 5
INVARIANT PeriodKept
CHECK_DEADLOCK FALSE
