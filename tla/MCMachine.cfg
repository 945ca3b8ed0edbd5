SPECIFICATION MCSpec
CONSTANTS
  Half = 8
  LastHigh = 4
  Increment = 3
  Period = 5
  Task = {t1, t2}
  NoTask = none
  Word = {0, 1}
  WordMod = 2
  MaxNesting = 2
INVARIANT CompareSound
INVARIANT DriverPeriod
INVARIANT SwitchSound
INVARIANT InterruptsAsNested
INVARIANT AtomicWhenMasked
INVARIANT UnitLaws
INVARIANT LoadsLastStored
PROPERTY ImplementsTicker
CHECK_DEADLOCK FALSE
