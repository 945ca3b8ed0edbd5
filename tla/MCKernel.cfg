SPECIFICATION Spec
CONSTANTS
  A = A
  B = B
  C = C
  Idle = Idle
  NoTask = NoTask
  Q1 = Q1
  Q2 = Q2
  I = I
  Item = {I}
  EventGroup = {}
  EventBit = {}
  ValueMod = 2
  Task <- MCTask
  Queue = {Q1, Q2}
  MaxPriorities = 4
  TickMod = 4
  Apps <- KernelApps
INVARIANT ListsSound
INVARIANT SchedulerSound
INVARIANT TimeKept
INVARIANT NoLostWakeup
INVARIANT MutexesSound
INVARIANT NoInversion
PROPERTY DelaysExact
CHECK_DEADLOCK FALSE
