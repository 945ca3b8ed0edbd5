SPECIFICATION ServicesSpec
CONSTANTS
  A = A
  B = B
  C = C
  Idle = Idle
  NoTask = NoTask
  Q1 = Q1
  TQ = TQ
  I = I
  E1 = E1
  X = X
  Y = Y
  SB = SB
  Item <- MCItem
  EventGroup = {E1}
  EventBit = {1, 2}
  ValueMod = 4
  Task <- MCTask
  Queue = {Q1, TQ}
  Timer = {X, Y}
  Stream = {SB}
  HeaderBytes = 1
  MaxPriorities = 4
  TickMod = 16
  Apps <- ServiceApps
INVARIANT ServicesSound
INVARIANT UrgentRuns
INVARIANT MemoryConserved
INVARIANT NoLostNotification
INVARIANT EventsSound
INVARIANT SyncBarrier
INVARIANT TimersKept
INVARIANT StreamInOrder
INVARIANT StreamWaiters
PROPERTY HandlersKeepOut
CHECK_DEADLOCK FALSE
