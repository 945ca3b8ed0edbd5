SPECIFICATION MCSpec
CONSTANTS
  Item = {a, b}
  Nothing = n
  MaxLength = 4
  Requests <- MCRequests
  Align = 2
  Struct = 2
  SizeMod = 64
  worker = worker
  idler = idler
  sender = sender
  NoCoRoutine = NoCoRoutine
INVARIANT RingSound
INVARIANT HeapSound
INVARIANT HeapServes
INVARIANT CoRoutinesSound
INVARIANT CoRoutinesServed
PROPERTY ImplementsItemQueue
