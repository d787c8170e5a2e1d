CONSTANTS
  draw1 = draw1
  draw2 = draw2
  remover = remover
  Threads <- ThreadSet
  Class <- ProgramClass
  MaxDepth = 2
  NoThread = NoThread
SPECIFICATION FairSpec
INVARIANTS TypeOK OneGrant NoLostWakeup ExclusionKept CountersKept
PROPERTIES ImplementsClassLock WaiterEnters
