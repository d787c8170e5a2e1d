CONSTANTS
  loader = loader
  drawing = drawing
  painting = painting
  Loader = loader
  Threads <- TwoThreads
  Systems <- SomeSystems
  Unsure = {"TextOutW"}
SPECIFICATION Spec
CHECK_DEADLOCK FALSE
INVARIANTS TypeOK OriginalKept CleanUnload
PROPERTIES LostForGood AllOrNothing CallReturns
