CONSTANTS
  t1 = t1
  t2 = t2
  c1 = c1
  c2 = c2
  c3 = c3
  c4 = c4
  Threads <- TwoThreads
  Requests <- SomeRequests
  MaxSizes = 2
  Field = 4
  Caches <- FourCaches
SPECIFICATION Spec
INVARIANTS TypeOK OnceInMap SizeServed
PROPERTIES LostToDrawing Spaced
