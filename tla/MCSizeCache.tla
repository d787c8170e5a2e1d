---------------------------- MODULE MCSizeCache ----------------------------
(* A field of 4 values, two kept sizes, and heights and widths that would   *)
(* meet in one hash if the over-size one of height 5 were let in.           *)
EXTENDS SizeCache, TLC

CONSTANTS t1, t2, c1, c2, c3, c4

TwoThreads == {t1, t2}
FourCaches == {c1, c2, c3, c4}

Size(height, width, bold) ==
  [height |-> height, width |-> width, lfWidth |-> width > 0,
   bold |-> bold, italic |-> 0]
SomeRequests == {Size(1, 0, 0), Size(1, 2, 0), Size(3, 0, 1), Size(5, 0, 0)}
=============================================================================
