-------------------------- MODULE MCTraceableList --------------------------
(* Instances of TraceableList for TLC: two iterators on up to four nodes.  *)
EXTENDS TraceableList

CONSTANTS n1, n2, n3, n4, i1, i2

FourCells == {n1, n2, n3, n4}
TwoCursors == {i1, i2}
=============================================================================
