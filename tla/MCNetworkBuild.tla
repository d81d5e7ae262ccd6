--------------------------- MODULE MCNetworkBuild ---------------------------
(***************************************************************************)
(* Instance of NetworkBuild for TLC: three numeric fields and two text     *)
(* fields in the tables A (of two databases) and B.                        *)
(***************************************************************************)
EXTENDS NetworkBuild

CONSTANTS n1, n2, n3, x1, x2

FieldsDef == {n1, n2, n3, x1, x2}

\* n1 barely a key, n2 without values, n3 at the threshold; the distinct
\* values of x1 are an estimate above the total.
ProfileDef ==
  n1 :> [dbName |-> "db1", sourceName |-> "A", dataType |-> "N", unique |-> 705, total |-> 1000] @@
  n2 :> [dbName |-> "db2", sourceName |-> "A", dataType |-> "N", unique |-> 0, total |-> 0] @@
  n3 :> [dbName |-> "db1", sourceName |-> "B", dataType |-> "N", unique |-> 7, total |-> 10] @@
  x1 :> [dbName |-> "db1", sourceName |-> "B", dataType |-> "T", unique |-> 11, total |-> 10] @@
  x2 :> [dbName |-> "db2", sourceName |-> "A", dataType |-> "T", unique |-> 1, total |-> 10]

\* Equal, contained at and above 7/10, overlapping at and below 7/10, with a
\* common end, single points near and far.
RangesDef ==
  LET R(l, r) == [left |-> l, right |-> r]
  IN  n1 :> {R(0, 10), R(5, 5)} @@
      n2 :> {R(0, 10), R(0, 3), R(1, 8), R(1, 9), R(3, 13), R(4, 14), R(7, 7)} @@
      n3 :> {R(5, 5), R(8, 8), R(3, 13)}

SimilarTextDef == {{}, {{x1, x2}}}
SimilarNameDef == {{{n1, x1}}}
LateDef == {n3}
=============================================================================
