------------------------------- MODULE MCDrs -------------------------------
(***************************************************************************)
(* Instances of Drs for TLC: two tables, one of two fields, and a relation *)
(* that links fields of different tables.                                  *)
(***************************************************************************)
EXTENDS Drs

CONSTANTS f1, f2, f3, t1, t2

MCFields == {f1, f2, f3}
MCTables == {t1, t2}
MCTableOf == [f \in MCFields |-> IF f = f3 THEN t2 ELSE t1]

\* Every field is a node, and f1 and f3 are similar.
AllKnown == MCFields
MCSimilar ==
  [f \in MCFields |-> CASE f = f1 -> {f3} [] f = f2 -> {} [] f = f3 -> {f1}]

\* The network is older than the store: it does not know f2.
SomeKnown == {f1, f3}
StaleSimilar == [f \in SomeKnown |-> SomeKnown \ {f}]
=============================================================================
