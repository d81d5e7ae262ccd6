---------------------------- MODULE MCProvenance ----------------------------
(***************************************************************************)
(* Three fields: f1 and f2 have similar content, f2 and f3 are of one      *)
(* table, f3 and f1 are a key and its foreign key.  Three calls, one of    *)
(* each relation, lead back to where they began.                           *)
(***************************************************************************)
EXTENDS Provenance

CONSTANTS f1, f2, f3

MCFields == {f1, f2, f3}
MCOperations == {"CONTENT_SIM", "TABLE", "PKFK"}
MCFound ==
  [op \in MCOperations |->
     CASE op = "CONTENT_SIM" ->
            [f \in MCFields |-> CASE f = f1 -> {f2} [] f = f2 -> {f1} [] f = f3 -> {}]
       [] op = "PKFK" ->
            [f \in MCFields |-> CASE f = f1 -> {f3} [] f = f2 -> {} [] f = f3 -> {f1}]
       [] op = "TABLE" ->
            [f \in MCFields |-> IF f = f1 THEN {f1} ELSE {f2, f3}]]
=============================================================================
