---------------------------- MODULE MCPathSearch ----------------------------
(***************************************************************************)
(* Instances of PathSearch for TLC: a network of two components, an odd    *)
(* cycle with a chain and a pair, and a field the network does not know.   *)
(***************************************************************************)
EXTENDS PathSearch

CONSTANTS a, b, c, d, e, f, g, h, unknown

MCNetwork == {a, b, c, d, e, f, g, h}
MCFields == MCNetwork \union {unknown}

\* a - b - c - d - e - a is a cycle, e has a loop, h hangs from a, and
\* f - g is apart.
MCLinks == {{a, b}, {b, c}, {c, d}, {d, e}, {e, a}, {e}, {a, h}, {f, g}}
MCSimilar == [x \in MCNetwork |-> {y \in MCNetwork : {x, y} \in MCLinks}]
=============================================================================
