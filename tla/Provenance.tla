----------------------------- MODULE Provenance -----------------------------
(***************************************************************************)
(* The provenance graphs of discovery result sets (api/apiutils.py,        *)
(* Provenance and the DRS operations that merge graphs).                   *)
(*                                                                         *)
(* Each DRS carries a multigraph that grows with every call of the API: an *)
(* edge leads from the hit, or from the node made for a keyword, to what   *)
(* the operation found for it.  why() answers with the leafs from which a  *)
(* path leads to a result, and the coverage of a result is the share of    *)
(* the leafs it is answered with.  All sets are in FIELDS mode here; modes *)
(* and cursors are modelled in module Drs.                                 *)
(***************************************************************************)
EXTENDS Integers, FiniteSets

CONSTANTS
  Objects,     \* the result sets the client holds
  Fields,      \* hits: the fields of the network
  Lookups,     \* the nodes populate_provenance makes, one per keyword search
  Operations,  \* the labels of edges a primitive makes
  Found,       \* what a primitive finds for a field
  MaxHits,     \* bound: fields a client starts with, or a search finds
  MaxCalls     \* bound: calls of one session

ASSUME BoundsAssumption == MaxHits \in Nat /\ MaxCalls \in Nat
ASSUME NodesAssumption == Lookups \intersect Fields = {}
ASSUME OperationsAssumption ==
  "TABLE" \in Operations
  /\ Operations \subseteq {"TABLE", "CONTENT_SIM", "SCHEMA_SIM", "PKFK"}
ASSUME FoundAssumption == Found \in [Operations -> [Fields -> SUBSET Fields]]

Nodes  == Fields \union Lookups
Labels == Operations \union {"LOOKUP"}

VARIABLES
  drs,         \* data and provenance of each result set
  used,        \* global_origin_id: the lookup nodes handed out
  calls        \* calls made so far

vars == <<drs, used, calls>>

CanCall == calls < MaxCalls /\ calls' = calls + 1

\* given is history: the elements the client's chain of calls began with.
New(data, nodes, edges, given) ==
  [data |-> data, nodes |-> nodes, edges |-> edges, given |-> given]

Init ==
  /\ drs = [o \in Objects |-> New({}, {}, {}, {})]
  /\ used = {} /\ calls = 0

-----------------------------------------------------------------------------
(* Reading a graph *)

Predecessors(d, n) == {e[1] : e \in {e \in d.edges : e[2] = n}}
Successors(d, n)   == {e[2] : e \in {e \in d.edges : e[1] = n}}

\* Mutant: the two neighbourhoods are swapped.
LeafsSwapped(d) == {n \in d.nodes : Successors(d, n) \ Predecessors(d, n) = {}}

\* A node that is only reached from nodes it leads to counts as a leaf.
Leafs(d) == {n \in d.nodes : Predecessors(d, n) \ Successors(d, n) = {}}

\* S holds everything the edges lead to from its nodes.
Closed(d, S) == \A e \in d.edges : e[1] \in S => e[2] \in S

Connected(d, m, n) == \A S \in SUBSET d.nodes : m \in S /\ Closed(d, S) => n \in S

\* The leafs that why(a) answers with, apart from a itself.
Why(d, a) == {l \in Leafs(d) \ {a} : Connected(d, l, a)}

-----------------------------------------------------------------------------
(* The client's calls *)

SmallSets == {S \in SUBSET Fields : Cardinality(S) <= MaxHits}

\* drs_from_raw_field, drs_from_hits, drs_from_table: ORIGIN.
Origin ==
  /\ CanCall
  /\ \E o \in Objects : \E S \in SmallSets :
       drs' = [drs EXCEPT ![o] = New(S, S, {}, S)]
  /\ UNCHANGED used

\* keyword_search and its kin: a node of its own for every search, whether or
\* not it finds anything.
Lookup ==
  /\ CanCall
  /\ \E o \in Objects, k \in Lookups \ used : \E S \in SmallSets :
       /\ drs' = [drs EXCEPT ![o] = New(S, S \union {k},
                                        {<<k, f, "LOOKUP">> : f \in S}, {k})]
       /\ used' = used \union {k}

\* What the loop over the input absorbs: one graph per field of the input.
FoundNodes(S, op) == S \union UNION {Found[op][f] : f \in S}

\* Mutant: add_edge is given the label in the place of the target.
FoundEdgesMisplaced(S, op) ==
  UNION {{<<f, op, g>> : g \in Found[op][f]} : f \in S}

FoundEdges(S, op) == UNION {{<<f, g, op>> : g \in Found[op][f]} : f \in S}

Answer(d, op) ==
  New(UNION {Found[op][f] : f \in d.data}, d.nodes \union FoundNodes(d.data, op),
      d.edges \union FoundEdges(d.data, op), d.given)

\* similar_content_to, similar_schema_name_to, pkfk_of, schema_neighbors_of.
Primitive ==
  /\ CanCall
  /\ \E in, dest \in Objects, op \in Operations :
       drs' = [drs EXCEPT ![dest] = Answer(drs[in], op)]
  /\ UNCHANGED used

\* drs_expand_to_table takes no provenance along: its fields begin a chain.
ExpandToTable ==
  /\ CanCall
  /\ \E in, dest \in Objects :
       LET S == drs[in].data IN
       drs' = [drs EXCEPT ![dest] =
                 New(UNION {Found["TABLE"][f] : f \in S}, FoundNodes(S, "TABLE"),
                     FoundEdges(S, "TABLE"), S)]
  /\ UNCHANGED used

\* Mutant: the data is merged, the provenance is not.
AbsorbDataOnly(d, e, data) == New(data, d.nodes, d.edges, d.given)

\* absorb_provenance composes the two graphs, whatever becomes of the data.
Absorb(d, e, data) ==
  New(data, d.nodes \union e.nodes, d.edges \union e.edges, d.given \union e.given)

\* union, intersection, difference: the first operand is the result.
Combine ==
  /\ CanCall
  /\ \E a, b \in Objects :
       LET mine == drs[a].data  merging == drs[b].data IN
       \E data \in {mine \union merging, mine \intersect merging, mine \ merging} :
         drs' = [drs EXCEPT ![a] = Absorb(drs[a], drs[b], data)]
  /\ UNCHANGED used

Next == Origin \/ Lookup \/ Primitive \/ ExpandToTable \/ Combine

Spec == Init /\ [][Next]_vars

-----------------------------------------------------------------------------
(* Properties *)

\* Every variable stays in its range.
TypeOK ==
  /\ drs \in [Objects -> [data : SUBSET Fields, nodes : SUBSET Nodes,
                          edges : SUBSET (Nodes \X Nodes \X Labels),
                          given : SUBSET Nodes]]
  /\ used \subseteq Lookups /\ calls \in 0..MaxCalls

\* Results and edges stay among the nodes of the graph.
Grounded(d) ==
  /\ d.data \union d.given \subseteq d.nodes
  /\ \A e \in d.edges : e[1] \in d.nodes /\ e[2] \in d.nodes

\* The edges lead from what was given to every node.
Explained(d) ==
  \A S \in SUBSET d.nodes : d.given \subseteq S /\ Closed(d, S) => S = d.nodes

\* Every result is a node of the provenance graph, where why, how and the
\* rankings look it up, and every node is reached by edges from what the
\* client's calls began with, however the sets were merged, reduced and
\* reused in between (apiutils.py 306-427).
EveryResultExplained == \A o \in Objects : Grounded(drs[o]) /\ Explained(drs[o])

\* Where the chain began with keyword searches alone, the coverage of every
\* result is defined and above zero: there is a leaf, and why() names one.
\* (It need not be for a chain that began with fields: they may become part
\* of a cycle, and then the graph has no leaf to divide by.)
CoverageDefined ==
  \A o \in Objects :
    LET d == drs[o] IN
    d.given \subseteq Lookups =>
      /\ d.given \subseteq Leafs(d)
      /\ \A a \in d.data : Why(d, a) # {}
=============================================================================
