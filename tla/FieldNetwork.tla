---------------------------- MODULE FieldNetwork ----------------------------
(***************************************************************************)
(* The field network as data (knowledgerepr/fieldnetwork.py) and the       *)
(* relations the builder puts into it (knowledgerepr/networkbuilder.py).   *)
(*                                                                         *)
(* A network is a graph whose nodes are field ids, a dictionary from ids   *)
(* to field descriptions and a dictionary from table names to lists of     *)
(* ids.  The graph keeps one undirected edge per pair and relation, which  *)
(* is the key of the multigraph's edge, so a relation is a function from   *)
(* pairs to scores.  Scores and cardinality ratios are exact fractions     *)
(* <<numerator, denominator>>.                                             *)
(***************************************************************************)
EXTENDS Integers, Sequences, FiniteSets, SequencesExt

CONSTANTS
  Fields,      \* ids: compute_field_id of a column of a table of a database
  Profile,     \* Profile[f]: what the profiler stores about the field
  NoAttribute, \* a node that add_edge created: it has no 'cardinality'
  NoRatio      \* Python's None: a field without values

Numeric == {f \in Fields : Profile[f].dataType = "N"}
Text == {f \in Fields : Profile[f].dataType = "T"}

ASSUME ProfileAssumption ==
  \A f \in Fields : /\ {"dbName", "sourceName", "dataType", "unique", "total"}
                         \subseteq DOMAIN Profile[f]
                    /\ Profile[f].dataType \in {"N", "T"}
                    /\ Profile[f].unique \in Nat /\ Profile[f].total \in Nat
ASSUME MarksAssumption ==
  NoAttribute # NoRatio /\ {NoAttribute, NoRatio} \cap (Nat \X Nat) = {}

Pairs == {{f, g} : f, g \in Fields} \ {{f} : f \in Fields}

\* d[k] = v on a dictionary.
Put(d, k, v) == [x \in DOMAIN d \union {k} |-> IF x = k THEN v ELSE d[x]]
EmptyDict == [x \in {} |-> 0]

NewGraph == [nodes |-> EmptyDict, schemaSim |-> {}, contentSim |-> EmptyDict,
             pkfk |-> EmptyDict]

CardinalityRatio(f) ==
  IF Profile[f].total > 0 THEN <<Profile[f].unique, Profile[f].total>> ELSE NoRatio

\* One field of init_meta_schema: its name, its table, its node.
\* Mutant: the dictionary is keyed by the table's name.
NameTable(names, f) == names \union {Profile[f].sourceName}
NameField(names, f) == names \union {f}
ListField(tables, f) ==
  LET sn == Profile[f].sourceName
  IN  Put(tables, sn, IF sn \in DOMAIN tables THEN Append(tables[sn], f) ELSE <<f>>)
AddField(g, f) == [g EXCEPT !.nodes = Put(@, f, CardinalityRatio(f))]

\* The nodes that an edge brings in when they are not there yet.
AddNodes(g, fs) ==
  [g EXCEPT !.nodes = [f \in DOMAIN @ \union fs |->
                         IF f \in DOMAIN @ THEN @[f] ELSE NoAttribute]]

\* get_cardinality_of raises a KeyError on the others.
HasCardinality(g, f) == f \in DOMAIN g.nodes /\ g.nodes[f] # NoAttribute
CardinalityOf(g, f) == IF g.nodes[f] = NoRatio THEN <<0, 1>> ELSE g.nodes[f]

Neighbors(g, f) == {h \in Fields : {f, h} \in DOMAIN g.contentSim}

-----------------------------------------------------------------------------
(***************************************************************************)
(* Content similarity of numeric fields: each field spans the range from   *)
(* median - iqr to median + iqr, given here by its two ends.               *)
(***************************************************************************)
Span(r) == r.right - r.left

\* sorted(..., reverse=True): by domain, the longest first.  Fields with
\* domains of one length fare alike, whatever their order.
\* Mutant: the sort is not reversed.
BeforeAscending(stats, f, h) == Span(stats[f]) <= Span(stats[h])
Before(stats, f, h) == Span(stats[f]) >= Span(stats[h])

\* The entries the inner loop reaches before it breaks.
Reached(stats, fs, ref) ==
  {f \in fs : \A h \in fs \ {ref} :
     Before(stats, h, f) => 10 * Span(stats[h]) > 7 * Span(stats[ref])}

\* The length of the candidate's range that counts, and whether any does.
Contained(c, r) == c.left >= r.left /\ c.right <= r.right
StartsIn(c, r) == c.left >= r.left /\ c.left <= r.right
EndsIn(c, r) == c.right <= r.right /\ c.right >= r.left
SharedLength(c, r) ==
  IF Contained(c, r) THEN Span(c)
  ELSE IF StartsIn(c, r) THEN r.right - c.left
  ELSE IF EndsIn(c, r) THEN c.right - r.left
  ELSE -1

Connects(stats, fs, ref, f) ==
  /\ f # ref
  /\ Span(stats[ref]) # 0
  /\ f \in Reached(stats, fs, ref)
  /\ SharedLength(stats[f], stats[ref]) >= 0
  /\ 10 * SharedLength(stats[f], stats[ref]) >= 7 * Span(stats[ref])

\* The last reference field that connects a pair leaves its score.
OverlapScores(stats, fs) ==
  LET Refs(p) == {ref \in p : \E f \in p : Connects(stats, fs, ref, f)}
      LastRef(p) == CHOOSE ref \in Refs(p) : \A r \in Refs(p) : Before(stats, r, ref)
  IN  [p \in {q \in Pairs : q \subseteq fs /\ Refs(q) # {}} |->
         LET ref == LastRef(p)
             f == CHOOSE h \in p : h # ref
         IN  <<SharedLength(stats[f], stats[ref]), Span(stats[ref])>>]

SinglePoints(stats, fs) == {f \in fs : Span(stats[f]) = 0}

\* DBSCAN with min_samples=2 on one coordinate: the points that a chain of
\* steps of at most Eps joins.  It clusters half the value of each point, so
\* that eps=0.1 joins points 0.2 apart; the unit of all ranges is a tenth.
Eps == 2
InOneCluster(stats, points, f, h) ==
  LET lo == IF stats[f].right < stats[h].right THEN f ELSE h
      hi == IF lo = f THEN h ELSE f
  IN  \A p \in points \ {hi} :
        (stats[lo].right <= stats[p].right /\ stats[p].right < stats[hi].right) =>
          \E q \in points : stats[q].right > stats[p].right
                            /\ stats[q].right - stats[p].right <= Eps
                            /\ stats[q].right <= stats[hi].right
ClusterPairs(stats, points) ==
  {p \in Pairs : p \subseteq points /\ \A f, h \in p : f # h => InOneCluster(stats, points, f, h)}

\* build_content_sim_relation_num_overlap_distr puts the scores of the
\* ranges in, then those of the clusters.
NumContentSim(g, overlap, clustered) ==
  LET old == g.contentSim
      new == [p \in DOMAIN old \union DOMAIN overlap \union clustered |->
                IF p \in clustered THEN <<7, 10>>
                ELSE IF p \in DOMAIN overlap THEN overlap[p] ELSE old[p]]
  IN  [AddNodes(g, UNION DOMAIN new) EXCEPT !.contentSim = new]

\* create_sim_graph_text: the pairs the hash engine calls neighbours.
TextContentSim(g, pairs) ==
  [AddNodes(g, UNION pairs) EXCEPT
     !.contentSim = [p \in DOMAIN @ \union pairs |-> IF p \in pairs THEN <<1, 1>> ELSE @[p]]]
SchemaSim(g, pairs) == [AddNodes(g, UNION pairs) EXCEPT !.schemaSim = @ \union pairs]

-----------------------------------------------------------------------------
(***************************************************************************)
(* Primary key / foreign key candidates.                                   *)
(***************************************************************************)
Above(r, q) == r[1] * q[2] > q[1] * r[2]

IsKey(g, f) == Above(CardinalityOf(g, f), <<7, 10>>)

Highest(g, f, h) ==
  IF Above(CardinalityOf(g, f), CardinalityOf(g, h)) THEN CardinalityOf(g, f)
                                                     ELSE CardinalityOf(g, h)

\* It raises a KeyError on a field without a node or an attribute, and on a
\* neighbour that has no name.
PkfkRaises(g, names) ==
  \/ \E f \in names : ~HasCardinality(g, f)
  \/ \E f \in names : IsKey(g, f) /\ \E h \in Neighbors(g, f) :
       h \notin names \/ ~HasCardinality(g, h)

Pkfk(g, names) ==
  LET found == {{f, h} : f \in {k \in names : IsKey(g, k)}, h \in names} \cap DOMAIN g.contentSim
  IN  [g EXCEPT !.pkfk =
         [p \in found |-> LET f == CHOOSE x \in p : TRUE
                              h == CHOOSE x \in p : x # f
                          IN  Highest(g, f, h)]]
=============================================================================
