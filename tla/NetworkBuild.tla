---------------------------- MODULE NetworkBuild ----------------------------
(***************************************************************************)
(* Building, saving and loading the field network (layer L2 of Aurum,      *)
(* networkbuildercoordinator.py with modelstore/elasticstore.py and the    *)
(* serialization of knowledgerepr/fieldnetwork.py).                        *)
(*                                                                         *)
(* One builder reads the store by separate queries while the profiler may  *)
(* still be storing profiles, makes the relations one after the other and  *)
(* writes three files.  A reader loads the three files into a network it   *)
(* answers from.  The builder's process can die at any step, a build that  *)
(* ended can be followed by another one in the same process, and then the  *)
(* two share the dictionaries, which belong to the class.                  *)
(*                                                                         *)
(* A scroll answers from the state of the index when it was opened, page   *)
(* by page.  A file remembers (history) the build that wrote it and        *)
(* whether that build began with empty dictionaries.                       *)
(***************************************************************************)
EXTENDS FieldNetwork

CONSTANTS
  Ranges,      \* the median -+ iqr ranges that each numeric field may have
  SimilarText, \* the sets of pairs of text fields the hash engine may pair
  SimilarName, \* and the pairs of fields with similar names
  Late,        \* the fields the profiler may not have stored yet
  MaxBuilds,   \* bound: builds that are started
  Nothing      \* no content

ASSUME RangesAssumption ==
  \A f \in Numeric : \A r \in Ranges[f] : r.left \in Int /\ r.right \in Int /\ r.left <= r.right
ASSUME LateAssumption == Late \subseteq Fields
ASSUME BuildsAssumption == MaxBuilds \in Nat
ASSUME SimilarAssumption ==
  SimilarText \subseteq SUBSET Pairs /\ SimilarName \subseteq SUBSET Pairs

StatsOf == {s \in [Numeric -> UNION {Ranges[f] : f \in Numeric}] :
              \A f \in Numeric : s[f] \in Ranges[f]}

VARIABLES
  store,      \* the profile index: ids of the stored documents
  stats,      \* the ranges of the numeric fields, as the profiler found them
  builder,    \* where the builder is
  scroll,     \* the hits a scroll still owes
  id_names, source_ids,  \* the dictionaries of the class FieldNetwork
  graph,      \* __G of the network being built
  build,      \* number of the build and whether its dictionaries were empty
  disk,       \* the three files
  reader,     \* where deserialize_network is
  loaded,     \* what it has read
  torn        \* history: the last save was cut off

builderVars == <<builder, scroll, id_names, source_ids, graph, build>>
vars == <<store, stats, builderVars, disk, reader, loaded, torn>>

Files == <<"graph", "id_info", "table_ids">>
FileSet == {Files[i] : i \in 1..3}

\* An absent file, one that is truncated to be written, one not yet read.
Unreadable == [by |-> 0, clean |-> FALSE, value |-> Nothing]

Phases == {"down", "skeleton", "schemaSim", "textSim", "numSim", "pkfk",
           "save", "write", "done", "failed"}

TypeOK ==
  /\ store \subseteq Fields
  /\ stats \in StatsOf
  /\ builder.pc \in Phases /\ builder.file \in 1..3
  /\ scroll \subseteq Fields /\ id_names \subseteq Fields
  /\ \A s \in DOMAIN source_ids : source_ids[s] \in Seq(Fields)
  /\ DOMAIN graph.nodes \subseteq Fields
  /\ build \in [by : 0..MaxBuilds, clean : BOOLEAN]
  /\ DOMAIN disk = FileSet /\ DOMAIN loaded = FileSet
  /\ reader \in 0..3
  /\ torn \in BOOLEAN

Init ==
  /\ store \in {Fields \ L : L \in SUBSET Late}
  /\ stats \in StatsOf
  /\ builder = [pc |-> "down", file |-> 1]
  /\ scroll = {} /\ id_names = {} /\ source_ids = EmptyDict
  /\ graph = NewGraph /\ build = [by |-> 0, clean |-> TRUE]
  /\ disk = [f \in FileSet |-> Unreadable]
  /\ reader = 0 /\ loaded = [f \in FileSet |-> Unreadable]
  /\ torn = FALSE

-----------------------------------------------------------------------------
Goto(pc) == builder' = [builder EXCEPT !.pc = pc]

\* The profiler stores a profile.
ProfilerStores(f) ==
  /\ f \notin store
  /\ store' = store \union {f}
  /\ UNCHANGED <<stats, builderVars, disk, reader, loaded, torn>>

\* main(): a new network over the class's dictionaries, and the scroll that
\* get_all_fields opens.
StartBuild ==
  /\ builder.pc \in {"down", "done", "failed"} /\ build.by < MaxBuilds
  /\ build' = [by |-> build.by + 1, clean |-> id_names = {} /\ source_ids = EmptyDict]
  /\ graph' = NewGraph
  /\ scroll' = store
  /\ Goto("skeleton")
  /\ UNCHANGED <<store, stats, id_names, source_ids, disk, reader, loaded, torn>>

\* Mutant: a field that has a name is skipped before it is counted.
ReadNewField ==
  /\ builder.pc = "skeleton" /\ scroll \ id_names # {}
  /\ LET f == CHOOSE h \in scroll \ id_names : TRUE IN
       /\ scroll' = scroll \ {f}
       /\ id_names' = NameField(id_names, f)
       /\ source_ids' = ListField(source_ids, f)
       /\ graph' = AddField(graph, f)
  /\ UNCHANGED <<store, stats, builder, build, disk, reader, loaded, torn>>
\* init_meta_schema takes the fields from the generator as pages arrive, in
\* an order that no property depends on.
ReadField ==
  /\ builder.pc = "skeleton" /\ scroll # {}
  /\ LET f == CHOOSE h \in scroll : TRUE IN
       /\ scroll' = scroll \ {f}
       /\ id_names' = NameField(id_names, f)
       /\ source_ids' = ListField(source_ids, f)
       /\ graph' = AddField(graph, f)
  /\ UNCHANGED <<store, stats, builder, build, disk, reader, loaded, torn>>

EndOfScroll ==
  /\ builder.pc = "skeleton" /\ scroll = {}
  /\ Goto("schemaSim")
  /\ UNCHANGED <<store, stats, scroll, id_names, source_ids, graph, build,
                 disk, reader, loaded, torn>>

\* No names: the vectorizer has no vocabulary and raises.
BuildSchemaSim ==
  /\ builder.pc = "schemaSim" /\ id_names # {}
  /\ \E pairs \in SimilarName :
       graph' = SchemaSim(graph, {p \in pairs : p \subseteq id_names})
  /\ Goto("textSim")
  /\ UNCHANGED <<store, stats, scroll, id_names, source_ids, build, disk,
                 reader, loaded, torn>>

\* The signatures of the text fields that the dictionary names.
BuildTextSim ==
  /\ builder.pc = "textSim" /\ id_names \cap Text # {}
  /\ \E pairs \in SimilarText :
       graph' = TextContentSim(graph, {p \in pairs : p \subseteq id_names \cap Text})
  /\ Goto("numSim")
  /\ UNCHANGED <<store, stats, scroll, id_names, source_ids, build, disk,
                 reader, loaded, torn>>

\* A query of its own for the numeric signatures.  get_info_for raises on an
\* id without a name, the clustering on an empty set of points.
NumSignatures == store \cap Numeric
\* Mutant: unnamed ids are not looked up.
NumRaisesUnclustered == SinglePoints(stats, NumSignatures) = {}
NumRaises == NumSignatures \ id_names # {} \/ SinglePoints(stats, NumSignatures) = {}

BuildNumSim ==
  /\ builder.pc = "numSim" /\ ~NumRaises
  /\ graph' = NumContentSim(graph, OverlapScores(stats, NumSignatures),
                            ClusterPairs(stats, SinglePoints(stats, NumSignatures)))
  /\ Goto("pkfk")
  /\ UNCHANGED <<store, stats, scroll, id_names, source_ids, build, disk,
                 reader, loaded, torn>>

BuildPkfk ==
  /\ builder.pc = "pkfk" /\ ~PkfkRaises(graph, id_names)
  /\ graph' = Pkfk(graph, id_names)
  /\ builder' = [pc |-> "save", file |-> 1]
  /\ UNCHANGED <<store, stats, scroll, id_names, source_ids, build, disk,
                 reader, loaded, torn>>

\* write_gpickle opens (and truncates) a file, then dumps into it.
OpenFile ==
  /\ builder.pc = "save"
  /\ disk' = [disk EXCEPT ![Files[builder.file]] = Unreadable]
  /\ Goto("write")
  /\ UNCHANGED <<store, stats, scroll, id_names, source_ids, graph, build,
                 reader, loaded, torn>>

Representation(f) ==
  CASE f = "graph" -> graph [] f = "id_info" -> id_names [] f = "table_ids" -> source_ids

\* Mutant: the table index is not written.
WriteTwoFiles ==
  LET f == Files[builder.file] IN
  /\ builder.pc = "write"
  /\ disk' = [disk EXCEPT ![f] = [by |-> build.by, clean |-> build.clean,
                                  value |-> Representation(f)]]
  /\ builder' = IF builder.file < 2 THEN [pc |-> "save", file |-> builder.file + 1]
                                    ELSE [pc |-> "done", file |-> 1]
  /\ torn' = IF builder.file < 2 THEN torn ELSE FALSE
  /\ UNCHANGED <<store, stats, scroll, id_names, source_ids, graph, build,
                 reader, loaded>>
WriteFile ==
  LET f == Files[builder.file] IN
  /\ builder.pc = "write"
  /\ disk' = [disk EXCEPT ![f] = [by |-> build.by, clean |-> build.clean,
                                  value |-> Representation(f)]]
  /\ builder' = IF builder.file < 3 THEN [pc |-> "save", file |-> builder.file + 1]
                                    ELSE [pc |-> "done", file |-> 1]
  /\ torn' = IF builder.file < 3 THEN torn ELSE FALSE
  /\ UNCHANGED <<store, stats, scroll, id_names, source_ids, graph, build,
                 reader, loaded>>

\* An exception that follows from the data.
MustRaise ==
  \/ builder.pc = "schemaSim" /\ id_names = {}
  \/ builder.pc = "textSim" /\ id_names \cap Text = {}
  \/ builder.pc = "numSim" /\ NumRaises
  \/ builder.pc = "pkfk" /\ PkfkRaises(graph, id_names)
BuildRaises ==
  /\ MustRaise
  /\ Goto("failed")
  /\ UNCHANGED <<store, stats, scroll, id_names, source_ids, graph, build,
                 disk, reader, loaded, torn>>

\* The store does not answer, a scroll brings less than it announced (the
\* page has no 'hits'), or the corpus is too small for the projection.
StoreFails ==
  /\ builder.pc \in {"skeleton", "schemaSim", "textSim", "numSim"}
  /\ Goto("failed") /\ scroll' = {}
  /\ UNCHANGED <<store, stats, id_names, source_ids, graph, build, disk,
                 reader, loaded, torn>>

\* The process ends, or dies: the class and its dictionaries go with it.
ProcessEnds ==
  /\ builder.pc # "down"
  /\ torn' = IF builder.pc = "write" \/ (builder.pc = "save" /\ builder.file > 1)
               THEN TRUE ELSE torn
  /\ builder' = [pc |-> "down", file |-> 1]
  /\ scroll' = {} /\ id_names' = {} /\ source_ids' = EmptyDict /\ graph' = NewGraph
  /\ UNCHANGED <<store, stats, build, disk, reader, loaded>>

-----------------------------------------------------------------------------
\* deserialize_network, one file after the other.  A file that is absent or
\* cut off raises, and the reader has no network.
ReadFile ==
  /\ reader \in 0..2
  /\ LET f == Files[reader + 1] IN
       IF disk[f].by = 0
         THEN reader' = 0 /\ loaded' = [g \in FileSet |-> Unreadable]
         ELSE reader' = reader + 1 /\ loaded' = [loaded EXCEPT ![f] = disk[f]]
  /\ UNCHANGED <<store, stats, builderVars, disk, torn>>

\* get_fields_of_source on the loaded network: the dictionary is a
\* defaultdict, so asking adds the table.
AskForTable(s) ==
  /\ reader = 3
  /\ loaded' = [loaded EXCEPT !["table_ids"].value =
                  IF s \in DOMAIN @ THEN @ ELSE Put(@, s, <<>>)]
  /\ UNCHANGED <<store, stats, builderVars, disk, reader, torn>>

\* Another session over the model.
Reload ==
  /\ reader = 3
  /\ reader' = 0 /\ loaded' = [f \in FileSet |-> Unreadable]
  /\ UNCHANGED <<store, stats, builderVars, disk, torn>>

TableNames == {Profile[f].sourceName : f \in Fields}

BuildStep ==
  \/ ReadField \/ EndOfScroll \/ BuildSchemaSim \/ BuildTextSim \/ BuildNumSim \/ BuildPkfk
  \/ OpenFile \/ WriteFile \/ BuildRaises

Next ==
  \/ \E f \in Late : ProfilerStores(f)
  \/ StartBuild \/ BuildStep \/ StoreFails \/ ProcessEnds
  \/ ReadFile \/ Reload
  \/ \E s \in TableNames : AskForTable(s)

\* The builder is one running thread: it goes on until it ends.
Spec == Init /\ [][Next]_vars /\ WF_vars(BuildStep)

-----------------------------------------------------------------------------
(***************************************************************************)
(* Properties.                                                             *)
(***************************************************************************)
\* Every node has a name, a cardinality and its one place in the list of its
\* table; relations join nodes, and a key relation joins similar fields one
\* of which is nearly unique.
Whole(g, names, tables) ==
  /\ DOMAIN g.nodes = names
  /\ \A f \in names : HasCardinality(g, f)
  /\ \A f \in names :
       Cardinality({p \in UNION {{s} \X DOMAIN tables[s] : s \in DOMAIN tables} :
                      tables[p[1]][p[2]] = f}) = 1
  /\ \A s \in DOMAIN tables : \A i \in DOMAIN tables[s] :
       tables[s][i] \in names /\ Profile[tables[s][i]].sourceName = s
  /\ UNION (g.schemaSim \union DOMAIN g.contentSim) \subseteq names
  /\ \A p \in Pairs : p \in DOMAIN g.pkfk <=>
       p \in DOMAIN g.contentSim /\ \E f \in p : IsKey(g, f)

\* A network a session has loaded is whole, whatever the profiler stored
\* meanwhile and whatever builds failed before, if its three files come from
\* one build and that build was the first of its process (fieldnetwork.py
\* 93-121, 417-442).
LoadedWhole ==
  LET g == loaded["graph"]  names == loaded["id_info"]  tables == loaded["table_ids"]
  IN  (reader = 3 /\ g.by = names.by /\ names.by = tables.by /\ g.clean)
        => Whole(g.value, names.value, tables.value)

\* Unless the last save was cut off or one is under way, the three files
\* are all absent or all written to the end by one build: builds that fail
\* leave the model alone.  At any time, after any number of saves that were cut
\* off, no file is of an earlier build than one that is written after it
\* (networkbuildercoordinator.py 79, fieldnetwork.py 432-434).
NewestFirst ==
  \A i, j \in 1..3 :
    (i < j /\ disk[Files[i]].by # 0 /\ disk[Files[j]].by # 0) =>
      disk[Files[i]].by >= disk[Files[j]].by
FilesAgree ==
  /\ (~torn /\ builder.pc \notin {"save", "write"}) =>
       \A f, g \in FileSet : disk[f].by = disk[g].by
  /\ NewestFirst

\* What the sorted search with its early break is for: two numeric fields
\* with ranges are similar when the ranges share seven tenths of the shorter
\* one, but one that lies inside the other without touching its ends only
\* when it is longer than seven tenths of the other (networkbuilder.py
\* 189-245).
LesserMax(m, n) == IF m < n THEN m ELSE n
Overlap(r, s) ==
  LesserMax(r.right, s.right) + LesserMax(-r.left, -s.left)
SimilarRanges(r, s) ==
  LET big == IF Span(r) >= Span(s) THEN r ELSE s
      small == IF big = r THEN s ELSE r
  IN  IF small.left > big.left /\ small.right < big.right
        THEN 10 * Span(small) > 7 * Span(big)
        ELSE 10 * Overlap(r, s) >= 7 * Span(small)
SimilarWhenRangesShare ==
  builder.pc = "pkfk" =>
    \A f, h \in Numeric \cap id_names :
      (f # h /\ Span(stats[f]) > 0 /\ Span(stats[h]) > 0) =>
        ({f, h} \in DOMAIN graph.contentSim <=> SimilarRanges(stats[f], stats[h]))

\* A build that has begun ends: it saves its network, raises, or its process
\* is gone (the loops of elasticstore.py 53-71 and of the relations).
BuildEnds ==
  builder.pc \notin {"down", "done", "failed"} ~> builder.pc \in {"down", "done", "failed"}
=============================================================================
