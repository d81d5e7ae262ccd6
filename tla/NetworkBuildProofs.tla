------------------------- MODULE NetworkBuildProofs -------------------------
(***************************************************************************)
(* Theorems about NetworkBuild, for every set of fields, profile and       *)
(* bound: the three files of a saved network agree; a network that a       *)
(* session loads from the files of one clean build is whole; the types,    *)
(* the graph under construction among them; and which pairs of numeric     *)
(* fields the search over sorted ranges connects.                          *)
(***************************************************************************)
EXTENDS NetworkBuild, FiniteSetTheorems, TLAPS

OneBuild == \A f, g \in FileSet : disk[f].by = disk[g].by

Saving == builder.pc \in {"save", "write"}

\* While a save is under way, the files before the one it is at are its own;
\* before it has opened the first, nothing has changed.  No file is of a build
\* to come.
FilesInv ==
  /\ builder = [pc |-> builder.pc, file |-> builder.file]
  /\ builder.file \in 1..3
  /\ disk = [f \in FileSet |-> disk[f]]
  /\ torn \in BOOLEAN
  /\ (~torn /\ ~Saving) => OneBuild
  /\ (~torn /\ builder.pc = "save" /\ builder.file = 1) => OneBuild
  /\ Saving => \A i \in 1..3 : i < builder.file => disk[Files[i]].by = build.by
  /\ build.by \in Nat
  /\ \A f \in FileSet : disk[f].by \in Nat /\ disk[f].by <= build.by
  /\ NewestFirst

LEMMA FileNames == /\ FileSet = {"graph", "id_info", "table_ids"}
                   /\ Files[1] = "graph" /\ Files[2] = "id_info" /\ Files[3] = "table_ids"
                   /\ \A i \in 1..3 : i = 1 \/ i = 2 \/ i = 3
  BY DEF FileSet, Files

LEMMA FilesInit == Init => FilesInv
<1>. SUFFICES ASSUME Init PROVE FilesInv
  OBVIOUS
<1>1. builder = [pc |-> "down", file |-> 1] /\ torn = FALSE
  BY DEF Init
<1>2. disk = [f \in FileSet |-> Unreadable]
  BY DEF Init
<1>3. OneBuild /\ disk = [f \in FileSet |-> disk[f]]
  BY <1>2 DEF OneBuild
<1>6. /\ build.by = 0 /\ \A f \in FileSet : disk[f].by = 0
      /\ \A i \in 1..3 : Files[i] \in FileSet
  BY <1>2 DEF Init, Unreadable, FileSet
<1>7. NewestFirst
  BY <1>6 DEF NewestFirst
<1>4. torn \in BOOLEAN
  BY <1>1
<1>5. ~Saving /\ builder = [pc |-> builder.pc, file |-> builder.file] /\ builder.file \in 1..3
  BY <1>1 DEF Saving
<1>. QED BY <1>3, <1>4, <1>5, <1>6, <1>7 DEF FilesInv

LEMMA FilesStep == FilesInv /\ [Next]_vars => FilesInv'
<1>. SUFFICES ASSUME FilesInv, [Next]_vars PROVE FilesInv'
  OBVIOUS
<1>. USE FileNames DEF FilesInv, OneBuild, Saving, NewestFirst
<1>1. CASE UNCHANGED vars
  BY <1>1 DEF vars, builderVars
<1>2. ASSUME NEW f \in Late, ProfilerStores(f) PROVE FilesInv'
  BY <1>2 DEF ProfilerStores, builderVars
<1>3. CASE StartBuild
  BY <1>3 DEF StartBuild, Goto
<1>4. CASE ReadField
  BY <1>4 DEF ReadField
<1>5. CASE EndOfScroll
  BY <1>5 DEF EndOfScroll, Goto
<1>6. CASE BuildSchemaSim
  BY <1>6 DEF BuildSchemaSim, Goto
<1>7. CASE BuildTextSim
  BY <1>7 DEF BuildTextSim, Goto
<1>8. CASE BuildNumSim
  BY <1>8 DEF BuildNumSim, Goto
<1>9. CASE BuildPkfk
  BY <1>9 DEF BuildPkfk
<1>10. CASE OpenFile
  <2>. DEFINE f == Files[builder.file]
  <2>1. /\ builder.pc = "save" /\ builder' = [builder EXCEPT !.pc = "write"]
        /\ disk' = [disk EXCEPT ![f] = Unreadable]
        /\ build' = build /\ torn' = torn
    BY <1>10 DEF OpenFile, Goto
  <2>2. f \in FileSet /\ disk'[f].by = 0 /\ \A g \in FileSet \ {f} : disk'[g] = disk[g]
    BY <2>1 DEF Unreadable
  <2>3. NewestFirst'
    BY <2>2
  <2>4. \A g \in FileSet : disk'[g].by \in Nat /\ disk'[g].by <= build.by
    BY <2>2
  <2>5. \A i \in 1..3 : i < builder.file => disk'[Files[i]].by = build.by
    BY <2>1, <2>2
  <2>6. builder' = [pc |-> "write", file |-> builder.file]
    BY <2>1
  <2>7. disk' = [g \in FileSet |-> disk'[g]]
    BY <2>1
  <2>. QED BY <2>1, <2>3, <2>4, <2>5, <2>6, <2>7
<1>11. CASE WriteFile
  <2>. DEFINE f == Files[builder.file]
  <2>0. NewestFirst' /\ \A g \in FileSet : disk'[g].by \in Nat /\ disk'[g].by <= build.by
    <3>1. f \in FileSet /\ disk'[f].by = build.by
          /\ \A g \in FileSet \ {f} : disk'[g] = disk[g]
      BY <1>11 DEF WriteFile
    <3>2. \A i \in 1..3 : i < builder.file => disk[Files[i]].by = build.by
      BY <1>11 DEF WriteFile
    <3>3. NewestFirst'
      BY <3>1, <3>2
    <3>. QED BY <3>1, <3>3
  <2>1. /\ builder.pc = "write"
        /\ disk' = [disk EXCEPT ![f] = [by |-> build.by, clean |-> build.clean,
                                        value |-> Representation(f)]]
        /\ build' = build
    BY <1>11 DEF WriteFile
  <2>2. disk'[f].by = build.by /\ \A g \in FileSet \ {f} : disk'[g] = disk[g]
    BY <2>1
  <2>3. CASE builder.file < 3
    BY <1>11, <2>0, <2>1, <2>2, <2>3 DEF WriteFile
  <2>4. CASE builder.file = 3
    <3>1. \A g \in FileSet : disk'[g].by = build.by
      BY <2>1, <2>2, <2>4
    <3>. QED BY <1>11, <2>0, <2>1, <2>4, <3>1 DEF WriteFile
  <2>. QED BY <2>3, <2>4
<1>12. CASE BuildRaises
  BY <1>12 DEF BuildRaises, MustRaise, Goto
<1>13. CASE StoreFails
  BY <1>13 DEF StoreFails, Goto
<1>14. CASE ProcessEnds
  <2>1. /\ builder' = [pc |-> "down", file |-> 1] /\ disk' = disk
        /\ builder.pc = "write" \/ (builder.pc = "save" /\ builder.file > 1)
             => torn' = TRUE
        /\ ~(builder.pc = "write" \/ (builder.pc = "save" /\ builder.file > 1))
             => torn' = torn
    BY <1>14 DEF ProcessEnds
  <2>2. ~Saving' /\ OneBuild' = OneBuild /\ torn' \in BOOLEAN
    BY <2>1
  <2>3. ~torn' => OneBuild
    BY <2>1
  <2>4. build' = build
    BY <1>14 DEF ProcessEnds
  <2>5. NewestFirst' /\ \A f \in FileSet : disk'[f].by \in Nat /\ disk'[f].by <= build'.by
    BY <2>1, <2>4
  <2>. QED BY <2>1, <2>2, <2>3, <2>4, <2>5
<1>15. CASE ReadFile
  BY <1>15 DEF ReadFile, builderVars
<1>16. CASE Reload
  BY <1>16 DEF Reload, builderVars
<1>17. ASSUME NEW s \in TableNames, AskForTable(s) PROVE FilesInv'
  BY <1>17 DEF AskForTable, builderVars
<1>. HIDE DEF FilesInv, OneBuild, Saving, NewestFirst
<1>. QED
  BY <1>1, <1>2, <1>3, <1>4, <1>5, <1>6, <1>7, <1>8, <1>9, <1>10, <1>11, <1>12,
     <1>13, <1>14, <1>15, <1>16, <1>17 DEF Next, BuildStep

\* The three files of a saved network come from one build unless a save was
\* cut off or is under way, and are never of an earlier build than the files
\* written after them (fieldnetwork.py 432-434).
THEOREM SavedFilesAgree == Spec => []FilesAgree
<1>1. FilesInv => FilesAgree
  BY DEF FilesInv, FilesAgree, OneBuild, Saving
<1>. QED BY <1>1, FilesInit, FilesStep, PTL DEF Spec

-----------------------------------------------------------------------------
(* A network that a clean build makes *)

\* Every named field has its one place, in the list of its own table.
Listed(names, tables) ==
  /\ \A s \in DOMAIN tables :
       /\ tables[s] \in Seq(names)
       /\ \A i \in DOMAIN tables[s] : Profile[tables[s][i]].sourceName = s
       /\ \A i, j \in DOMAIN tables[s] : tables[s][i] = tables[s][j] => i = j
  /\ \A f \in names :
       /\ Profile[f].sourceName \in DOMAIN tables
       /\ \E i \in DOMAIN tables[Profile[f].sourceName] :
            tables[Profile[f].sourceName][i] = f

\* The nodes are the named fields, with what add_field gave them, and the
\* relations made so far join nodes.
Sound(g, names) ==
  /\ g = [nodes |-> g.nodes, schemaSim |-> g.schemaSim,
          contentSim |-> g.contentSim, pkfk |-> g.pkfk]
  /\ g.nodes = [f \in names |-> CardinalityRatio(f)]
  /\ g.schemaSim \subseteq SUBSET names
  /\ DOMAIN g.contentSim \subseteq Pairs \intersect SUBSET names

LEMMA RatioIsAttribute ==
  ASSUME NEW f \in Fields
  PROVE  CardinalityRatio(f) # NoAttribute
<1>1. Profile[f].unique \in Nat /\ Profile[f].total \in Nat
  BY ProfileAssumption
<1>2. CASE Profile[f].total > 0
  <2>1. <<Profile[f].unique, Profile[f].total>> \in Nat \X Nat
    BY <1>1
  <2> QED BY <1>2, <2>1, MarksAssumption DEF CardinalityRatio
<1>3. CASE ~(Profile[f].total > 0)
  BY <1>3, MarksAssumption DEF CardinalityRatio
<1> QED BY <1>2, <1>3

LEMMA ListedOnce ==
  ASSUME NEW names, NEW tables, Listed(names, tables), NEW f \in names
  PROVE  Cardinality({p \in UNION {{s} \X DOMAIN tables[s] : s \in DOMAIN tables} :
                        tables[p[1]][p[2]] = f}) = 1
<1> DEFINE Places == {p \in UNION {{s} \X DOMAIN tables[s] : s \in DOMAIN tables} :
                        tables[p[1]][p[2]] = f}
           s0 == Profile[f].sourceName
<1>1. PICK i \in DOMAIN tables[s0] : tables[s0][i] = f
  BY DEF Listed
<1>2. s0 \in DOMAIN tables
  BY DEF Listed
<1>3. <<s0, i>> \in Places
  BY <1>1, <1>2
<1>4. ASSUME NEW p \in Places PROVE p = <<s0, i>>
  <2>1. PICK s \in DOMAIN tables : p \in {s} \X DOMAIN tables[s]
    OBVIOUS
  <2>2. PICK j \in DOMAIN tables[s] : p = <<s, j>>
    BY <2>1
  <2>3. tables[s][j] = f
    BY <2>2
  <2>4. s = s0
    BY <2>3 DEF Listed
  <2>5. j = i
    BY <1>1, <1>2, <2>3, <2>4 DEF Listed
  <2> QED BY <2>2, <2>4, <2>5
<1>5. Places = {<<s0, i>>}
  BY <1>3, <1>4
<1> HIDE DEF Places
<1>6. Cardinality(Places) = 1
  BY <1>5, FS_Singleton
<1> QED BY <1>6 DEF Places

LEMMA ListedMore ==
  ASSUME NEW names, NEW tables, Listed(names, tables), NEW f, f \notin names
  PROVE  Listed(names \union {f}, ListField(tables, f))
<1> DEFINE sn == Profile[f].sourceName
           more == ListField(tables, f)
           old == IF sn \in DOMAIN tables THEN tables[sn] ELSE <<>>
<1>1. /\ DOMAIN more = DOMAIN tables \union {sn}
      /\ \A s \in DOMAIN tables \ {sn} : more[s] = tables[s]
      /\ more[sn] = IF sn \in DOMAIN tables THEN Append(tables[sn], f) ELSE <<f>>
  BY DEF ListField, Put
<1>2. old \in Seq(names)
  BY DEF Listed
<1>3. more[sn] = Append(old, f)
  <2>1. <<f>> = Append(<<>>, f)
    OBVIOUS
  <2> QED BY <1>1, <2>1
<1>4. /\ more[sn] \in Seq(names \union {f})
      /\ Len(more[sn]) = Len(old) + 1
      /\ \A i \in 1..Len(old) : more[sn][i] = old[i] /\ old[i] \in names
      /\ more[sn][Len(old) + 1] = f
      /\ DOMAIN more[sn] = 1..(Len(old) + 1)
      /\ Len(old) \in Nat
  BY <1>2, <1>3
<1>5. /\ \A i \in 1..Len(old) : Profile[old[i]].sourceName = sn
      /\ \A i, j \in 1..Len(old) : old[i] = old[j] => i = j
  <2>1. CASE sn \in DOMAIN tables
    <3>1. DOMAIN tables[sn] = 1..Len(old)
      BY <1>2, <2>1
    <3> QED BY <2>1, <3>1 DEF Listed
  <2>2. CASE sn \notin DOMAIN tables
    BY <2>2
  <2> QED BY <2>1, <2>2
<1> HIDE DEF more
<1>6. \A s \in DOMAIN tables \ {sn} :
        /\ more[s] \in Seq(names \union {f})
        /\ \A i \in DOMAIN more[s] : Profile[more[s][i]].sourceName = s
        /\ \A i, j \in DOMAIN more[s] : more[s][i] = more[s][j] => i = j
  <2>1. \A s \in DOMAIN tables : tables[s] \in Seq(names \union {f})
    <3>1. \A s \in DOMAIN tables : tables[s] \in Seq(names)
      BY DEF Listed
    <3> QED BY <3>1
  <2> QED BY <1>1, <2>1 DEF Listed
<1>7. /\ \A i \in DOMAIN more[sn] : Profile[more[sn][i]].sourceName = sn
      /\ \A i, j \in DOMAIN more[sn] : more[sn][i] = more[sn][j] => i = j
  <2>1. \A i \in 1..(Len(old) + 1) : i \in 1..Len(old) \/ i = Len(old) + 1
    BY <1>4
  <2> HIDE DEF old
  <2> QED BY <1>4, <1>5, <2>1
<1>8. ASSUME NEW g \in names
      PROVE  /\ Profile[g].sourceName \in DOMAIN more
             /\ \E i \in DOMAIN more[Profile[g].sourceName] :
                  more[Profile[g].sourceName][i] = g
  <2> DEFINE s == Profile[g].sourceName
  <2>1. PICK i \in DOMAIN tables[s] : tables[s][i] = g
    BY DEF Listed
  <2>2. s \in DOMAIN tables
    BY DEF Listed
  <2>3. CASE s = sn
    <3>1. i \in 1..Len(old) /\ old[i] = g
      BY <1>2, <2>1, <2>2, <2>3
    <3>2. i \in DOMAIN more[sn] /\ more[sn][i] = g
      BY <1>4, <3>1
    <3> QED BY <1>1, <2>3, <3>2
  <2>4. CASE s # sn
    BY <1>1, <2>1, <2>2, <2>4
  <2> QED BY <2>3, <2>4
<1>9. sn \in DOMAIN more /\ \E i \in DOMAIN more[sn] : more[sn][i] = f
  BY <1>1, <1>4
<1> QED BY <1>1, <1>4, <1>6, <1>7, <1>8, <1>9 DEF Listed, more

\* What remains to show of a network once its relations are made.
LEMMA WholeNetwork ==
  ASSUME NEW g, NEW names, NEW tables, names \subseteq Fields, Sound(g, names),
         Listed(names, tables),
         \A p \in Pairs : p \in DOMAIN g.pkfk <=>
           p \in DOMAIN g.contentSim /\ \E f \in p : IsKey(g, f)
  PROVE  Whole(g, names, tables)
<1>1. DOMAIN g.nodes = names
  BY DEF Sound
<1>2. \A f \in names : HasCardinality(g, f)
  <2>1. \A f \in names : g.nodes[f] = CardinalityRatio(f)
    BY DEF Sound
  <2> QED BY <1>1, <2>1, RatioIsAttribute DEF HasCardinality
<1>3. \A s \in DOMAIN tables : \A i \in DOMAIN tables[s] :
        tables[s][i] \in names /\ Profile[tables[s][i]].sourceName = s
  BY DEF Listed
<1>4. UNION (g.schemaSim \union DOMAIN g.contentSim) \subseteq names
  BY DEF Sound
<1> QED BY <1>1, <1>2, <1>3, <1>4, ListedOnce DEF Whole

LEMMA WholeAsked ==
  ASSUME NEW g, NEW names, NEW tables, NEW s, s \notin DOMAIN tables,
         Whole(g, names, tables)
  PROVE  Whole(g, names, Put(tables, s, <<>>))
<1> DEFINE more == Put(tables, s, <<>>)
           Places(t) == UNION {{r} \X DOMAIN t[r] : r \in DOMAIN t}
<1>1. /\ DOMAIN more = DOMAIN tables \union {s} /\ more[s] = <<>>
      /\ \A r \in DOMAIN tables : more[r] = tables[r]
  BY DEF Put
<1>2. DOMAIN more[s] = {}
  BY <1>1
<1> HIDE DEF more
<1>3. Places(more) = Places(tables)
  <2>1. \A r \in DOMAIN tables : {r} \X DOMAIN more[r] = {r} \X DOMAIN tables[r]
    BY <1>1
  <2>2. {s} \X DOMAIN more[s] = {}
    BY <1>2
  <2>3. \A p : p \in Places(more) => p \in Places(tables)
    BY <1>1, <2>1, <2>2
  <2>4. \A p : p \in Places(tables) => p \in Places(more)
    BY <1>1, <2>1
  <2> QED BY <2>3, <2>4
<1>4. \A p \in Places(tables) : more[p[1]] = tables[p[1]]
  BY <1>1
<1>5. \A f : {p \in Places(more) : more[p[1]][p[2]] = f} =
             {p \in Places(tables) : tables[p[1]][p[2]] = f}
  <2> HIDE DEF Places
  <2> QED BY <1>3, <1>4
<1>6. \A f \in names :
        Cardinality({p \in Places(tables) : tables[p[1]][p[2]] = f}) = 1
  BY DEF Whole
<1> HIDE DEF Places
<1>7. \A f \in names :
        Cardinality({p \in Places(more) : more[p[1]][p[2]] = f}) = 1
  BY <1>5, <1>6
<1>8. \A r \in DOMAIN more : \A i \in DOMAIN more[r] :
        more[r][i] \in names /\ Profile[more[r][i]].sourceName = r
  BY <1>1, <1>2 DEF Whole
<1> QED BY <1>7, <1>8 DEF Whole, Places, more

-----------------------------------------------------------------------------
(* The steps of a build keep a sound network *)

LEMMA SoundInit == Sound(NewGraph, {}) /\ Listed({}, EmptyDict)
BY DEF Sound, Listed, NewGraph, EmptyDict

LEMMA SoundField ==
  ASSUME NEW g, NEW names, Sound(g, names), NEW f
  PROVE  Sound(AddField(g, f), names \union {f})
<1>1. AddField(g, f) = [nodes |-> Put(g.nodes, f, CardinalityRatio(f)),
                        schemaSim |-> g.schemaSim, contentSim |-> g.contentSim,
                        pkfk |-> g.pkfk]
  BY DEF Sound, AddField
<1>2. Put(g.nodes, f, CardinalityRatio(f)) =
        [h \in names \union {f} |-> CardinalityRatio(h)]
  BY DEF Put, Sound
<1> QED BY <1>1, <1>2 DEF Sound

LEMMA NodesThere ==
  ASSUME NEW g, NEW names, Sound(g, names), NEW fs \in SUBSET names
  PROVE  AddNodes(g, fs) = g
<1>1. DOMAIN g.nodes \union fs = names
  BY DEF Sound
<1>2. [f \in DOMAIN g.nodes \union fs |->
         IF f \in DOMAIN g.nodes THEN g.nodes[f] ELSE NoAttribute] = g.nodes
  BY <1>1 DEF Sound
<1>3. AddNodes(g, fs) = [g EXCEPT !.nodes = g.nodes]
  BY <1>2 DEF AddNodes
<1>4. g = [nodes |-> g.nodes, schemaSim |-> g.schemaSim,
           contentSim |-> g.contentSim, pkfk |-> g.pkfk]
  BY DEF Sound
<1> QED BY <1>3, <1>4

LEMMA SoundSchemaSim ==
  ASSUME NEW g, NEW names, Sound(g, names), NEW pairs \in SUBSET (SUBSET names)
  PROVE  Sound(SchemaSim(g, pairs), names)
<1>1. AddNodes(g, UNION pairs) = g
  BY NodesThere
<1>2. SchemaSim(g, pairs) = [g EXCEPT !.schemaSim = g.schemaSim \union pairs]
  BY <1>1 DEF SchemaSim
<1>3. SchemaSim(g, pairs) =
        [nodes |-> g.nodes, schemaSim |-> g.schemaSim \union pairs,
         contentSim |-> g.contentSim, pkfk |-> g.pkfk]
  BY <1>2 DEF Sound
<1>4. g.schemaSim \union pairs \subseteq SUBSET names
  BY DEF Sound
<1> QED BY <1>3, <1>4 DEF Sound

LEMMA SoundTextSim ==
  ASSUME NEW g, NEW names, Sound(g, names),
         NEW pairs \in SUBSET (Pairs \intersect SUBSET names)
  PROVE  Sound(TextContentSim(g, pairs), names)
<1>1. AddNodes(g, UNION pairs) = g
  BY NodesThere
<1> DEFINE new == [p \in DOMAIN g.contentSim \union pairs |->
                     IF p \in pairs THEN <<1, 1>> ELSE g.contentSim[p]]
<1>2. TextContentSim(g, pairs) = [g EXCEPT !.contentSim = new]
  BY <1>1 DEF TextContentSim
<1>3. DOMAIN new = DOMAIN g.contentSim \union pairs
  OBVIOUS
<1> HIDE DEF new
<1> QED BY <1>2, <1>3 DEF Sound

LEMMA SoundNumSim ==
  ASSUME NEW g, NEW names, Sound(g, names), NEW overlap,
         DOMAIN overlap \subseteq Pairs \intersect SUBSET names,
         NEW clustered \in SUBSET (Pairs \intersect SUBSET names)
  PROVE  Sound(NumContentSim(g, overlap, clustered), names)
<1> DEFINE old == g.contentSim
           new == [p \in DOMAIN old \union DOMAIN overlap \union clustered |->
                     IF p \in clustered THEN <<7, 10>>
                     ELSE IF p \in DOMAIN overlap THEN overlap[p] ELSE old[p]]
<1>1. DOMAIN new = DOMAIN old \union DOMAIN overlap \union clustered
  OBVIOUS
<1>2. NumContentSim(g, overlap, clustered) =
        [AddNodes(g, UNION DOMAIN new) EXCEPT !.contentSim = new]
  BY DEF NumContentSim
<1> HIDE DEF new
<1>3. DOMAIN new \subseteq Pairs \intersect SUBSET names
  BY <1>1 DEF Sound
<1>4. AddNodes(g, UNION DOMAIN new) = g
  BY <1>3, NodesThere
<1>5. NumContentSim(g, overlap, clustered) =
        [nodes |-> g.nodes, schemaSim |-> g.schemaSim, contentSim |-> new,
         pkfk |-> g.pkfk]
  <2>1. g = [nodes |-> g.nodes, schemaSim |-> g.schemaSim,
             contentSim |-> g.contentSim, pkfk |-> g.pkfk]
    BY DEF Sound
  <2>2. NumContentSim(g, overlap, clustered) = [g EXCEPT !.contentSim = new]
    BY <1>2, <1>4
  <2> QED BY <2>1, <2>2
<1> QED BY <1>3, <1>5 DEF Sound

LEMMA OverlapTyped ==
  ASSUME NEW st, NEW fs
  PROVE  DOMAIN OverlapScores(st, fs) \subseteq Pairs \intersect SUBSET fs
BY DEF OverlapScores

LEMMA ClusterTyped ==
  ASSUME NEW st, NEW fs
  PROVE  ClusterPairs(st, SinglePoints(st, fs)) \subseteq Pairs \intersect SUBSET fs
BY DEF ClusterPairs, SinglePoints

\* Key relations are the content relations of a field that is nearly unique.
LEMMA KeysWhole ==
  ASSUME NEW g, NEW names, NEW tables, names \subseteq Fields, Sound(g, names),
         Listed(names, tables)
  PROVE  Whole(Pkfk(g, names), names, tables)
<1> DEFINE k == Pkfk(g, names)
           found == {{f, h} : f \in {x \in names : IsKey(g, x)}, h \in names}
                      \intersect DOMAIN g.contentSim
<1> DEFINE keys == [p \in found |-> LET f == CHOOSE x \in p : TRUE
                                        h == CHOOSE x \in p : x # f
                                    IN  Highest(g, f, h)]
<1>0. k = [nodes |-> g.nodes, schemaSim |-> g.schemaSim,
           contentSim |-> g.contentSim, pkfk |-> keys]
  <2>1. k = [g EXCEPT !.pkfk = keys]
    BY DEF Pkfk
  <2>2. g = [nodes |-> g.nodes, schemaSim |-> g.schemaSim,
             contentSim |-> g.contentSim, pkfk |-> g.pkfk]
    BY DEF Sound
  <2> HIDE DEF k, keys
  <2> QED BY <2>1, <2>2
<1>2. /\ k.nodes = g.nodes /\ k.schemaSim = g.schemaSim
      /\ k.contentSim = g.contentSim
      /\ k = [nodes |-> k.nodes, schemaSim |-> k.schemaSim,
              contentSim |-> k.contentSim, pkfk |-> k.pkfk]
  <2> HIDE DEF k
  <2> QED BY <1>0
<1> HIDE DEF k
<1>1. DOMAIN k.pkfk = found
  BY <1>0
<1>3. Sound(k, names)
  BY <1>2 DEF Sound
<1>4. \A f : IsKey(k, f) <=> IsKey(g, f)
  BY <1>2 DEF IsKey, CardinalityOf
<1>5. ASSUME NEW p \in Pairs
      PROVE  p \in found <=>
               p \in DOMAIN g.contentSim /\ \E f \in p : IsKey(g, f)
  <2>1. ASSUME p \in found PROVE \E f \in p : IsKey(g, f)
    <3>1. PICK f \in {x \in names : IsKey(g, x)}, h \in names : p = {f, h}
      BY <2>1
    <3> QED BY <3>1
  <2>2. ASSUME p \in DOMAIN g.contentSim, NEW f \in p, IsKey(g, f)
        PROVE  p \in found
    <3>1. PICK a \in Fields, b \in Fields : p = {a, b}
      BY DEF Pairs
    <3>2. a \in names /\ b \in names
      BY <2>2, <3>1 DEF Sound
    <3>3. \E h \in names : p = {f, h}
      BY <3>1, <3>2
    <3> QED BY <2>2, <3>1, <3>2, <3>3
  <2> QED BY <2>1, <2>2
<1> HIDE DEF found
<1>6. \A p \in Pairs : p \in DOMAIN k.pkfk <=>
        p \in DOMAIN k.contentSim /\ \E f \in p : IsKey(k, f)
  BY <1>1, <1>2, <1>4, <1>5
<1>7. Whole(k, names, tables)
  BY <1>3, <1>6, WholeNetwork
<1> QED BY <1>7 DEF k

-----------------------------------------------------------------------------
(* What the files and a session hold *)

Building == builder.pc \in {"skeleton", "schemaSim", "textSim", "numSim", "pkfk"}

\* The contents of a file that a session may come to read: what is on disk or
\* loaded already, and, while a save is under way, what it is going to write.
Current(f) == [by |-> build.by, clean |-> build.clean, value |-> Representation(f)]
Versions(f) ==
  {Unreadable, disk[f], loaded[f]} \union (IF Saving THEN {Current(f)} ELSE {})

\* Contents are numbered by the builds that began: those of a build that has
\* not come to its save have a number that no file has.
Numbered ==
  \A f \in FileSet : \A v \in Versions(f) :
    /\ v.by \in Nat /\ v.by <= build.by
    /\ v.clean => v.by >= 1
    /\ Building => v.by < build.by

\* Three contents of one clean build are a whole network.
Matching ==
  \A g \in Versions("graph"), names \in Versions("id_info"),
     tables \in Versions("table_ids") :
    (g.clean /\ g.by = names.by /\ names.by = tables.by)
      => Whole(g.value, names.value, tables.value)

\* A clean build that has not come to its save.
Growing ==
  Building /\ build.clean =>
    /\ Sound(graph, id_names)
    /\ Listed(id_names, source_ids)
    /\ builder.pc = "skeleton" => scroll \intersect id_names = {}

Shapes ==
  /\ builder = [pc |-> builder.pc, file |-> builder.file]
  /\ builder.file \in 1..3
  /\ store \subseteq Fields /\ scroll \subseteq Fields /\ id_names \subseteq Fields
  /\ build = [by |-> build.by, clean |-> build.clean]
  /\ build.by \in Nat /\ build.clean \in BOOLEAN
  /\ builder.pc # "down" => build.by >= 1
  /\ disk = [f \in FileSet |-> disk[f]]
  /\ loaded = [f \in FileSet |-> loaded[f]]
  /\ loaded["table_ids"] = [by |-> loaded["table_ids"].by,
                            clean |-> loaded["table_ids"].clean,
                            value |-> loaded["table_ids"].value]
  /\ disk["table_ids"] = [by |-> disk["table_ids"].by,
                          clean |-> disk["table_ids"].clean,
                          value |-> disk["table_ids"].value]

LoadInv == Shapes /\ Growing /\ Numbered /\ Matching

LEMMA FewerVersions ==
  ASSUME Shapes, Numbered, Matching, Shapes',
         \A f \in FileSet : Versions(f)' \subseteq Versions(f),
         build.by <= build'.by,
         Building' => Building \/ build.by < build'.by
  PROVE  Numbered' /\ Matching'
<1>1. build.by \in Nat /\ build'.by \in Nat
  BY DEF Shapes
<1>2. Numbered'
  <2>1. SUFFICES ASSUME NEW f \in FileSet, NEW v \in Versions(f)'
                 PROVE  /\ v.by \in Nat /\ v.by <= build'.by
                        /\ v.clean => v.by >= 1
                        /\ Building' => v.by < build'.by
    BY DEF Numbered
  <2>2. v \in Versions(f)
    BY <2>1
  <2>3. /\ v.by \in Nat /\ v.by <= build.by /\ (v.clean => v.by >= 1)
        /\ Building => v.by < build.by
    BY <2>2 DEF Numbered
  <2> QED BY <1>1, <2>3
<1>3. Matching'
  <2>1. /\ Versions("graph")' \subseteq Versions("graph")
        /\ Versions("id_info")' \subseteq Versions("id_info")
        /\ Versions("table_ids")' \subseteq Versions("table_ids")
    BY FileNames
  <2> QED BY <2>1 DEF Matching
<1> QED BY <1>2, <1>3

\* A step that leaves the build and the files.
LEMMA SameVersions ==
  ASSUME Shapes, Shapes', Numbered, Matching,
         UNCHANGED <<disk, loaded, build>>,
         ~Saving',
         Building' => Building
  PROVE  Numbered' /\ Matching'
<1>1. \A f \in FileSet : Versions(f)' \subseteq Versions(f)
  BY DEF Versions
<1>2. build.by <= build'.by
  BY DEF Shapes
<1> QED BY <1>1, <1>2, FewerVersions

LEMMA LoadInit == Init => LoadInv
<1> SUFFICES ASSUME Init PROVE LoadInv
  OBVIOUS
<1>1. Shapes
  <2>1. store \subseteq Fields
    BY DEF Init
  <2> QED BY <2>1, FileNames DEF Init, Shapes, Unreadable
<1>2. ~Building /\ ~Saving
  BY DEF Init, Building, Saving
<1>3. \A f \in FileSet : \A v \in Versions(f) : v = Unreadable
  BY <1>2 DEF Init, Versions
<1>4. Numbered
  BY <1>1, <1>2, <1>3 DEF Numbered, Unreadable, Init
<1>5. Matching
  BY <1>3, FileNames DEF Matching, Unreadable
<1> QED BY <1>1, <1>2, <1>4, <1>5 DEF LoadInv, Growing

LEMMA StartsBuild ==
  ASSUME LoadInv, StartBuild
  PROVE  LoadInv'
<1>1. /\ build'.by = build.by + 1 /\ build' = [by |-> build'.by, clean |-> build'.clean]
      /\ build'.clean = (id_names = {} /\ source_ids = EmptyDict)
      /\ builder'.pc = "skeleton" /\ builder' = [pc |-> builder'.pc, file |-> builder'.file]
      /\ builder'.file = builder.file
      /\ scroll' = store /\ graph' = NewGraph
      /\ UNCHANGED <<store, id_names, source_ids, disk, loaded>>
  BY DEF StartBuild, LoadInv, Shapes, Goto
<1>2. build'.clean \in BOOLEAN
  BY <1>1
<1>3. Shapes'
  BY <1>1, <1>2 DEF LoadInv, Shapes
<1>4. Growing'
  <2>1. SUFFICES ASSUME build'.clean PROVE
          Sound(NewGraph, id_names) /\ Listed(id_names, source_ids)
            /\ id_names = {}
    BY <1>1 DEF Growing
  <2>2. id_names = {} /\ source_ids = EmptyDict
    BY <1>1, <2>1
  <2> QED BY <2>2, SoundInit
<1>5. \A f \in FileSet : Versions(f)' \subseteq Versions(f)
  BY <1>1 DEF Versions, Saving
<1>6. build.by < build'.by
  BY <1>1 DEF LoadInv, Shapes
<1>7. Numbered' /\ Matching'
  BY <1>3, <1>5, <1>6, FewerVersions DEF LoadInv, Shapes
<1> QED BY <1>3, <1>4, <1>7 DEF LoadInv

LEMMA ReadsField ==
  ASSUME LoadInv, ReadField
  PROVE  LoadInv'
<1>1. PICK f \in scroll :
        /\ scroll' = scroll \ {f} /\ id_names' = id_names \union {f}
        /\ source_ids' = ListField(source_ids, f) /\ graph' = AddField(graph, f)
  BY DEF ReadField, NameField
<1>2. UNCHANGED <<store, builder, build, disk, loaded>> /\ builder.pc = "skeleton"
  BY DEF ReadField
<1>3. f \in Fields
  BY DEF LoadInv, Shapes
<1>4. Shapes'
  BY <1>1, <1>2, <1>3 DEF LoadInv, Shapes
<1>5. Growing'
  <2>1. SUFFICES ASSUME build.clean
                 PROVE  /\ Sound(graph', id_names') /\ Listed(id_names', source_ids')
                        /\ scroll' \intersect id_names' = {}
    BY <1>2 DEF Growing
  <2>2. /\ Sound(graph, id_names) /\ Listed(id_names, source_ids)
        /\ scroll \intersect id_names = {}
    BY <1>2, <2>1 DEF LoadInv, Growing, Building
  <2>3. f \notin id_names
    BY <2>2
  <2>4. Sound(graph', id_names')
    BY <1>1, <2>2, SoundField
  <2>5. Listed(id_names', source_ids')
    BY <1>1, <2>2, <2>3, ListedMore
  <2> QED BY <1>1, <2>2, <2>4, <2>5
<1>6. ~Saving' /\ (Building' => Building)
  BY <1>2 DEF Saving, Building
<1>7. Numbered' /\ Matching'
  BY <1>2, <1>4, <1>6, SameVersions DEF LoadInv
<1> QED BY <1>4, <1>5, <1>7 DEF LoadInv

\* A relation is made, or the scroll has ended: the phase changes within the
\* build, and only the graph with it.
LEMMA NextPhase ==
  ASSUME LoadInv, Building, NEW pc,
         pc \in {"schemaSim", "textSim", "numSim", "pkfk"}, Goto(pc),
         UNCHANGED <<store, scroll, id_names, source_ids, build, disk, loaded>>,
         build.clean => Sound(graph', id_names)
  PROVE  LoadInv'
<1>1. /\ builder'.pc = pc /\ builder' = [pc |-> builder'.pc, file |-> builder'.file]
      /\ builder'.file = builder.file /\ builder.pc # "down"
  BY DEF Goto, LoadInv, Shapes, Building
<1>2. Shapes'
  BY <1>1 DEF LoadInv, Shapes
<1>3. Growing'
  <2>1. SUFFICES ASSUME build.clean
                 PROVE  Sound(graph', id_names) /\ Listed(id_names, source_ids)
    BY <1>1 DEF Growing
  <2> QED BY <2>1 DEF LoadInv, Growing
<1>4. ~Saving' /\ (Building' => Building)
  BY <1>1 DEF Saving, Building
<1>5. Numbered' /\ Matching'
  BY <1>2, <1>4, SameVersions DEF LoadInv
<1> QED BY <1>2, <1>3, <1>5 DEF LoadInv

LEMMA MakesRelation ==
  ASSUME LoadInv,
         EndOfScroll \/ BuildSchemaSim \/ BuildTextSim \/ BuildNumSim
  PROVE  LoadInv'
<1>1. CASE EndOfScroll
  <2>1. Building /\ (build.clean => Sound(graph', id_names))
    BY <1>1 DEF EndOfScroll, Building, LoadInv, Growing
  <2> QED BY <1>1, <2>1, NextPhase DEF EndOfScroll
<1>2. CASE BuildSchemaSim
  <2>1. PICK pairs \in SimilarName :
          graph' = SchemaSim(graph, {p \in pairs : p \subseteq id_names})
    BY <1>2 DEF BuildSchemaSim
  <2>2. Building
    BY <1>2 DEF BuildSchemaSim, Building
  <2>3. {p \in pairs : p \subseteq id_names} \in SUBSET (SUBSET id_names)
    OBVIOUS
  <2>4. build.clean => Sound(graph', id_names)
    BY <2>1, <2>2, <2>3, SoundSchemaSim DEF LoadInv, Growing
  <2> QED BY <1>2, <2>2, <2>4, NextPhase DEF BuildSchemaSim
<1>3. CASE BuildTextSim
  <2>1. PICK pairs \in SimilarText :
          graph' = TextContentSim(graph, {p \in pairs : p \subseteq id_names \cap Text})
    BY <1>3 DEF BuildTextSim
  <2>2. Building
    BY <1>3 DEF BuildTextSim, Building
  <2>3. {p \in pairs : p \subseteq id_names \cap Text}
          \in SUBSET (Pairs \intersect SUBSET id_names)
    BY SimilarAssumption
  <2>4. build.clean => Sound(graph', id_names)
    BY <2>1, <2>2, <2>3, SoundTextSim DEF LoadInv, Growing
  <2> QED BY <1>3, <2>2, <2>4, NextPhase DEF BuildTextSim
<1>4. CASE BuildNumSim
  <2> DEFINE overlap == OverlapScores(stats, NumSignatures)
             clustered == ClusterPairs(stats, SinglePoints(stats, NumSignatures))
  <2>1. graph' = NumContentSim(graph, overlap, clustered)
    BY <1>4 DEF BuildNumSim
  <2>2. Building
    BY <1>4 DEF BuildNumSim, Building
  <2>3. NumSignatures \subseteq id_names
    BY <1>4 DEF BuildNumSim, NumRaises
  <2>4. /\ DOMAIN overlap \subseteq Pairs \intersect SUBSET id_names
        /\ clustered \in SUBSET (Pairs \intersect SUBSET id_names)
    BY <2>3, OverlapTyped, ClusterTyped
  <2> HIDE DEF overlap, clustered
  <2>5. build.clean => Sound(graph', id_names)
    BY <2>1, <2>2, <2>4, SoundNumSim DEF LoadInv, Growing
  <2> QED BY <1>4, <2>2, <2>5, NextPhase DEF BuildNumSim
<1> QED BY <1>1, <1>2, <1>3, <1>4

\* The network of a clean build is whole when it comes to its save, and no
\* file has its number yet.
LEMMA ComesToSave ==
  ASSUME LoadInv, BuildPkfk
  PROVE  LoadInv'
<1>1. /\ builder' = [pc |-> "save", file |-> 1] /\ builder.pc = "pkfk"
      /\ graph' = Pkfk(graph, id_names)
      /\ UNCHANGED <<store, scroll, id_names, source_ids, build, disk, loaded>>
  BY DEF BuildPkfk
<1>2. Shapes'
  BY <1>1 DEF LoadInv, Shapes
<1>3. Building /\ ~Building' /\ Saving' /\ ~Saving
  BY <1>1 DEF Building, Saving
<1>4. \A f : Versions(f)' = {Unreadable, disk[f], loaded[f]} \union {Current(f)'}
  BY <1>1, <1>3 DEF Versions
<1>5. \A f \in FileSet : \A v \in {Unreadable, disk[f], loaded[f]} :
        v.by \in Nat /\ v.by < build.by /\ (v.clean => v.by >= 1)
  BY <1>3 DEF LoadInv, Numbered, Versions
<1>6. \A f : /\ Current(f)'.by = build.by /\ Current(f)'.clean = build.clean
             /\ Current(f)'.value = Representation(f)'
  BY <1>1 DEF Current
<1>7. build.by \in Nat /\ build.by >= 1
  BY <1>3 DEF LoadInv, Shapes, Building
<1>8. Numbered'
  <2>1. SUFFICES ASSUME NEW f \in FileSet, NEW v \in Versions(f)'
                 PROVE  /\ v.by \in Nat /\ v.by <= build.by
                        /\ v.clean => v.by >= 1
    BY <1>1, <1>3 DEF Numbered
  <2>2. v \in {Unreadable, disk[f], loaded[f]} \/ v = Current(f)'
    BY <1>4
  <2> QED BY <1>5, <1>6, <1>7, <2>2
<1>9. build.clean => Whole(graph', id_names', source_ids')
  <2>1. SUFFICES ASSUME build.clean PROVE Whole(graph', id_names', source_ids')
    OBVIOUS
  <2>2. /\ Sound(graph, id_names) /\ Listed(id_names, source_ids)
        /\ id_names \subseteq Fields
    BY <1>3, <2>1 DEF LoadInv, Growing, Shapes
  <2> QED BY <1>1, <2>2, KeysWhole
<1>10. Matching'
  <2>1. SUFFICES ASSUME NEW g \in Versions("graph")',
                        NEW names \in Versions("id_info")',
                        NEW tables \in Versions("table_ids")',
                        g.clean, g.by = names.by, names.by = tables.by
                 PROVE  Whole(g.value, names.value, tables.value)
    BY DEF Matching
  <2>2. CASE g = Current("graph")'
    <3>1. names = Current("id_info")' /\ tables = Current("table_ids")'
      BY <1>4, <1>5, <1>6, <1>7, <2>1, <2>2, FileNames
    <3>2. /\ g.value = graph' /\ names.value = id_names' /\ tables.value = source_ids'
      BY <1>6, <2>2, <3>1 DEF Representation
    <3>3. build.clean
      BY <1>6, <2>1, <2>2
    <3> QED BY <1>9, <3>2, <3>3
  <2>3. CASE g # Current("graph")'
    <3>1. g.by < build.by
      BY <1>4, <1>5, <2>3, FileNames
    <3>2. names # Current("id_info")' /\ tables # Current("table_ids")'
      BY <1>6, <1>7, <2>1, <3>1
    <3>3. /\ g \in Versions("graph") /\ names \in Versions("id_info")
          /\ tables \in Versions("table_ids")
      BY <1>4, <2>3, <3>2 DEF Versions
    <3> QED BY <2>1, <3>3 DEF LoadInv, Matching
  <2> QED BY <2>2, <2>3
<1> QED BY <1>2, <1>3, <1>8, <1>10 DEF LoadInv, Growing

\* A save writes contents that it was going to write.
LEMMA Saves ==
  ASSUME LoadInv, OpenFile \/ WriteFile
  PROVE  LoadInv'
<1> DEFINE f0 == Files[builder.file]
<1>1. /\ Saving /\ builder.pc # "down" /\ ~Building'
      /\ builder' = [pc |-> builder'.pc, file |-> builder'.file]
      /\ builder'.file \in 1..3
      /\ UNCHANGED <<store, scroll, id_names, source_ids, graph, build, loaded>>
  <2> USE DEF Saving, Building, LoadInv, Shapes
  <2>1. CASE OpenFile
    BY <2>1 DEF OpenFile, Goto
  <2>2. CASE WriteFile
    <3>1. /\ builder.pc = "write"
          /\ builder' = IF builder.file < 3 THEN [pc |-> "save", file |-> builder.file + 1]
                                            ELSE [pc |-> "done", file |-> 1]
          /\ UNCHANGED <<store, scroll, id_names, source_ids, graph, build, loaded>>
      BY <2>2 DEF WriteFile
    <3>2. builder'.pc \in {"save", "done"} /\ builder'.file \in 1..3
          /\ builder' = [pc |-> builder'.pc, file |-> builder'.file]
      BY <3>1
    <3> QED BY <3>1, <3>2
  <2> QED BY <2>1, <2>2
<1>2. f0 \in FileSet
  BY FileNames DEF LoadInv, Shapes
<1>3. \E c \in {Unreadable, Current(f0)} : disk' = [disk EXCEPT ![f0] = c]
  BY DEF OpenFile, WriteFile, Current
<1>4. PICK c \in {Unreadable, Current(f0)} : disk' = [disk EXCEPT ![f0] = c]
  BY <1>3
<1>5. c = [by |-> c.by, clean |-> c.clean, value |-> c.value]
  BY DEF Unreadable, Current
<1>6. /\ disk' = [f \in FileSet |-> disk'[f]]
      /\ disk'[f0] = c
      /\ \A f \in FileSet \ {f0} : disk'[f] = disk[f]
  BY <1>2, <1>4 DEF LoadInv, Shapes
<1>7. Shapes'
  BY <1>1, <1>5, <1>6, FileNames DEF LoadInv, Shapes
<1>8. \A f \in FileSet : Current(f)' = Current(f)
  BY <1>1 DEF Current, Representation
<1>9. \A f \in FileSet : Versions(f)' \subseteq Versions(f)
  BY <1>1, <1>6, <1>8 DEF Versions
<1>10. build.by <= build'.by
  BY <1>1 DEF LoadInv, Shapes
<1>11. Numbered' /\ Matching'
  BY <1>1, <1>7, <1>9, <1>10, FewerVersions DEF LoadInv
<1> QED BY <1>1, <1>7, <1>11 DEF LoadInv, Growing

LEMMA Stops ==
  ASSUME LoadInv, BuildRaises \/ StoreFails \/ ProcessEnds
  PROVE  LoadInv'
<1>1. /\ builder'.pc \in {"failed", "down"} /\ builder.pc # "down"
      /\ builder' = [pc |-> builder'.pc, file |-> builder'.file]
      /\ builder'.file \in 1..3
      /\ UNCHANGED <<store, build, disk, loaded>>
      /\ scroll' \subseteq scroll /\ id_names' \subseteq id_names
  <2> USE DEF LoadInv, Shapes
  <2>1. CASE BuildRaises
    BY <2>1 DEF BuildRaises, MustRaise, Goto
  <2>2. CASE StoreFails
    BY <2>2 DEF StoreFails, Goto
  <2>3. CASE ProcessEnds
    BY <2>3 DEF ProcessEnds
  <2> QED BY <2>1, <2>2, <2>3
<1>2. Shapes'
  BY <1>1 DEF LoadInv, Shapes
<1>3. ~Saving' /\ ~Building'
  BY <1>1 DEF Saving, Building
<1>4. Numbered' /\ Matching'
  BY <1>1, <1>2, <1>3, SameVersions DEF LoadInv
<1> QED BY <1>2, <1>3, <1>4 DEF LoadInv, Growing

LEMMA Reads ==
  ASSUME LoadInv, ReadFile \/ Reload
  PROVE  LoadInv'
<1>1. UNCHANGED <<store, stats, builderVars, disk, torn>>
  BY DEF ReadFile, Reload
<1>2. UNCHANGED <<builder, scroll, id_names, source_ids, graph, build>>
  BY <1>1 DEF builderVars
<1>3. /\ loaded' = [f \in FileSet |-> loaded'[f]]
      /\ \A f \in FileSet : loaded'[f] \in {Unreadable, disk[f], loaded[f]}
  BY FileNames DEF ReadFile, Reload, LoadInv, Shapes
<1>4. loaded'["table_ids"] = [by |-> loaded'["table_ids"].by,
                              clean |-> loaded'["table_ids"].clean,
                              value |-> loaded'["table_ids"].value]
  BY <1>3, FileNames DEF LoadInv, Shapes, Unreadable
<1>5. Shapes'
  BY <1>1, <1>2, <1>3, <1>4 DEF LoadInv, Shapes
<1>6. (Saving' <=> Saving) /\ (Building' <=> Building)
  BY <1>2 DEF Saving, Building
<1>7. \A f \in FileSet : Current(f)' = Current(f)
  BY <1>2 DEF Current, Representation
<1>8. \A f \in FileSet : Versions(f)' \subseteq Versions(f)
  BY <1>1, <1>3, <1>6, <1>7 DEF Versions
<1>9. build.by <= build'.by
  BY <1>2 DEF LoadInv, Shapes
<1>10. Numbered' /\ Matching'
  BY <1>5, <1>6, <1>8, <1>9, FewerVersions DEF LoadInv
<1>11. Growing'
  BY <1>2, <1>6 DEF LoadInv, Growing
<1> QED BY <1>5, <1>10, <1>11 DEF LoadInv

\* A lookup of an unknown table adds a table without fields, to the loaded
\* network only.
LEMMA Asks ==
  ASSUME LoadInv, NEW s, AskForTable(s)
  PROVE  LoadInv'
<1> DEFINE old == loaded["table_ids"]
           more == [by |-> old.by, clean |-> old.clean,
                    value |-> IF s \in DOMAIN old.value THEN old.value
                              ELSE Put(old.value, s, <<>>)]
<1>1. UNCHANGED <<store, builder, scroll, id_names, source_ids, graph, build, disk>>
  BY DEF AskForTable, builderVars
<1>2. /\ loaded' = [f \in FileSet |-> loaded'[f]]
      /\ loaded'["table_ids"] = more
      /\ \A f \in FileSet \ {"table_ids"} : loaded'[f] = loaded[f]
  BY FileNames DEF AskForTable, LoadInv, Shapes
<1>3. Shapes'
  BY <1>1, <1>2 DEF LoadInv, Shapes
<1>4. (Saving' <=> Saving) /\ (Building' <=> Building)
  BY <1>1 DEF Saving, Building
<1>5. \A f \in FileSet : Current(f)' = Current(f)
  BY <1>1 DEF Current, Representation
<1>6. \A f \in FileSet \ {"table_ids"} : Versions(f)' \subseteq Versions(f)
  BY <1>1, <1>2, <1>4, <1>5 DEF Versions
<1>7. Versions("table_ids")' \subseteq Versions("table_ids") \union {more}
  BY <1>1, <1>2, <1>4, <1>5, FileNames DEF Versions
<1>8. old \in Versions("table_ids")
  BY DEF Versions
<1>9. Numbered'
  <2>1. SUFFICES ASSUME NEW f \in FileSet, NEW v \in Versions(f)'
                 PROVE  /\ v.by \in Nat /\ v.by <= build.by
                        /\ v.clean => v.by >= 1
                        /\ Building => v.by < build.by
    BY <1>1, <1>4 DEF Numbered
  <2>2. CASE v \in Versions(f)
    BY <2>2 DEF LoadInv, Numbered
  <2>3. CASE v \notin Versions(f)
    <3>1. v.by = old.by /\ v.clean = old.clean
      BY <1>6, <1>7, <2>3
    <3>2. /\ old.by \in Nat /\ old.by <= build.by
          /\ old.clean => old.by >= 1
          /\ Building => old.by < build.by
      BY <1>8, FileNames DEF LoadInv, Numbered
    <3> QED BY <3>1, <3>2
  <2> QED BY <2>2, <2>3
<1>10. Matching'
  <2>1. SUFFICES ASSUME NEW g \in Versions("graph")',
                        NEW names \in Versions("id_info")',
                        NEW tables \in Versions("table_ids")',
                        g.clean, g.by = names.by, names.by = tables.by
                 PROVE  Whole(g.value, names.value, tables.value)
    BY DEF Matching
  <2>2. g \in Versions("graph") /\ names \in Versions("id_info")
    BY <1>6, FileNames
  <2>3. CASE tables \in Versions("table_ids")
    BY <2>1, <2>2, <2>3 DEF LoadInv, Matching
  <2>4. CASE tables \notin Versions("table_ids")
    <3>1. tables = more
      BY <1>7, <2>4
    <3>2. tables.by = old.by
      BY <3>1
    <3>3. Whole(g.value, names.value, old.value)
      BY <1>8, <2>1, <2>2, <3>2 DEF LoadInv, Matching
    <3>4. CASE s \in DOMAIN old.value
      BY <3>1, <3>3, <3>4
    <3>5. CASE s \notin DOMAIN old.value
      <4>1. tables.value = Put(old.value, s, <<>>)
        BY <3>1, <3>5
      <4> QED BY <3>3, <3>5, <4>1, WholeAsked
    <3> QED BY <3>4, <3>5
  <2> QED BY <2>3, <2>4
<1>11. Growing'
  BY <1>1, <1>4 DEF LoadInv, Growing
<1> QED BY <1>3, <1>9, <1>10, <1>11 DEF LoadInv

LEMMA LoadStep == LoadInv /\ [Next]_vars => LoadInv'
<1> SUFFICES ASSUME LoadInv, [Next]_vars PROVE LoadInv'
  OBVIOUS
<1>1. ASSUME UNCHANGED <<builderVars, disk, loaded>>, store' \subseteq Fields
      PROVE  LoadInv'
  <2>1. UNCHANGED <<builder, scroll, id_names, source_ids, graph, build>>
    BY <1>1 DEF builderVars
  <2>2. Shapes'
    BY <1>1, <2>1 DEF LoadInv, Shapes
  <2>3. (Saving' <=> Saving) /\ (Building' <=> Building)
    BY <2>1 DEF Saving, Building
  <2>4. \A f \in FileSet : Versions(f)' \subseteq Versions(f)
    BY <1>1, <2>1, <2>3 DEF Versions, Current, Representation
  <2>5. build.by <= build'.by
    BY <2>1 DEF LoadInv, Shapes
  <2>6. Numbered' /\ Matching'
    BY <2>2, <2>3, <2>4, <2>5, FewerVersions DEF LoadInv
  <2> QED BY <2>1, <2>2, <2>3, <2>6 DEF LoadInv, Growing
<1>2. store \subseteq Fields
  BY DEF LoadInv, Shapes
<1>3. CASE UNCHANGED vars
  BY <1>1, <1>2, <1>3 DEF vars
<1>4. ASSUME NEW f \in Late, ProfilerStores(f) PROVE LoadInv'
  BY <1>1, <1>2, <1>4, LateAssumption DEF ProfilerStores
<1>5. CASE StartBuild
  BY <1>5, StartsBuild
<1>6. CASE ReadField
  BY <1>6, ReadsField
<1>7. CASE EndOfScroll \/ BuildSchemaSim \/ BuildTextSim \/ BuildNumSim
  BY <1>7, MakesRelation
<1>8. CASE BuildPkfk
  BY <1>8, ComesToSave
<1>9. CASE OpenFile \/ WriteFile
  BY <1>9, Saves
<1>10. CASE BuildRaises \/ StoreFails \/ ProcessEnds
  BY <1>10, Stops
<1>11. CASE ReadFile \/ Reload
  BY <1>11, Reads
<1>12. ASSUME NEW s \in TableNames, AskForTable(s) PROVE LoadInv'
  BY <1>12, Asks
<1> QED BY <1>3, <1>4, <1>5, <1>6, <1>7, <1>8, <1>9, <1>10, <1>11, <1>12
        DEF Next, BuildStep

\* A network that a session has loaded is whole if its files come from one
\* build, the first of its process: whatever the profiler stored meanwhile,
\* whatever builds failed or were cut off before, and although the reader may
\* run while a save is under way (fieldnetwork.py 93-121, 417-442).
THEOREM LoadedNetworksAreWhole == Spec => []LoadedWhole
<1>1. LoadInv => LoadedWhole
  <2>1. /\ loaded["graph"] \in Versions("graph")
        /\ loaded["id_info"] \in Versions("id_info")
        /\ loaded["table_ids"] \in Versions("table_ids")
    BY DEF Versions
  <2> QED BY <2>1 DEF LoadInv, Matching, LoadedWhole
<1> QED BY <1>1, LoadInit, LoadStep, PTL DEF Spec

-----------------------------------------------------------------------------
(* The type of the state *)

\* What holds of the graph of every build, clean or not.
GraphShape(g) ==
  /\ g = [nodes |-> g.nodes, schemaSim |-> g.schemaSim,
          contentSim |-> g.contentSim, pkfk |-> g.pkfk]
  /\ DOMAIN g.nodes \subseteq Fields
  /\ DOMAIN g.contentSim \subseteq Pairs

TypeInv ==
  /\ stats \in StatsOf
  /\ builder.pc \in Phases
  /\ \A s \in DOMAIN source_ids : source_ids[s] \in Seq(Fields)
  /\ GraphShape(graph)
  /\ build.by <= MaxBuilds
  /\ reader \in 0..3

LEMMA ShapeInit == GraphShape(NewGraph)
BY DEF GraphShape, NewGraph, EmptyDict

LEMMA ShapeField ==
  ASSUME NEW g, GraphShape(g), NEW f \in Fields
  PROVE  /\ GraphShape(AddField(g, f))
         /\ AddField(g, f).contentSim = g.contentSim
<1>1. AddField(g, f) = [nodes |-> Put(g.nodes, f, CardinalityRatio(f)),
                        schemaSim |-> g.schemaSim, contentSim |-> g.contentSim,
                        pkfk |-> g.pkfk]
  BY DEF GraphShape, AddField
<1>2. DOMAIN Put(g.nodes, f, CardinalityRatio(f)) \subseteq Fields
  BY DEF Put, GraphShape
<1> QED BY <1>1, <1>2 DEF GraphShape

LEMMA ShapeNodes ==
  ASSUME NEW g, GraphShape(g), NEW fs \in SUBSET Fields
  PROVE  LET k == AddNodes(g, fs)
         IN  /\ GraphShape(k)
             /\ k.schemaSim = g.schemaSim /\ k.contentSim = g.contentSim
             /\ k.pkfk = g.pkfk
<1> DEFINE ns == [f \in DOMAIN g.nodes \union fs |->
                    IF f \in DOMAIN g.nodes THEN g.nodes[f] ELSE NoAttribute]
<1>1. DOMAIN ns \subseteq Fields
  BY DEF GraphShape
<1>2. AddNodes(g, fs) = [g EXCEPT !.nodes = ns]
  BY DEF AddNodes
<1> HIDE DEF ns
<1>3. AddNodes(g, fs) = [nodes |-> ns, schemaSim |-> g.schemaSim,
                         contentSim |-> g.contentSim, pkfk |-> g.pkfk]
  BY <1>2 DEF GraphShape
<1> QED BY <1>1, <1>3 DEF GraphShape

LEMMA ShapeContent ==
  ASSUME NEW g, GraphShape(g), NEW new, DOMAIN new \subseteq Pairs
  PROVE  LET k == [g EXCEPT !.contentSim = new]
         IN  GraphShape(k) /\ k.contentSim = new
<1>1. [g EXCEPT !.contentSim = new] =
        [nodes |-> g.nodes, schemaSim |-> g.schemaSim, contentSim |-> new,
         pkfk |-> g.pkfk]
  BY DEF GraphShape
<1> QED BY <1>1 DEF GraphShape

LEMMA PairsOfFields == \A ps \in SUBSET Pairs : UNION ps \in SUBSET Fields
BY DEF Pairs

LEMMA ShapeSchemaSim ==
  ASSUME NEW g, GraphShape(g), NEW pairs \in SUBSET (SUBSET Fields)
  PROVE  /\ GraphShape(SchemaSim(g, pairs))
         /\ SchemaSim(g, pairs).contentSim = g.contentSim
<1> DEFINE k == AddNodes(g, UNION pairs)
<1>1. GraphShape(k) /\ k.contentSim = g.contentSim
  BY ShapeNodes
<1>2. SchemaSim(g, pairs) = [k EXCEPT !.schemaSim = k.schemaSim \union pairs]
  BY DEF SchemaSim
<1> HIDE DEF k
<1>3. SchemaSim(g, pairs) =
        [nodes |-> k.nodes, schemaSim |-> k.schemaSim \union pairs,
         contentSim |-> k.contentSim, pkfk |-> k.pkfk]
  BY <1>1, <1>2 DEF GraphShape
<1> QED BY <1>1, <1>3 DEF GraphShape

LEMMA ShapeTextSim ==
  ASSUME NEW g, GraphShape(g), NEW pairs \in SUBSET Pairs
  PROVE  /\ GraphShape(TextContentSim(g, pairs))
         /\ DOMAIN TextContentSim(g, pairs).contentSim =
              DOMAIN g.contentSim \union pairs
<1> DEFINE k == AddNodes(g, UNION pairs)
           new == [p \in DOMAIN k.contentSim \union pairs |->
                     IF p \in pairs THEN <<1, 1>> ELSE k.contentSim[p]]
<1>1. GraphShape(k) /\ k.contentSim = g.contentSim
  BY ShapeNodes, PairsOfFields
<1>2. TextContentSim(g, pairs) = [k EXCEPT !.contentSim = new]
  BY DEF TextContentSim
<1>3. DOMAIN new = DOMAIN g.contentSim \union pairs
  BY <1>1
<1>4. DOMAIN new \subseteq Pairs
  BY <1>3 DEF GraphShape
<1> HIDE DEF k, new
<1> QED BY <1>1, <1>2, <1>3, <1>4, ShapeContent

LEMMA ShapeNumSim ==
  ASSUME NEW g, GraphShape(g), NEW overlap, DOMAIN overlap \subseteq Pairs,
         NEW clustered \in SUBSET Pairs
  PROVE  /\ GraphShape(NumContentSim(g, overlap, clustered))
         /\ DOMAIN NumContentSim(g, overlap, clustered).contentSim =
              DOMAIN g.contentSim \union DOMAIN overlap \union clustered
<1> DEFINE old == g.contentSim
           new == [p \in DOMAIN old \union DOMAIN overlap \union clustered |->
                     IF p \in clustered THEN <<7, 10>>
                     ELSE IF p \in DOMAIN overlap THEN overlap[p] ELSE old[p]]
           k == AddNodes(g, UNION DOMAIN new)
<1>1. DOMAIN new = DOMAIN g.contentSim \union DOMAIN overlap \union clustered
  OBVIOUS
<1>2. NumContentSim(g, overlap, clustered) = [k EXCEPT !.contentSim = new]
  BY DEF NumContentSim
<1> HIDE DEF new
<1>3. DOMAIN new \subseteq Pairs
  BY <1>1 DEF GraphShape
<1>4. GraphShape(k)
  BY <1>3, ShapeNodes, PairsOfFields
<1> HIDE DEF k
<1> QED BY <1>1, <1>2, <1>3, <1>4, ShapeContent

LEMMA ShapePkfk ==
  ASSUME NEW g, GraphShape(g), NEW names
  PROVE  GraphShape(Pkfk(g, names))
<1> DEFINE found == {{f, h} : f \in {k \in names : IsKey(g, k)}, h \in names}
                      \cap DOMAIN g.contentSim
           keys == [p \in found |-> LET f == CHOOSE x \in p : TRUE
                                        h == CHOOSE x \in p : x # f
                                    IN  Highest(g, f, h)]
<1>1. Pkfk(g, names) = [g EXCEPT !.pkfk = keys]
  BY DEF Pkfk
<1> HIDE DEF keys
<1>2. Pkfk(g, names) = [nodes |-> g.nodes, schemaSim |-> g.schemaSim,
                        contentSim |-> g.contentSim, pkfk |-> keys]
  BY <1>1 DEF GraphShape
<1> QED BY <1>2 DEF GraphShape

LEMMA ListTyped ==
  ASSUME NEW tables, \A s \in DOMAIN tables : tables[s] \in Seq(Fields),
         NEW f \in Fields
  PROVE  \A s \in DOMAIN ListField(tables, f) : ListField(tables, f)[s] \in Seq(Fields)
<1> DEFINE sn == Profile[f].sourceName
           more == IF sn \in DOMAIN tables THEN Append(tables[sn], f) ELSE <<f>>
<1>1. more \in Seq(Fields)
  OBVIOUS
<1>2. ListField(tables, f) = Put(tables, sn, more)
  BY DEF ListField
<1> HIDE DEF more
<1> QED BY <1>1, <1>2 DEF Put

LEMMA TypeInit == Init => TypeInv
<1> SUFFICES ASSUME Init PROVE TypeInv
  OBVIOUS
<1>1. stats \in StatsOf /\ builder.pc = "down" /\ source_ids = EmptyDict
      /\ graph = NewGraph /\ build.by = 0 /\ reader = 0
  BY DEF Init
<1>2. \A s \in DOMAIN source_ids : FALSE
  BY <1>1 DEF EmptyDict
<1> QED BY <1>1, <1>2, ShapeInit, BuildsAssumption DEF TypeInv, Phases

LEMMA TypeStep == LoadInv /\ TypeInv /\ [Next]_vars => TypeInv'
<1> SUFFICES ASSUME LoadInv, TypeInv, [Next]_vars PROVE TypeInv'
  OBVIOUS
<1>0. /\ builder = [pc |-> builder.pc, file |-> builder.file]
      /\ scroll \subseteq Fields /\ id_names \subseteq Fields
      /\ build.by \in Nat
  BY DEF LoadInv, Shapes
<1>1. CASE UNCHANGED vars
  BY <1>1 DEF vars, builderVars, TypeInv
<1>2. ASSUME NEW f \in Late, ProfilerStores(f) PROVE TypeInv'
  BY <1>2 DEF ProfilerStores, builderVars, TypeInv
<1>3. CASE StartBuild
  BY <1>0, <1>3, ShapeInit, BuildsAssumption DEF StartBuild, Goto, TypeInv, Phases
<1>4. CASE ReadField
  <2>1. PICK f \in scroll :
          source_ids' = ListField(source_ids, f) /\ graph' = AddField(graph, f)
    BY <1>4 DEF ReadField
  <2>2. UNCHANGED <<stats, builder, build, reader>>
    BY <1>4 DEF ReadField
  <2>3. GraphShape(graph')
    BY <1>0, <2>1, ShapeField DEF TypeInv
  <2>4. \A s \in DOMAIN source_ids' : source_ids'[s] \in Seq(Fields)
    BY <1>0, <2>1, ListTyped DEF TypeInv
  <2> QED BY <2>2, <2>3, <2>4 DEF TypeInv
<1>5. CASE EndOfScroll \/ OpenFile \/ BuildRaises \/ StoreFails
  BY <1>0, <1>5 DEF EndOfScroll, OpenFile, BuildRaises, StoreFails, Goto, TypeInv, Phases
<1>6. CASE BuildSchemaSim
  <2>1. PICK pairs \in SimilarName :
          graph' = SchemaSim(graph, {p \in pairs : p \subseteq id_names})
    BY <1>6 DEF BuildSchemaSim
  <2>2. GraphShape(graph')
    BY <1>0, <2>1, ShapeSchemaSim DEF TypeInv
  <2> QED BY <1>0, <1>6, <2>2 DEF BuildSchemaSim, Goto, TypeInv, Phases
<1>7. CASE BuildTextSim
  <2>1. PICK pairs \in SimilarText :
          graph' = TextContentSim(graph, {p \in pairs : p \subseteq id_names \cap Text})
    BY <1>7 DEF BuildTextSim
  <2>2. GraphShape(graph')
    BY <2>1, SimilarAssumption, ShapeTextSim DEF TypeInv
  <2> QED BY <1>0, <1>7, <2>2 DEF BuildTextSim, Goto, TypeInv, Phases
<1>8. CASE BuildNumSim
  <2>1. graph' = NumContentSim(graph, OverlapScores(stats, NumSignatures),
                               ClusterPairs(stats, SinglePoints(stats, NumSignatures)))
    BY <1>8 DEF BuildNumSim
  <2>2. GraphShape(graph')
    BY <2>1, OverlapTyped, ClusterTyped, ShapeNumSim DEF TypeInv
  <2> QED BY <1>0, <1>8, <2>2 DEF BuildNumSim, Goto, TypeInv, Phases
<1>9. CASE BuildPkfk
  <2>1. GraphShape(graph')
    BY <1>9, ShapePkfk DEF BuildPkfk, TypeInv
  <2> QED BY <1>9, <2>1 DEF BuildPkfk, TypeInv, Phases
<1>10. CASE WriteFile
  <2>1. builder'.pc \in {"save", "done"}
        /\ UNCHANGED <<stats, source_ids, graph, build, reader>>
    BY <1>10 DEF WriteFile
  <2> QED BY <2>1 DEF TypeInv, Phases
<1>11. CASE ProcessEnds
  <2>1. source_ids' = EmptyDict /\ graph' = NewGraph /\ builder'.pc = "down"
        /\ UNCHANGED <<stats, build, reader>>
    BY <1>11 DEF ProcessEnds
  <2>2. \A s \in DOMAIN source_ids' : FALSE
    BY <2>1 DEF EmptyDict
  <2> QED BY <2>1, <2>2, ShapeInit DEF TypeInv, Phases
<1>12. CASE ReadFile \/ Reload \/ \E s \in TableNames : AskForTable(s)
  <2>1. reader' \in 0..3 /\ UNCHANGED <<stats, builderVars>>
    BY <1>12 DEF ReadFile, Reload, AskForTable, TypeInv
  <2> QED BY <2>1 DEF builderVars, TypeInv
<1> QED BY <1>1, <1>2, <1>3, <1>4, <1>5, <1>6, <1>7, <1>8, <1>9, <1>10, <1>11, <1>12
        DEF Next, BuildStep

\* Every variable keeps its type, in the builds whose dictionaries were not
\* empty as well.
THEOREM TypeCorrect == Spec => []TypeOK
<1>1. LoadInv /\ FilesInv /\ TypeInv => TypeOK
  <2> SUFFICES ASSUME LoadInv, FilesInv, TypeInv PROVE TypeOK
    OBVIOUS
  <2>1. build \in [by : 0..MaxBuilds, clean : BOOLEAN]
    BY BuildsAssumption DEF LoadInv, Shapes, TypeInv
  <2>2. DOMAIN disk = FileSet /\ DOMAIN loaded = FileSet
    BY DEF LoadInv, Shapes
  <2> QED BY <2>1, <2>2 DEF LoadInv, Shapes, FilesInv, TypeInv, GraphShape, TypeOK
<1> QED BY <1>1, LoadInit, LoadStep, FilesInit, FilesStep, TypeInit, TypeStep, PTL
        DEF Spec

-----------------------------------------------------------------------------
(* The sorted search with its early break *)

Ranged(st, fs) == \A f \in fs : st[f].left \in Int /\ st[f].right \in Int

\* The break leaves out the candidates that are too short for the reference
\* field, and no others: the sort is what makes it safe.
LEMMA ReachedAreLong ==
  ASSUME NEW st, NEW fs, Ranged(st, fs), NEW ref \in fs, NEW f \in fs, f # ref
  PROVE  f \in Reached(st, fs, ref) <=> 10 * Span(st[f]) > 7 * Span(st[ref])
<1>1. \A h \in fs : Span(st[h]) \in Int
  BY DEF Ranged, Span
<1>2. ASSUME f \in Reached(st, fs, ref)
      PROVE  10 * Span(st[f]) > 7 * Span(st[ref])
  <2>1. Before(st, f, f)
    BY <1>1 DEF Before
  <2> QED BY <1>2, <2>1 DEF Reached
<1>3. ASSUME 10 * Span(st[f]) > 7 * Span(st[ref]), NEW h \in fs \ {ref}, Before(st, h, f)
      PROVE  10 * Span(st[h]) > 7 * Span(st[ref])
  BY <1>1, <1>3 DEF Before
<1> QED BY <1>2, <1>3 DEF Reached

\* One of two fields, as the reference, takes in the other.
TakesIn(r, c) ==
  /\ 10 * Span(c) > 7 * Span(r)
  /\ SharedLength(c, r) >= 0
  /\ 10 * SharedLength(c, r) >= 7 * Span(r)

LEMMA ConnectsTakesIn ==
  ASSUME NEW st, NEW fs, Ranged(st, fs), NEW ref \in fs, NEW f \in fs, f # ref,
         Span(st[ref]) > 0
  PROVE  Connects(st, fs, ref, f) <=> TakesIn(st[ref], st[f])
<1>1. Span(st[ref]) # 0
  BY DEF Ranged, Span
<1> QED BY <1>1, ReachedAreLong DEF Connects, TakesIn

\* The search with its three cases, from either side, decides what the
\* property says of two ranges.
LEMMA TakingInIsSimilar ==
  ASSUME NEW r, NEW s, r.left \in Int, r.right \in Int, s.left \in Int, s.right \in Int,
         Span(r) > 0, Span(s) > 0
  PROVE  TakesIn(r, s) \/ TakesIn(s, r) <=> SimilarRanges(r, s)
<1> DEFINE a == r.left
           b == r.right
           c == s.left
           d == s.right
<1>1. /\ a \in Int /\ b \in Int /\ c \in Int /\ d \in Int
      /\ Span(r) = b - a /\ Span(s) = d - c /\ b - a > 0 /\ d - c > 0
  BY DEF Span
<1>2. CASE Span(r) >= Span(s)
  <2>1. SimilarRanges(r, s) <=>
          IF c > a /\ d < b THEN 10 * (d - c) > 7 * (b - a)
                            ELSE 10 * Overlap(r, s) >= 7 * (d - c)
    BY <1>1, <1>2 DEF SimilarRanges
  <2> QED BY <1>1, <1>2, <2>1
          DEF TakesIn, SharedLength, Contained, StartsIn, EndsIn, Overlap, LesserMax
<1>3. CASE Span(r) < Span(s)
  <2>1. r # s
    BY <1>1, <1>3
  <2>2. SimilarRanges(r, s) <=>
          IF a > c /\ b < d THEN 10 * (b - a) > 7 * (d - c)
                            ELSE 10 * Overlap(r, s) >= 7 * (b - a)
    BY <1>1, <1>3, <2>1 DEF SimilarRanges
  <2> QED BY <1>1, <1>3, <2>2
          DEF TakesIn, SharedLength, Contained, StartsIn, EndsIn, Overlap, LesserMax
<1> QED BY <1>1, <1>2, <1>3

\* The pairs that the two sorts of numeric relations join.
LEMMA OverlapPairs ==
  ASSUME NEW st, NEW fs \in SUBSET Fields, Ranged(st, fs), NEW f \in fs, NEW h \in fs,
         f # h, Span(st[f]) > 0, Span(st[h]) > 0
  PROVE  {f, h} \in DOMAIN OverlapScores(st, fs) <=> SimilarRanges(st[f], st[h])
<1> DEFINE refs == {ref \in {f, h} : \E k \in {f, h} : Connects(st, fs, ref, k)}
<1>1. {f, h} \in Pairs /\ {f, h} \subseteq fs
  BY DEF Pairs
<1>2. {f, h} \in DOMAIN OverlapScores(st, fs) <=> refs # {}
  BY <1>1 DEF OverlapScores
<1>3. refs # {} <=> Connects(st, fs, f, h) \/ Connects(st, fs, h, f)
  <2>1. ~Connects(st, fs, f, f) /\ ~Connects(st, fs, h, h)
    BY DEF Connects
  <2> QED BY <2>1
<1>4. Connects(st, fs, f, h) \/ Connects(st, fs, h, f)
        <=> TakesIn(st[f], st[h]) \/ TakesIn(st[h], st[f])
  BY ConnectsTakesIn
<1>5. TakesIn(st[f], st[h]) \/ TakesIn(st[h], st[f]) <=> SimilarRanges(st[f], st[h])
  BY TakingInIsSimilar DEF Ranged
<1> QED BY <1>2, <1>3, <1>4, <1>5

LEMMA ClusterPoints ==
  ASSUME NEW st, NEW fs, NEW f, NEW h,
         {f, h} \in ClusterPairs(st, SinglePoints(st, fs))
  PROVE  Span(st[f]) = 0
BY DEF ClusterPairs, SinglePoints

\* The names of a process are of stored fields, numeric fields have no edge
\* before their phase, and in the next one they have those they should have.
SimilarInv ==
  /\ scroll \subseteq store /\ id_names \subseteq store
  /\ builder.pc \in {"skeleton", "schemaSim", "textSim", "numSim"} =>
       \A p \in DOMAIN graph.contentSim : p \subseteq Text
  /\ SimilarWhenRangesShare

LEMMA SimilarInit == Init => SimilarInv
BY DEF Init, SimilarInv, SimilarWhenRangesShare

LEMMA StatsRanged ==
  ASSUME stats \in StatsOf
  PROVE  Ranged(stats, Numeric)
BY RangesAssumption DEF StatsOf, Ranged

\* The query for the numeric signatures comes later than the one for the
\* fields: it brings the fields the profiler stored in between, which have no
\* name, and then the build raises.
LEMMA NumbersSimilar ==
  ASSUME LoadInv, TypeInv, SimilarInv, BuildNumSim
  PROVE  SimilarInv'
<1> DEFINE fs == NumSignatures
           overlap == OverlapScores(stats, fs)
           clustered == ClusterPairs(stats, SinglePoints(stats, fs))
<1>1. /\ graph' = NumContentSim(graph, overlap, clustered)
      /\ builder.pc = "numSim" /\ builder'.pc = "pkfk"
      /\ UNCHANGED <<store, stats, scroll, id_names>>
  BY DEF BuildNumSim, Goto, LoadInv, Shapes
<1>2. fs = Numeric \intersect id_names
  BY DEF BuildNumSim, NumRaises, NumSignatures, SimilarInv
<1>3. fs \in SUBSET Fields /\ Ranged(stats, fs)
  BY <1>2, StatsRanged DEF Numeric, TypeInv, Ranged
<1>4. DOMAIN graph'.contentSim =
        DOMAIN graph.contentSim \union DOMAIN overlap \union clustered
  BY <1>1, OverlapTyped, ClusterTyped, ShapeNumSim DEF TypeInv
<1>5. ASSUME NEW f \in Numeric \intersect id_names, NEW h \in Numeric \intersect id_names,
             f # h, Span(stats[f]) > 0, Span(stats[h]) > 0
      PROVE  {f, h} \in DOMAIN graph'.contentSim <=> SimilarRanges(stats[f], stats[h])
  <2>1. {f, h} \notin DOMAIN graph.contentSim
    BY <1>1 DEF SimilarInv, Numeric, Text
  <2>2. {f, h} \notin clustered
    <3>1. Span(stats[f]) # 0
      BY <1>2, <1>3, <1>5 DEF Ranged, Span
    <3> QED BY <3>1, ClusterPoints
  <2>3. {f, h} \in DOMAIN overlap <=> SimilarRanges(stats[f], stats[h])
    BY <1>2, <1>3, <1>5, OverlapPairs
  <2> HIDE DEF overlap, clustered
  <2> QED BY <1>4, <2>1, <2>2, <2>3
<1>6. SimilarWhenRangesShare'
  BY <1>1, <1>5 DEF SimilarWhenRangesShare
<1> QED BY <1>1, <1>6 DEF SimilarInv

LEMMA SimilarStep == LoadInv /\ TypeInv /\ SimilarInv /\ [Next]_vars => SimilarInv'
<1> SUFFICES ASSUME LoadInv, TypeInv, SimilarInv, [Next]_vars PROVE SimilarInv'
  OBVIOUS
<1>0. builder = [pc |-> builder.pc, file |-> builder.file]
  BY DEF LoadInv, Shapes
<1>1. CASE UNCHANGED vars
  BY <1>1 DEF vars, builderVars, SimilarInv, SimilarWhenRangesShare
<1>2. ASSUME NEW f \in Late, ProfilerStores(f) PROVE SimilarInv'
  BY <1>2 DEF ProfilerStores, builderVars, SimilarInv, SimilarWhenRangesShare
<1>3. CASE StartBuild
  <2>1. DOMAIN NewGraph.contentSim = {}
    BY DEF NewGraph, EmptyDict
  <2> QED BY <1>0, <1>3, <2>1 DEF StartBuild, Goto, SimilarInv, SimilarWhenRangesShare
<1>4. CASE ReadField
  <2>1. PICK f \in scroll :
          /\ scroll' = scroll \ {f} /\ id_names' = id_names \union {f}
          /\ graph' = AddField(graph, f)
    BY <1>4 DEF ReadField, NameField
  <2>2. f \in Fields
    BY DEF LoadInv, Shapes
  <2>3. graph'.contentSim = graph.contentSim
    BY <2>1, <2>2, ShapeField DEF TypeInv
  <2> QED BY <1>4, <2>1, <2>3 DEF ReadField, SimilarInv, SimilarWhenRangesShare
<1>5. CASE EndOfScroll
  BY <1>0, <1>5 DEF EndOfScroll, Goto, SimilarInv, SimilarWhenRangesShare
<1>6. CASE BuildSchemaSim
  <2>1. PICK pairs \in SimilarName :
          graph' = SchemaSim(graph, {p \in pairs : p \subseteq id_names})
    BY <1>6 DEF BuildSchemaSim
  <2>2. {p \in pairs : p \subseteq id_names} \in SUBSET (SUBSET Fields)
    BY DEF LoadInv, Shapes
  <2>3. graph'.contentSim = graph.contentSim
    BY <2>1, <2>2, ShapeSchemaSim DEF TypeInv
  <2> QED BY <1>0, <1>6, <2>3
          DEF BuildSchemaSim, Goto, SimilarInv, SimilarWhenRangesShare
<1>7. CASE BuildTextSim
  <2>1. PICK pairs \in SimilarText :
          graph' = TextContentSim(graph, {p \in pairs : p \subseteq id_names \cap Text})
    BY <1>7 DEF BuildTextSim
  <2>2. DOMAIN graph'.contentSim =
          DOMAIN graph.contentSim \union {p \in pairs : p \subseteq id_names \cap Text}
    BY <2>1, SimilarAssumption, ShapeTextSim DEF TypeInv
  <2> QED BY <1>0, <1>7, <2>2
          DEF BuildTextSim, Goto, SimilarInv, SimilarWhenRangesShare
<1>8. CASE BuildNumSim
  BY <1>8, NumbersSimilar
<1>9. CASE BuildPkfk
  BY <1>9 DEF BuildPkfk, SimilarInv, SimilarWhenRangesShare
<1>10. CASE OpenFile \/ BuildRaises \/ StoreFails
  BY <1>0, <1>10 DEF OpenFile, BuildRaises, StoreFails, Goto, SimilarInv,
                     SimilarWhenRangesShare
<1>11. CASE WriteFile
  <2>1. builder'.pc \in {"save", "done"} /\ UNCHANGED <<store, scroll, id_names>>
    BY <1>11 DEF WriteFile
  <2> QED BY <2>1 DEF SimilarInv, SimilarWhenRangesShare
<1>12. CASE ProcessEnds
  BY <1>12 DEF ProcessEnds, SimilarInv, SimilarWhenRangesShare
<1>13. CASE ReadFile \/ Reload \/ \E s \in TableNames : AskForTable(s)
  <2>1. UNCHANGED <<store, stats, builderVars>>
    BY <1>13 DEF ReadFile, Reload, AskForTable
  <2> QED BY <2>1 DEF builderVars, SimilarInv, SimilarWhenRangesShare
<1> QED BY <1>1, <1>2, <1>3, <1>4, <1>5, <1>6, <1>7, <1>8, <1>9, <1>10, <1>11, <1>12,
           <1>13 DEF Next, BuildStep

\* The sorted search with its early break and its three cases relates two
\* numeric fields exactly when their ranges share enough, also when the
\* profiler stores fields during the build and in a later build of a process
\* (networkbuilder.py 189-245, networkbuildercoordinator.py 57-71).
THEOREM RangesDecideSimilarity == Spec => []SimilarWhenRangesShare
<1>1. SimilarInv => SimilarWhenRangesShare
  BY DEF SimilarInv
<1> QED BY <1>1, LoadInit, LoadStep, TypeInit, TypeStep, SimilarInit, SimilarStep, PTL
        DEF Spec
=============================================================================
