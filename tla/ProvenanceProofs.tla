-------------------------- MODULE ProvenanceProofs --------------------------
(***************************************************************************)
(* Every result is explained by the provenance graph it carries, for any   *)
(* network, any number of result sets and any sequence of calls.           *)
(*                                                                         *)
(* A set S of nodes that holds what a chain of calls began with and all    *)
(* that its edges lead to is cut with the nodes of each graph an operation *)
(* merges: the cut is closed in that graph, because its edges stay among   *)
(* its nodes (Grounded), and so it is all of it.                           *)
(***************************************************************************)
EXTENDS Provenance, TLAPS

\* An edge leads to a field: nothing leads to the node of a keyword search.
DrsType == [data : SUBSET Fields, nodes : SUBSET Nodes,
            edges : SUBSET (Nodes \X Fields \X Labels), given : SUBSET Nodes]

\* What is to be shown of every result set.
Sound(d) == d \in DrsType /\ Grounded(d) /\ Explained(d)

Sounds == \A o \in Objects : Sound(drs[o])
Bounds == drs \in [Objects -> DrsType] /\ used \subseteq Lookups /\ calls \in 0..MaxCalls

Invariant == Bounds /\ Sounds

-----------------------------------------------------------------------------
\* A closed set that holds what the chain began with holds the whole graph.
LEMMA ClosedHoldsAll ==
  ASSUME NEW d, Sound(d), NEW S, d.given \subseteq S, Closed(d, S)
  PROVE  d.nodes \subseteq S
<1> DEFINE T == S \intersect d.nodes
<1>1. T \in SUBSET d.nodes
  OBVIOUS
<1>2. d.given \subseteq T
  BY DEF Sound, Grounded
<1>3. Closed(d, T)
  BY DEF Sound, Grounded, Closed
<1>4. T = d.nodes
  BY <1>1, <1>2, <1>3 DEF Sound, Explained
<1> QED
  BY <1>4

\* What a primitive finds stays among the fields.
LEMMA FoundType ==
  ASSUME NEW S \in SUBSET Fields, NEW op \in Operations
  PROVE  /\ UNION {Found[op][f] : f \in S} \subseteq Fields
         /\ FoundNodes(S, op) \subseteq Nodes
         /\ FoundEdges(S, op) \subseteq Nodes \X Fields \X Labels
<1>1. \A f \in S : Found[op][f] \subseteq Fields
  BY FoundAssumption
<1>2. UNION {Found[op][f] : f \in S} \subseteq Fields
  BY <1>1
<1>3. FoundNodes(S, op) \subseteq Nodes
  BY <1>2 DEF FoundNodes, Nodes
<1>4. FoundEdges(S, op) \subseteq Nodes \X Fields \X Labels
  BY <1>1 DEF FoundEdges, Nodes, Labels
<1> QED
  BY <1>2, <1>3, <1>4

-----------------------------------------------------------------------------
(* One lemma per way in which a call makes a result set *)

\* Fields the client hands in explain themselves.
LEMMA OriginSound ==
  ASSUME NEW S \in SUBSET Fields
  PROVE  Sound(New(S, S, {}, S))
  BY DEF Sound, New, DrsType, Grounded, Explained, Nodes

\* A search is explained by the node made for it.
LEMMA LookupSound ==
  ASSUME NEW S \in SUBSET Fields, NEW k \in Lookups
  PROVE  Sound(New(S, S \union {k}, {<<k, f, "LOOKUP">> : f \in S}, {k}))
<1> DEFINE d == New(S, S \union {k}, {<<k, f, "LOOKUP">> : f \in S}, {k})
<1>1. d \in DrsType
  BY DEF New, DrsType, Nodes, Labels
<1>2. Grounded(d)
  BY DEF New, Grounded
<1>3. ASSUME NEW T \in SUBSET d.nodes, d.given \subseteq T, Closed(d, T)
      PROVE  T = d.nodes
  <2>1. \A f \in S : <<k, f, "LOOKUP">> \in d.edges
    BY DEF New
  <2>2. \A f \in S : f \in T
    BY <1>3, <2>1 DEF Closed, New
  <2> QED
    BY <1>3, <2>2 DEF New
<1> QED
  BY <1>1, <1>2, <1>3 DEF Sound, Explained

\* A primitive takes the provenance of its input along, and what it finds for
\* its input is explained by its input.
LEMMA AnswerSound ==
  ASSUME NEW d, Sound(d), NEW op \in Operations
  PROVE  Sound(Answer(d, op))
<1> DEFINE base == d.data
           out  == Answer(d, op)
<1>1. base \in SUBSET Fields /\ base \subseteq d.nodes
  BY DEF Sound, DrsType, Grounded
<1>2. out = New(UNION {Found[op][f] : f \in base},
                d.nodes \union FoundNodes(base, op),
                d.edges \union FoundEdges(base, op), d.given)
  BY DEF Answer
<1> HIDE DEF base, out
<1>3. out \in DrsType
  BY <1>1, <1>2, FoundType DEF New, DrsType, Sound
<1>4. \A f \in base : \A g \in Found[op][f] :
        f \in FoundNodes(base, op) /\ g \in FoundNodes(base, op)
  BY DEF FoundNodes
<1>5. \A e \in FoundEdges(base, op) : e[1] \in FoundNodes(base, op)
                                      /\ e[2] \in FoundNodes(base, op)
  BY <1>4 DEF FoundEdges
<1>6. UNION {Found[op][f] : f \in base} \subseteq FoundNodes(base, op)
  BY DEF FoundNodes
<1>7. Grounded(out)
  BY <1>2, <1>5, <1>6 DEF New, Grounded, Sound
<1>8. ASSUME NEW S \in SUBSET out.nodes, out.given \subseteq S, Closed(out, S)
      PROVE  S = out.nodes
  <2>1. d.given \subseteq S /\ Closed(d, S)
    BY <1>2, <1>8 DEF New, Closed
  <2>2. d.nodes \subseteq S
    BY <2>1, ClosedHoldsAll
  <2>3. ASSUME NEW f \in base, NEW g \in Found[op][f]
        PROVE  g \in S
    <3>1. <<f, g, op>> \in FoundEdges(base, op)
      BY DEF FoundEdges
    <3>2. <<f, g, op>> \in out.edges
      BY <1>2, <3>1 DEF New
    <3> QED
      BY <1>1, <1>8, <2>2, <3>2 DEF Closed
  <2>4. FoundNodes(base, op) \subseteq S
    BY <1>1, <2>2, <2>3 DEF FoundNodes
  <2> QED
    BY <1>2, <1>8, <2>2, <2>4 DEF New
<1>9. Sound(out)
  BY <1>3, <1>7, <1>8 DEF Sound, Explained
<1> QED
  BY <1>9 DEF out

\* The expansion to tables begins a chain with the fields of its input: it
\* answers as for fields the client handed in.
LEMMA ExpansionSound ==
  ASSUME NEW S \in SUBSET Fields
  PROVE  Sound(New(UNION {Found["TABLE"][f] : f \in S}, FoundNodes(S, "TABLE"),
                   FoundEdges(S, "TABLE"), S))
<1> DEFINE d == New(S, S, {}, S)
<1>1. "TABLE" \in Operations
  BY OperationsAssumption
<1>2. Sound(Answer(d, "TABLE"))
  BY <1>1, OriginSound, AnswerSound
<1>3. S \union FoundNodes(S, "TABLE") = FoundNodes(S, "TABLE")
  BY DEF FoundNodes
<1>4. d.data = S /\ d.nodes = S /\ d.edges = {} /\ d.given = S
  BY DEF New
<1>5. Answer(d, "TABLE") =
        New(UNION {Found["TABLE"][f] : f \in S}, FoundNodes(S, "TABLE"),
            FoundEdges(S, "TABLE"), S)
  BY <1>3, <1>4 DEF Answer
<1> QED
  BY <1>2, <1>5

\* Merging two graphs explains whatever part of the results is kept.
LEMMA AbsorbSound ==
  ASSUME NEW d, NEW e, Sound(d), Sound(e),
         NEW data \in SUBSET (d.data \union e.data)
  PROVE  Sound(Absorb(d, e, data))
<1> DEFINE out == Absorb(d, e, data)
<1>1. out = New(data, d.nodes \union e.nodes, d.edges \union e.edges,
                d.given \union e.given)
  BY DEF Absorb
<1> HIDE DEF out
<1>2. out \in DrsType
  BY <1>1 DEF Sound, DrsType, New
<1>3. Grounded(out)
  BY <1>1 DEF Sound, Grounded, New
<1>4. ASSUME NEW S \in SUBSET out.nodes, out.given \subseteq S, Closed(out, S)
      PROVE  S = out.nodes
  <2>1. d.given \subseteq S /\ Closed(d, S)
    BY <1>1, <1>4 DEF Closed, New
  <2>2. e.given \subseteq S /\ Closed(e, S)
    BY <1>1, <1>4 DEF Closed, New
  <2>3. d.nodes \subseteq S
    BY <2>1, ClosedHoldsAll
  <2>4. e.nodes \subseteq S
    BY <2>2, ClosedHoldsAll
  <2> QED
    BY <1>1, <1>4, <2>3, <2>4 DEF New
<1>5. Sound(out)
  BY <1>2, <1>3, <1>4 DEF Sound, Explained
<1> QED
  BY <1>5 DEF out

\* A graph that began with searches has a leaf for each, and each result is
\* reached from one.
LEMMA SoundIsCovered ==
  ASSUME NEW d, Sound(d), d.given \subseteq Lookups
  PROVE  d.given \subseteq Leafs(d) /\ \A a \in d.data : Why(d, a) # {}
<1>1. \A n \in d.given : n \in d.nodes /\ n \notin Fields
  BY NodesAssumption DEF Sound, Grounded
<1>2. \A e \in d.edges : e[2] \in Fields
  BY DEF Sound, DrsType
<1>3. d.given \subseteq Leafs(d)
  BY <1>1, <1>2 DEF Leafs, Predecessors
<1> DEFINE U == {n \in d.nodes : \E l \in d.given : Connected(d, l, n)}
<1>4. d.given \subseteq U
  BY <1>1 DEF Connected
<1>5. Closed(d, U)
  BY DEF Closed, Connected, Sound, Grounded
<1>6. d.nodes \subseteq U
  BY <1>4, <1>5, ClosedHoldsAll
<1>7. ASSUME NEW a \in d.data
      PROVE  Why(d, a) # {}
  <2>1. a \in Fields /\ a \in d.nodes
    BY DEF Sound, Grounded, DrsType
  <2>2. PICK l \in d.given : Connected(d, l, a)
    BY <1>6, <2>1
  <2>3. l \in Leafs(d) /\ l # a
    BY <1>1, <1>3, <2>1
  <2> QED
    BY <2>2, <2>3 DEF Why
<1> QED
  BY <1>3, <1>7

-----------------------------------------------------------------------------
LEMMA InvariantInit == Init => Invariant
<1>1. {} \in SUBSET Fields
  OBVIOUS
<1>2. Sound(New({}, {}, {}, {}))
  BY <1>1, OriginSound
<1>3. New({}, {}, {}, {}) \in DrsType
  BY <1>2 DEF Sound
<1> QED
  BY <1>2, <1>3, BoundsAssumption DEF Init, Invariant, Bounds, Sounds

\* A call that gives one object a sound set keeps them all sound.
LEMMA OneSet ==
  ASSUME Sounds, drs \in [Objects -> DrsType], NEW o \in Objects, NEW d,
         Sound(d), drs' = [drs EXCEPT ![o] = d]
  PROVE  Sounds' /\ drs' \in [Objects -> DrsType]
<1>1. d \in DrsType
  BY DEF Sound
<1>2. drs' \in [Objects -> DrsType]
  BY <1>1
<1>3. \A p \in Objects : drs'[p] = IF p = o THEN d ELSE drs[p]
  OBVIOUS
<1>4. \A p \in Objects : Sound(drs'[p])
  BY <1>3 DEF Sounds
<1> QED
  BY <1>2, <1>4 DEF Sounds

LEMMA InvariantNext == Invariant /\ [Next]_vars => Invariant'
<1> SUFFICES ASSUME Invariant, [Next]_vars
             PROVE  Invariant'
  OBVIOUS
<1> USE DEF Invariant, Bounds
<1>1. CASE UNCHANGED vars
  BY <1>1 DEF vars, Sounds
<1>2. ASSUME CanCall PROVE calls' \in 0..MaxCalls
  BY <1>2, BoundsAssumption DEF CanCall
<1>3. CASE Origin
  <2>1. PICK o \in Objects, S \in SmallSets : drs' = [drs EXCEPT ![o] = New(S, S, {}, S)]
    BY <1>3 DEF Origin
  <2>2. Sound(New(S, S, {}, S))
    BY OriginSound DEF SmallSets
  <2>3. Sounds' /\ drs' \in [Objects -> DrsType]
    BY <2>1, <2>2, OneSet
  <2> QED
    BY <1>2, <1>3, <2>3 DEF Origin
<1>4. CASE Lookup
  <2>1. PICK o \in Objects, k \in Lookups \ used, S \in SmallSets :
          /\ drs' = [drs EXCEPT ![o] = New(S, S \union {k},
                                           {<<k, f, "LOOKUP">> : f \in S}, {k})]
          /\ used' = used \union {k}
    BY <1>4 DEF Lookup
  <2>2. Sound(New(S, S \union {k}, {<<k, f, "LOOKUP">> : f \in S}, {k}))
    BY LookupSound DEF SmallSets
  <2>3. Sounds' /\ drs' \in [Objects -> DrsType]
    BY <2>1, <2>2, OneSet
  <2> QED
    BY <1>2, <1>4, <2>1, <2>3 DEF Lookup
<1>5. CASE Primitive
  <2>1. PICK in \in Objects, dest \in Objects, op \in Operations :
          drs' = [drs EXCEPT ![dest] = Answer(drs[in], op)]
    BY <1>5 DEF Primitive
  <2>2. Sound(Answer(drs[in], op))
    BY AnswerSound DEF Sounds
  <2>3. Sounds' /\ drs' \in [Objects -> DrsType]
    BY <2>1, <2>2, OneSet
  <2> QED
    BY <1>2, <1>5, <2>3 DEF Primitive
<1>6. CASE ExpandToTable
  <2>1. PICK in \in Objects, dest \in Objects :
          drs' = [drs EXCEPT ![dest] =
                    New(UNION {Found["TABLE"][f] : f \in drs[in].data},
                        FoundNodes(drs[in].data, "TABLE"),
                        FoundEdges(drs[in].data, "TABLE"), drs[in].data)]
    BY <1>6 DEF ExpandToTable
  <2>2. drs[in].data \in SUBSET Fields
    BY DEF DrsType
  <2>3. Sound(New(UNION {Found["TABLE"][f] : f \in drs[in].data},
                  FoundNodes(drs[in].data, "TABLE"),
                  FoundEdges(drs[in].data, "TABLE"), drs[in].data))
    BY <2>2, ExpansionSound
  <2>4. Sounds' /\ drs' \in [Objects -> DrsType]
    BY <2>1, <2>3, OneSet
  <2> QED
    BY <1>2, <1>6, <2>4 DEF ExpandToTable
<1>7. CASE Combine
  <2>1. PICK a \in Objects, b \in Objects :
          \E data \in {drs[a].data \union drs[b].data,
                      drs[a].data \intersect drs[b].data,
                      drs[a].data \ drs[b].data} :
            drs' = [drs EXCEPT ![a] = Absorb(drs[a], drs[b], data)]
    BY <1>7 DEF Combine
  <2>2. PICK data \in SUBSET (drs[a].data \union drs[b].data) :
          drs' = [drs EXCEPT ![a] = Absorb(drs[a], drs[b], data)]
    BY <2>1
  <2>3. Sound(Absorb(drs[a], drs[b], data))
    BY <2>2, AbsorbSound DEF Sounds
  <2>4. Sounds' /\ drs' \in [Objects -> DrsType]
    BY <2>2, <2>3, OneSet
  <2> QED
    BY <1>2, <1>7, <2>4 DEF Combine
<1> QED
  BY <1>1, <1>3, <1>4, <1>5, <1>6, <1>7 DEF Next

LEMMA InvariantHolds == Spec => []Invariant
  BY InvariantInit, InvariantNext, PTL DEF Spec

\* Every variable keeps its type, for any network and any session.
THEOREM TypeCorrect == Spec => []TypeOK
<1>1. Invariant => TypeOK
  BY DEF Invariant, Bounds, TypeOK, DrsType, Nodes
<1> QED
  BY <1>1, InvariantHolds, PTL

\* Whatever the network relates and however result sets are merged and reused,
\* each result is reached from what the client's calls began with.
THEOREM ResultsAreExplained == Spec => []EveryResultExplained
<1>1. Invariant => EveryResultExplained
  BY DEF Invariant, Sounds, Sound, EveryResultExplained
<1> QED
  BY <1>1, InvariantHolds, PTL

\* A chain of calls that began with keyword searches can be asked for its
\* coverage: there is a leaf to divide by, and each result has one.
THEOREM CoverageIsDefined == Spec => []CoverageDefined
<1>1. Invariant => CoverageDefined
  BY SoundIsCovered DEF Invariant, Sounds, CoverageDefined
<1> QED
  BY <1>1, InvariantHolds, PTL
=============================================================================
