----------------------------- MODULE DrsProofs -----------------------------
(***************************************************************************)
(* What holds of result sets in sessions of any length, over any number of *)
(* sets, fields and tables.                                                *)
(*                                                                         *)
(* Two recursive functions of the model, the concatenation of the rows of  *)
(* an intersection by table and the fringe of a traversal, are taken apart *)
(* first.  Nothing is assumed of them but their defining equation: that a  *)
(* function solves it, and what type its values have, are each shown by    *)
(* the least number for which they would fail.                             *)
(***************************************************************************)
EXTENDS Drs, FiniteSetTheorems, TLAPS

-----------------------------------------------------------------------------
(* Least numbers, lists and recursive functions *)

LEMMA LeastNumber ==
  ASSUME NEW T, T \subseteq Nat, T # {}
  PROVE  \E n \in T : \A m \in T : n <= m
<1>1. \E x \in T : \A y \in T : ~(<<y, x>> \in OpToRel(<, Nat))
  BY WFMin, NatLessThanWellFounded
<1>2. PICK n \in T : \A y \in T : ~(<<y, n>> \in OpToRel(<, Nat))
  BY <1>1
<1>3. \A y \in T : ~(y < n)
  BY <1>2 DEF OpToRel
<1> QED BY <1>3

\* A list made from a finite set holds all of it: an injection between sets of
\* one size is onto.
LEMMA SeqsOfSet ==
  ASSUME NEW S, IsFiniteSet(S), NEW s \in SetToSeqs(S)
  PROVE  s \in Seq(S) /\ ToSet(s) = S
<1> DEFINE D == 1..Cardinality(S)
<1>1. Cardinality(S) \in Nat
  BY FS_CardinalityType
<1>2. s \in [D -> S] /\ \A i, j \in D : i # j => s[i] # s[j]
  BY DEF SetToSeqs
<1>3. s \in Injection(D, S)
  BY <1>2 DEF Injection, IsInjective
<1>4. Cardinality(D) = Cardinality(S)
  BY <1>1, FS_Interval
<1>5. s \in Surjection(D, S)
  BY <1>3, <1>4, FS_Injection
<1>6. s \in Seq(S)
  BY <1>1, <1>2
<1> QED BY <1>2, <1>5, <1>6 DEF Surjection, ToSet

\* The rows of hits that share a table are joined to a list of hits.
LEMMA FlattenTyped ==
  ASSUME NEW S, NEW ss \in Seq(Seq(S))
  PROVE  FlattenSeq(ss) \in Seq(S)
<1> DEFINE P(g, n) == g = [i \in 1..n |-> IF i = 1 THEN ss[i] ELSE g[i - 1] \o ss[i]]
           T == {n \in Nat : ~ \E g : P(g, n)}
<1>1. T = {}
  <2>1. SUFFICES ASSUME T # {} PROVE FALSE
    OBVIOUS
  <2>2. PICK n \in T : \A m \in T : n <= m
    BY <2>1, LeastNumber
  <2>3. n # 0
    <3>1. P(<<>>, 0)
      OBVIOUS
    <3> QED BY <3>1
  <2>4. PICK g : P(g, n - 1)
    <3>1. n - 1 \in Nat /\ n - 1 \notin T
      <4> HIDE DEF P
      <4> QED BY <2>2, <2>3
    <3> HIDE DEF P
    <3> QED BY <3>1
  <2> DEFINE h == [i \in 1..n |-> IF i < n THEN g[i] ELSE IF i = 1 THEN ss[i] ELSE g[i - 1] \o ss[i]]
  <2>5. h = [i \in 1..n |-> IF i = 1 THEN ss[i] ELSE h[i - 1] \o ss[i]]
    <3>1. \A i \in 1..n : (i - 1 \in 1..n /\ i - 1 < n) \/ i = 1
      BY <2>2
    <3>2. \A i \in 1..n-1 : g[i] = IF i = 1 THEN ss[i] ELSE g[i - 1] \o ss[i]
      BY <2>4
    <3>3. \A i \in 1..n : h[i] = IF i < n THEN g[i] ELSE IF i = 1 THEN ss[i] ELSE g[i - 1] \o ss[i]
      OBVIOUS
    <3>4. ASSUME NEW i \in 1..n
          PROVE h[i] = IF i = 1 THEN ss[i] ELSE h[i - 1] \o ss[i]
      <4>1. CASE i = 1
        BY <4>1, <3>2, <3>3, <2>2
      <4>2. CASE i # 1
        <5>1. h[i - 1] = g[i - 1]
          BY <4>2, <3>3, <2>2
        <5>2. CASE i < n
          <6>1. i \in 1..n-1
            BY <5>2, <2>2
          <6>2. h[i] = g[i]
            BY <5>2, <3>3
          <6>3. g[i] = g[i - 1] \o ss[i]
            BY <6>1, <3>2, <4>2
          <6> HIDE DEF h
          <6> QED BY <6>2, <6>3, <5>1, <4>2
        <5>3. CASE ~(i < n)
          <6>1. h[i] = g[i - 1] \o ss[i]
            BY <5>3, <3>3, <4>2
          <6> HIDE DEF h
          <6> QED BY <6>1, <5>1, <4>2
        <5> QED BY <5>2, <5>3
      <4> QED BY <4>1, <4>2
    <3> QED BY <3>4
  <2>6. P(h, n)
    BY <2>5
  <2> QED BY <2>2, <2>6
<1> DEFINE f == CHOOSE g : P(g, Len(ss))
<1>2. P(f, Len(ss))
  <2> HIDE DEF T, P
  <2>1. Len(ss) \in Nat /\ Len(ss) \notin T
    BY <1>1
  <2> USE DEF T
  <2>2. \E g : P(g, Len(ss))
    BY <2>1
  <2> QED BY <2>2
<1>3. \A i \in 1..Len(ss) : f[i] = IF i = 1 THEN ss[i] ELSE f[i - 1] \o ss[i]
  BY <1>2
<1> HIDE DEF f
<1> HIDE DEF T, P
<1> DEFINE U == {i \in 1..Len(ss) : f[i] \notin Seq(S)}
<1>4. U = {}
  <2>1. SUFFICES ASSUME U # {} PROVE FALSE
    OBVIOUS
  <2>2. PICK n \in U : \A m \in U : n <= m
    <3>1. U \subseteq Nat
      OBVIOUS
    <3> HIDE DEF U
    <3> QED BY <2>1, <3>1, LeastNumber
  <2>3. n # 1
    BY <2>2, <1>3
  <2>4. f[n - 1] \in Seq(S)
    BY <2>2, <2>3
  <2>5. f[n] = f[n - 1] \o ss[n]
    BY <1>3, <2>2, <2>3
  <2>6. ss[n] \in Seq(S)
    BY <2>2
  <2>7. f[n] \in Seq(S)
    BY <2>4, <2>5, <2>6
  <2> QED BY <2>2, <2>7
<1>5. Len(ss) # 0 => FlattenSeq(ss) = f[Len(ss)]
  BY DEF FlattenSeq, f, P
<1> QED BY <1>4, <1>5 DEF FlattenSeq

\* Traversal reaches nodes of the network only.
LEMMA ReachedTyped ==
  ASSUME NEW start, NEW hops \in Nat, hops > 0 => start \subseteq Network
  PROVE  Reached(start, hops) \subseteq Network
<1> DEFINE E(g, k) ==
             IF k = 0 THEN {}
             ELSE g[k - 1] \union
                    UNION {Similar[f] : f \in IF k = 1 THEN start ELSE g[k - 1]}
           P(g, n) == g = [k \in 0..n |-> E(g, k)]
           T == {n \in Nat : ~ \E g : P(g, n)}
<1>1. T = {}
  <2>1. SUFFICES ASSUME T # {} PROVE FALSE
    OBVIOUS
  <2>2. PICK n \in T : \A m \in T : n <= m
    <3> HIDE DEF P
    <3> QED BY <2>1, LeastNumber
  <2>3. n # 0
    <3> DEFINE z == [k \in 0..0 |-> {}]
    <3>1. z = [k \in 0..0 |-> E(z, k)]
      OBVIOUS
    <3>2. P(z, 0)
      BY <3>1
    <3> HIDE DEF P, z
    <3> QED BY <2>2, <3>2
  <2>4. PICK g : P(g, n - 1)
    <3> HIDE DEF P
    <3>1. n - 1 \in Nat /\ n - 1 \notin T
      BY <2>2, <2>3
    <3> QED BY <3>1
  <2> DEFINE h == [k \in 0..n |-> IF k < n THEN g[k] ELSE E(g, k)]
  <2>5. \A k \in 0..n - 1 : h[k] = g[k] /\ g[k] = E(g, k)
    <3>1. \A k \in 0..n - 1 : g[k] = E(g, k)
      <4> HIDE DEF E
      <4> QED BY <2>4
    <3>2. \A k \in 0..n - 1 : h[k] = g[k]
      <4> HIDE DEF E
      <4> QED BY <2>2
    <3> QED BY <3>1, <3>2
  <2>6. h[n] = E(g, n)
    BY <2>2
  <2>7. \A k \in 0..n : k # 0 => k - 1 \in 0..n - 1
    BY <2>2
  <2>8. DOMAIN h = 0..n /\ h = [k \in 0..n |-> h[k]]
    OBVIOUS
  <2> HIDE DEF h
  <2>9. ASSUME NEW k \in 0..n PROVE h[k] = E(h, k)
    <3>1. E(g, k) = E(h, k)
      BY <2>5, <2>7
    <3>2. k = n \/ k \in 0..n - 1
      BY <2>2
    <3> QED BY <2>5, <2>6, <3>1, <3>2
  <2>10. P(h, n)
    BY <2>8, <2>9
  <2> HIDE DEF P
  <2> QED BY <2>2, <2>10
<1> DEFINE r == CHOOSE g : P(g, hops)
<1>2. P(r, hops)
  <2> HIDE DEF P
  <2> QED BY <1>1
<1>3. \A k \in 0..hops : r[k] = E(r, k)
  BY <1>2
<1>4. Reached(start, hops) = r[hops]
  BY DEF Reached
<1> HIDE DEF r, T, P
<1> DEFINE U == {k \in 0..hops : ~(r[k] \subseteq Network)}
<1>5. U = {}
  <2>1. SUFFICES ASSUME U # {} PROVE FALSE
    OBVIOUS
  <2>2. PICK n \in U : \A m \in U : n <= m
    <3>1. U \subseteq Nat
      OBVIOUS
    <3> HIDE DEF U
    <3> QED BY <2>1, <3>1, LeastNumber
  <2>3. n # 0
    BY <2>2, <1>3
  <2>4. r[n - 1] \subseteq Network /\ start \subseteq Network
    BY <2>2, <2>3
  <2>5. \A f \in Network : Similar[f] \subseteq Network
    BY NetworkAssumption
  <2>6. r[n] = E(r, n)
    BY <1>3, <2>2
  <2>7. r[n] \subseteq Network
    BY <2>3, <2>4, <2>5, <2>6
  <2> QED BY <2>2, <2>7
<1> QED BY <1>4, <1>5

-----------------------------------------------------------------------------
\* What holds of every DRS: its type, that a ranked one is made of hits that
\* have a score, and, in a session without rankings, that its table view is
\* the one of its data.
Kept(d) == d.ranked => Hits(d) \subseteq d.scored
Fresh(d) == d.view # <<>> => ToSet(d.view) = TablesOf(Hits(d))
Good(d) == d \in DrsType /\ Kept(d) /\ ("rank" \notin Calls => Fresh(d))

AllGood(D) == D \in [Objects -> DrsType] /\ \A o \in Objects : Good(D[o])

\* A call that runs holds the objects it works on.
Holds ==
  /\ call.pc # "idle" => {call.in, call.dest} \subseteq Objects
  /\ call.pc \in {"outer", "inner"} => call.other \in Objects

Invariant ==
  AllGood(drs) /\ call \in CallType /\ Holds /\ calls \in 0..MaxCalls

-----------------------------------------------------------------------------
(* What the operations of the class leave *)

LEMMA HitsFinite ==
  ASSUME NEW S, S \subseteq Fields
  PROVE  IsFiniteSet(S) /\ TablesOf(S) \subseteq Tables /\ IsFiniteSet(TablesOf(S))
<1>1. TablesOf(S) \subseteq Tables
  BY TableOfAssumption DEF TablesOf
<1> QED BY <1>1, FS_Subset, HitsAssumption

LEMMA HitsTyped ==
  ASSUME NEW s \in Seq(Fields)
  PROVE  ToSet(s) \subseteq Fields
BY DEF ToSet

LEMMA ListsOfFields ==
  ASSUME NEW S, S \subseteq Fields, NEW s \in SetToSeqs(S)
  PROVE  s \in Seq(Fields) /\ ToSet(s) = S
<1>1. s \in Seq(S) /\ ToSet(s) = S
  BY HitsFinite, SeqsOfSet
<1> QED BY <1>1

LEMMA NewGood ==
  ASSUME NEW data \in Seq(Fields)
  PROVE  Good(New(data)) /\ New(data).data = data
BY DEF New, Good, Kept, Fresh, DrsType, Modes

LEMMA SetDataGood ==
  ASSUME NEW d, Good(d), NEW data \in Seq(Fields)
  PROVE  Good(SetData(d, data))
<1> DEFINE e == SetData(d, data)
<1>1. d \in DrsType /\ <<>> \in Seq(Tables)
  BY DEF Good
<1>2. e \in DrsType
  BY <1>1 DEF SetData, DrsType, Modes
<1>3. ~e.ranked /\ e.view = <<>>
  BY <1>1 DEF SetData, DrsType
<1> QED BY <1>2, <1>3 DEF Good, Kept, Fresh

\* A cursor, a mode or the view may change; the data and the scores stay.
LEMMA MoveGood ==
  ASSUME NEW d, Good(d), NEW e \in DrsType,
         e.data = d.data, e.ranked = d.ranked, e.scored = d.scored,
         "rank" \notin Calls =>
           e.view = d.view \/ ToSet(e.view) = TablesOf(Hits(d))
  PROVE  Good(e)
BY DEF Good, Kept, Fresh, Hits

LEMMA ViewsGood ==
  ASSUME NEW d, Good(d), NEW view \in Views(d)
  PROVE  /\ view \in Seq(Tables)
         /\ d.view # <<>> => view = d.view
         /\ "rank" \notin Calls => ToSet(view) = TablesOf(Hits(d))
<1>1. Hits(d) \subseteq Fields
  BY HitsTyped DEF Good, DrsType, Hits
<1>2. CASE d.view = <<>>
  <2>1. view \in SetToSeqs(TablesOf(Hits(d)))
    BY <1>2 DEF Views
  <2>2. view \in Seq(TablesOf(Hits(d))) /\ ToSet(view) = TablesOf(Hits(d))
    BY <1>1, <2>1, HitsFinite, SeqsOfSet
  <2>3. TablesOf(Hits(d)) \subseteq Tables
    BY <1>1, HitsFinite
  <2> QED BY <1>2, <2>2, <2>3
<1>3. CASE d.view # <<>>
  BY <1>3 DEF Views, Good, Fresh, DrsType
<1> QED BY <1>2, <1>3

LEMMA StepGood ==
  ASSUME NEW d, Good(d), NEW s \in Step(d)
  PROVE  Good(s.after) /\ s.got \in Fields \union Tables \union {Nothing}
<1>1. CASE d.mode = "FIELDS"
  <2>1. s = NextField(d)
    BY <1>1 DEF Step
  <2>2. d.data \in Seq(Fields) /\ d.idx \in Nat
    BY DEF Good, DrsType
  <2>3. CASE d.idx < Len(d.data)
    <3>1. s = [got |-> d.data[d.idx + 1], after |-> [d EXCEPT !.idx = @ + 1]]
      BY <2>1, <2>3 DEF NextField
    <3>2. d.data[d.idx + 1] \in Fields
      BY <2>2, <2>3
    <3>3. s.after = [d EXCEPT !.idx = d.idx + 1] /\ d.idx + 1 \in Nat
      BY <2>2, <3>1
    <3>4. /\ s.after \in DrsType /\ s.after.data = d.data
          /\ s.after.ranked = d.ranked /\ s.after.scored = d.scored
          /\ s.after.view = d.view
      BY <3>3 DEF Good, DrsType
    <3> QED BY <3>1, <3>2, <3>4, MoveGood
  <2>4. CASE ~(d.idx < Len(d.data))
    <3>1. s = [got |-> Nothing, after |-> [d EXCEPT !.idx = 0]]
      BY <2>1, <2>4 DEF NextField
    <3> QED BY <3>1 DEF Good, Kept, Fresh, DrsType, Hits
  <2> QED BY <2>3, <2>4
<1>2. CASE d.mode # "FIELDS"
  <2>1. PICK view \in Views(d) : s = NextTable(d, view)
    BY <1>2 DEF Step
  <2>2. /\ view \in Seq(Tables)
        /\ "rank" \notin Calls => ToSet(view) = TablesOf(Hits(d))
    BY ViewsGood
  <2>3. d.tidx \in Nat
    BY DEF Good, DrsType
  <2>4. CASE d.tidx < Len(view)
    <3>1. s = [got |-> view[d.tidx + 1],
               after |-> [d EXCEPT !.view = view, !.tidx = @ + 1]]
      BY <2>1, <2>4 DEF NextTable
    <3>2. view[d.tidx + 1] \in Tables
      BY <2>2, <2>3, <2>4
    <3>3. /\ s.after = [d EXCEPT !.view = view, !.tidx = d.tidx + 1]
          /\ d.tidx + 1 \in Nat
      BY <2>3, <3>1
    <3>4. /\ s.after \in DrsType /\ s.after.data = d.data
          /\ s.after.ranked = d.ranked /\ s.after.scored = d.scored
          /\ s.after.view = view
      BY <2>2, <3>3 DEF Good, DrsType
    <3> QED BY <2>2, <3>1, <3>2, <3>4, MoveGood
  <2>5. CASE ~(d.tidx < Len(view))
    <3>1. s = [got |-> Nothing, after |-> [d EXCEPT !.view = view, !.tidx = 0]]
      BY <2>1, <2>5 DEF NextTable
    <3> QED BY <2>2, <3>1 DEF Good, Kept, Fresh, DrsType, Hits
  <2> QED BY <2>4, <2>5
<1> QED BY <1>1, <1>2

LEMMA UpdateGood ==
  ASSUME NEW D, AllGood(D), NEW o \in Objects, NEW d, Good(d)
  PROVE  AllGood([D EXCEPT ![o] = d])
BY DEF AllGood, Good

LEMMA UpdateBoth ==
  ASSUME NEW D, AllGood(D), NEW a \in Objects, NEW b \in Objects,
         NEW d, Good(d), NEW e, Good(e)
  PROVE  AllGood([D EXCEPT ![a] = d, ![b] = e])
BY DEF AllGood, Good

LEMMA CombinedTyped ==
  ASSUME NEW op, op \in {"union", "intersection", "difference"},
         NEW a, Good(a), NEW b, Good(b), NEW data \in Combined(op, a, b)
  PROVE  data \in Seq(Fields)
<1>1. Hits(a) \subseteq Fields /\ Hits(b) \subseteq Fields
  BY HitsTyped DEF Good, DrsType, Hits
<1>2. CASE data \in SetToSeqs(Hits(a) \union Hits(b))
  BY <1>1, <1>2, ListsOfFields
<1>3. CASE data \in SetToSeqs(Hits(a) \ Hits(b))
  BY <1>1, <1>3, ListsOfFields
<1>4. CASE data \in SetToSeqs(Hits(a) \intersect Hits(b))
  BY <1>1, <1>4, ListsOfFields
<1>5. CASE data = SharedTables(b.data, a.data)
  <2> DEFINE hits(i, j) == IF TableOf[b.data[i]] = TableOf[a.data[j]]
                           THEN <<b.data[i], a.data[j]>> ELSE <<>>
             row(i) == FlattenSeq([j \in 1..Len(a.data) |-> hits(i, j)])
  <2>1. a.data \in Seq(Fields) /\ b.data \in Seq(Fields)
    BY DEF Good, DrsType
  <2>2. ASSUME NEW i \in 1..Len(b.data), NEW j \in 1..Len(a.data)
        PROVE  hits(i, j) \in Seq(Fields)
    <3>1. b.data[i] \in Fields /\ a.data[j] \in Fields
      BY <2>1
    <3> QED BY <3>1
  <2> HIDE DEF hits
  <2>3. ASSUME NEW i \in 1..Len(b.data)
        PROVE  row(i) \in Seq(Fields)
    <3>1. [j \in 1..Len(a.data) |-> hits(i, j)] \in Seq(Seq(Fields))
      BY <2>1, <2>2
    <3> QED BY <3>1, FlattenTyped
  <2> HIDE DEF row
  <2>4. [i \in 1..Len(b.data) |-> row(i)] \in Seq(Seq(Fields))
    BY <2>1, <2>3
  <2>5. FlattenSeq([i \in 1..Len(b.data) |-> row(i)]) \in Seq(Fields)
    BY <2>4, FlattenTyped
  <2> QED BY <1>5, <2>5 DEF SharedTables, row, hits
<1>6. op = "intersection" => b.mode \in {"FIELDS", "TABLE"}
  BY DEF Good, DrsType, Modes
<1> QED BY <1>2, <1>3, <1>4, <1>5, <1>6 DEF Combined

LEMMA AnswersTyped ==
  ASSUME NEW op, NEW f \in Fields, op = "similar_to" => f \in Network
  PROVE  Answers(op, f) \subseteq Fields
BY NetworkAssumption DEF Answers, FieldsOf

LEMMA PathsTyped ==
  ASSUME NEW f, NEW g, NEW S \in PathHits(f, g)
  PROVE  S \subseteq Fields
BY NetworkAssumption DEF PathHits

-----------------------------------------------------------------------------
(* Every step keeps the invariant *)

LEMMA InvariantInit == Init => Invariant
<1> SUFFICES ASSUME Init PROVE Invariant
  OBVIOUS
<1>1. <<>> \in Seq(Fields)
  OBVIOUS
<1>2. AllGood(drs)
  BY <1>1, NewGood DEF Init, AllGood, Good
<1>3. call \in CallType /\ call.pc = "idle"
  BY DEF Init, Idle, CallType
<1> QED BY <1>2, <1>3, BoundsAssumption DEF Init, Invariant, Holds

\* A call that returns leaves the record of no call.
LEMMA IdleTyped == Idle \in CallType /\ Idle.pc = "idle"
BY DEF Idle, CallType

\* A client's call that returns at once has only to leave good sets.
LEMMA DirectCall ==
  ASSUME Invariant, CanCall, AllGood(drs'), calls' = calls + 1, UNCHANGED call
  PROVE  Invariant'
<1>1. calls' \in 0..MaxCalls
  BY BoundsAssumption DEF Invariant, CanCall
<1> QED BY <1>1 DEF Invariant, Holds

LEMMA SeedKeeps ==
  ASSUME Invariant, Seed
  PROVE  Invariant'
<1>1. PICK o \in Objects :
        \E data \in {<<f>> : f \in Fields}
                      \union (UNION {SetToSeqs(FieldsOf(t)) : t \in Tables})
                      \union (UNION {SetToSeqs(S) :
                               S \in {T \in SUBSET Fields :
                                        Cardinality(T) <= MaxHits}}) :
          drs' = [drs EXCEPT ![o] = New(data)]
  BY DEF Seed
<1>2. PICK data \in {<<f>> : f \in Fields}
                      \union (UNION {SetToSeqs(FieldsOf(t)) : t \in Tables})
                      \union (UNION {SetToSeqs(S) :
                               S \in {T \in SUBSET Fields :
                                        Cardinality(T) <= MaxHits}}) :
          drs' = [drs EXCEPT ![o] = New(data)]
  BY <1>1
<1>3. data \in Seq(Fields)
  <2>1. CASE data \in {<<f>> : f \in Fields}
    <3>1. PICK f \in Fields : data = <<f>>
      BY <2>1
    <3> QED BY <3>1
  <2>2. ASSUME NEW S, S \subseteq Fields, data \in SetToSeqs(S)
        PROVE  data \in Seq(Fields)
    BY <2>2, ListsOfFields
  <2>3. \A t : FieldsOf(t) \subseteq Fields
    BY NetworkAssumption DEF FieldsOf
  <2>4. CASE data \in UNION {SetToSeqs(FieldsOf(t)) : t \in Tables}
    <3>1. PICK t \in Tables : data \in SetToSeqs(FieldsOf(t))
      BY <2>4
    <3> QED BY <2>2, <2>3, <3>1
  <2>5. CASE data \in UNION {SetToSeqs(S) :
                     S \in {T \in SUBSET Fields : Cardinality(T) <= MaxHits}}
    <3>1. PICK S \in SUBSET Fields : data \in SetToSeqs(S)
      BY <2>5
    <3> QED BY <2>2, <3>1
  <2> QED BY <1>2, <2>1, <2>4, <2>5
<1>4. AllGood(drs')
  BY <1>2, <1>3, NewGood, UpdateGood DEF Invariant
<1> QED BY <1>4, DirectCall DEF Seed

LEMMA SetModeKeeps ==
  ASSUME Invariant, SetMode
  PROVE  Invariant'
<1>1. PICK o \in Objects, m \in Modes : drs' = [drs EXCEPT ![o].mode = m]
  BY DEF SetMode
<1>2. drs' = [drs EXCEPT ![o] = [drs[o] EXCEPT !.mode = m]]
  BY <1>1
<1> DEFINE e == [drs[o] EXCEPT !.mode = m]
<1>3. Good(drs[o])
  BY DEF Invariant, AllGood
<1>4. /\ e \in DrsType /\ e.data = drs[o].data /\ e.ranked = drs[o].ranked
      /\ e.scored = drs[o].scored /\ e.view = drs[o].view
  BY <1>3 DEF Good, DrsType
<1>5. Good(e)
  BY <1>3, <1>4, MoveGood
<1>6. AllGood(drs')
  BY <1>2, <1>5, UpdateGood DEF Invariant
<1> QED BY <1>6, DirectCall DEF SetMode

LEMMA CombineKeeps ==
  ASSUME Invariant, NEW op \in {"union", "intersection", "difference"},
         Combine(op)
  PROVE  Invariant'
<1>1. PICK a \in Objects, b \in Objects :
        \E data \in Combined(op, drs[a], drs[b]) :
          drs' = [drs EXCEPT ![a] = SetData(@, data)]
  BY DEF Combine
<1>2. PICK data \in Combined(op, drs[a], drs[b]) :
        drs' = [drs EXCEPT ![a] = SetData(drs[a], data)]
  BY <1>1
<1>3. Good(drs[a]) /\ Good(drs[b])
  BY DEF Invariant, AllGood
<1>4. data \in Seq(Fields)
  BY <1>2, <1>3, CombinedTyped
<1>5. AllGood(drs')
  BY <1>2, <1>3, <1>4, SetDataGood, UpdateGood DEF Invariant
<1> QED BY <1>5, DirectCall DEF Combine

\* The ranked DRS holds every hit that has a score, and all its hits had one
\* or are given one now.
LEMMA Ranked ==
  ASSUME Invariant, Rank
  PROVE  AllGood(drs') /\ \A o \in Objects : Hits(drs[o]) \subseteq Hits(drs'[o])
<1> DEFINE scores(d) == IF d.ranked THEN d.scored ELSE d.scored \union Hits(d)
<1>0. PICK o \in Objects : \E data \in SetToSeqs(scores(drs[o])) :
        drs' = [drs EXCEPT ![o] = [drs[o] EXCEPT !.data = data,
                                     !.scored = scores(drs[o]), !.ranked = TRUE]]
  BY DEF Rank
<1>1. PICK data \in SetToSeqs(scores(drs[o])) :
        drs' = [drs EXCEPT ![o] = [drs[o] EXCEPT !.data = data,
                                     !.scored = scores(drs[o]), !.ranked = TRUE]]
  BY <1>0
<1> DEFINE e == [drs[o] EXCEPT !.data = data, !.scored = scores(drs[o]),
                               !.ranked = TRUE]
<1>2. Good(drs[o]) /\ "rank" \in Calls
  BY DEF Invariant, AllGood, Rank
<1>3. Hits(drs[o]) \subseteq Fields /\ drs[o] \in DrsType
  BY <1>2, HitsTyped DEF Good, DrsType, Hits
<1>4. scores(drs[o]) \subseteq Fields /\ Hits(drs[o]) \subseteq scores(drs[o])
  BY <1>2, <1>3 DEF Good, Kept, DrsType
<1>5. data \in Seq(Fields) /\ ToSet(data) = scores(drs[o])
  BY <1>1, <1>4, ListsOfFields
<1> HIDE DEF scores
<1>6. e \in DrsType /\ e.data = data /\ e.scored = scores(drs[o])
  BY <1>3, <1>4, <1>5 DEF DrsType
<1>7. Good(e)
  BY <1>2, <1>5, <1>6 DEF Good, Kept, Hits
<1>8. AllGood(drs')
  BY <1>1, <1>7, UpdateGood DEF Invariant
<1>9. Hits(drs[o]) \subseteq Hits(drs'[o])
  BY <1>1, <1>4, <1>5, <1>6 DEF Hits, Invariant, AllGood
<1>10. \A p \in Objects \ {o} : drs'[p] = drs[p]
  BY <1>1 DEF Invariant, AllGood
<1> QED BY <1>8, <1>9, <1>10

LEMMA ShowKeeps ==
  ASSUME Invariant, Show
  PROVE  Invariant'
<1>1. PICK o \in Objects :
        \/ drs' = [drs EXCEPT ![o].idx = 0]
        \/ \E view \in Views(drs[o]) :
             drs' = [drs EXCEPT ![o] = [@ EXCEPT !.view = view, !.tidx = 0]]
  BY DEF Show
<1>2. Good(drs[o])
  BY DEF Invariant, AllGood
<1>3. CASE drs' = [drs EXCEPT ![o].idx = 0]
  <2> DEFINE e == [drs[o] EXCEPT !.idx = 0]
  <2>1. /\ e \in DrsType /\ e.data = drs[o].data /\ e.ranked = drs[o].ranked
        /\ e.scored = drs[o].scored /\ e.view = drs[o].view
    BY <1>2 DEF Good, DrsType
  <2>2. Good(e)
    BY <1>2, <2>1, MoveGood
  <2>3. drs' = [drs EXCEPT ![o] = e]
    BY <1>3
  <2> HIDE DEF e
  <2> QED BY <2>2, <2>3, UpdateGood, DirectCall DEF Show, Invariant
<1>4. CASE \E view \in Views(drs[o]) :
             drs' = [drs EXCEPT ![o] = [@ EXCEPT !.view = view, !.tidx = 0]]
  <2>1. PICK view \in Views(drs[o]) :
          drs' = [drs EXCEPT ![o] = [drs[o] EXCEPT !.view = view, !.tidx = 0]]
    BY <1>4
  <2> DEFINE e == [drs[o] EXCEPT !.view = view, !.tidx = 0]
  <2>2. /\ view \in Seq(Tables)
        /\ "rank" \notin Calls => ToSet(view) = TablesOf(Hits(drs[o]))
    BY <1>2, ViewsGood
  <2>3. /\ e \in DrsType /\ e.data = drs[o].data /\ e.ranked = drs[o].ranked
        /\ e.scored = drs[o].scored /\ e.view = view
    BY <1>2, <2>2 DEF Good, DrsType
  <2>4. Good(e)
    BY <1>2, <2>2, <2>3, MoveGood
  <2> HIDE DEF e
  <2>5. AllGood(drs')
    BY <2>1, <2>4, UpdateGood DEF Invariant, e
  <2> QED BY <2>5, DirectCall DEF Show
<1> QED BY <1>1, <1>3, <1>4

LEMMA TraverseKeeps ==
  ASSUME Invariant, Traverse
  PROVE  Invariant'
<1> DEFINE start(d) == ToSet(SubSeq(d.data, d.idx + 1, Len(d.data)))
           read(o) == [drs EXCEPT ![o].idx = 0]
<1>1. PICK in \in Objects, dest \in Objects, hops \in 0..MaxHops :
        IF hops > 0 /\ ~(start(drs[in]) \subseteq Network) THEN drs' = read(in)
        ELSE \E data \in SetToSeqs(Reached(start(drs[in]), hops)) :
               drs' = [read(in) EXCEPT ![dest] = New(data)]
  BY DEF Traverse
<1> HIDE DEF start
<1> DEFINE e == [drs[in] EXCEPT !.idx = 0]
<1>2. Good(drs[in])
  BY DEF Invariant, AllGood
<1>3. /\ e \in DrsType /\ e.data = drs[in].data /\ e.ranked = drs[in].ranked
      /\ e.scored = drs[in].scored /\ e.view = drs[in].view
  BY <1>2 DEF Good, DrsType
<1>4. Good(e)
  BY <1>2, <1>3, MoveGood
<1>5. read(in) = [drs EXCEPT ![in] = e]
  OBVIOUS
<1> HIDE DEF e
<1>6. AllGood(read(in))
  BY <1>4, <1>5, UpdateGood DEF Invariant
<1> HIDE DEF read
<1>7. AllGood(drs')
  <2>1. CASE drs' = read(in)
    BY <1>6, <2>1
  <2>2. CASE ~(hops > 0 /\ ~(start(drs[in]) \subseteq Network))
    <3>1. PICK data \in SetToSeqs(Reached(start(drs[in]), hops)) :
            drs' = [read(in) EXCEPT ![dest] = New(data)]
      BY <1>1, <2>2
    <3>2. hops \in Nat
      BY BoundsAssumption
    <3>3. Reached(start(drs[in]), hops) \subseteq Fields
      BY <2>2, <3>2, ReachedTyped, NetworkAssumption
    <3>4. data \in Seq(Fields)
      BY <3>1, <3>3, ListsOfFields
    <3> QED BY <1>6, <3>1, <3>4, NewGood, UpdateGood
  <2> QED BY <1>1, <2>1, <2>2
<1> QED BY <1>7, DirectCall DEF Traverse

LEMMA StartPrimitiveKeeps ==
  ASSUME Invariant, NEW op \in Primitives, StartPrimitive(op)
  PROVE  Invariant'
<1> DEFINE expands(o) == op # "drs_expand_to_table" /\ drs[o].mode = "TABLE"
<1>1. PICK in \in Objects, dest \in Objects :
        /\ call' = [Idle EXCEPT !.op = op, !.in = in, !.dest = dest,
                      !.pc = IF expands(in) THEN "expand" ELSE "loop",
                      !.asked = Hits(drs[in])]
        /\ drs' = IF expands(in) THEN [drs EXCEPT ![in].mode = "FIELDS"]
                  ELSE drs
  BY DEF StartPrimitive
<1>2. Good(drs[in])
  BY DEF Invariant, AllGood
<1>3. Hits(drs[in]) \subseteq Fields
  BY <1>2, HitsTyped DEF Good, DrsType, Hits
<1>4. op \in AllCalls
  BY DEF Primitives, AllCalls
<1>5. call' \in CallType /\ Holds'
  BY <1>1, <1>3, <1>4, IdleTyped DEF CallType, Holds, Idle
<1>6. AllGood(drs')
  <2> DEFINE e == [drs[in] EXCEPT !.mode = "FIELDS"]
  <2>1. /\ e \in DrsType /\ e.data = drs[in].data /\ e.ranked = drs[in].ranked
        /\ e.scored = drs[in].scored /\ e.view = drs[in].view
    BY <1>2 DEF Good, DrsType, Modes
  <2>2. AllGood([drs EXCEPT ![in] = e])
    BY <1>2, <2>1, MoveGood, UpdateGood DEF Invariant
  <2> QED BY <1>1, <2>2 DEF Invariant
<1>7. calls' \in 0..MaxCalls
  BY BoundsAssumption DEF Invariant, CanCall, StartPrimitive
<1> QED BY <1>5, <1>6, <1>7 DEF Invariant

LEMMA ExpandKeeps ==
  ASSUME Invariant, Expand
  PROVE  Invariant'
<1>1. call.in \in Objects /\ call.dest \in Objects
  BY DEF Invariant, Holds, Expand
<1>2. PICK s \in Step(drs[call.in]) :
        \/ /\ s.got = Nothing
           /\ drs' = [drs EXCEPT ![call.in] = s.after]
           /\ call' = [call EXCEPT !.pc = "loop"]
        \/ /\ s.got # Nothing
           /\ \E data \in SetToSeqs(Hits(s.after)
                                      \union FieldsOf(TableOf[s.got])) :
                drs' = [drs EXCEPT ![call.in] = SetData(s.after, data)]
           /\ UNCHANGED call
  BY DEF Expand
<1>3. Good(s.after)
  BY <1>1, StepGood DEF Invariant, AllGood
<1>4. call' \in CallType /\ Holds'
  BY <1>1, <1>2 DEF Invariant, Holds, CallType
<1>5. CASE drs' = [drs EXCEPT ![call.in] = s.after]
  BY <1>1, <1>3, <1>4, <1>5, UpdateGood DEF Invariant, Expand
<1>6. CASE \E data \in SetToSeqs(Hits(s.after)
                                   \union FieldsOf(TableOf[s.got])) :
             drs' = [drs EXCEPT ![call.in] = SetData(s.after, data)]
  <2>1. PICK data \in SetToSeqs(Hits(s.after)
                                  \union FieldsOf(TableOf[s.got])) :
          drs' = [drs EXCEPT ![call.in] = SetData(s.after, data)]
    BY <1>6
  <2>2. Hits(s.after) \union FieldsOf(TableOf[s.got]) \subseteq Fields
    BY <1>3, HitsTyped, NetworkAssumption DEF Good, DrsType, Hits, FieldsOf
  <2>3. data \in Seq(Fields)
    BY <2>1, <2>2, ListsOfFields
  <2>4. AllGood(drs')
    BY <1>1, <1>3, <2>1, <2>3, SetDataGood, UpdateGood DEF Invariant
  <2> QED BY <1>4, <2>4 DEF Invariant, Expand
<1> QED BY <1>2, <1>5, <1>6

LEMMA LoopKeeps ==
  ASSUME Invariant, Loop
  PROVE  Invariant'
<1>1. call.in \in Objects /\ call.dest \in Objects
  BY DEF Invariant, Holds, Loop
<1>2. PICK s \in Step(drs[call.in]) :
        /\ s.got # Nothing /\ ~Raises(s.got)
        /\ drs' = [drs EXCEPT ![call.in] = s.after]
        /\ call' = [call EXCEPT !.out = @ \union Answers(call.op, s.got)]
  BY DEF Loop
<1>3. Good(s.after) /\ s.got \in Fields \union Tables \union {Nothing}
  BY <1>1, StepGood DEF Invariant, AllGood
<1>4. Answers(call.op, s.got) \subseteq Fields
  BY <1>2, <1>3, AnswersTyped DEF Raises
<1>5. call' \in CallType /\ Holds'
  BY <1>1, <1>2, <1>4 DEF Invariant, Holds, CallType, Loop
<1> QED BY <1>1, <1>2, <1>3, <1>5, UpdateGood DEF Invariant, Loop

LEMMA LoopRaisesKeeps ==
  ASSUME Invariant, LoopRaises
  PROVE  Invariant'
<1>1. call.in \in Objects
  BY DEF Invariant, Holds, LoopRaises
<1>2. PICK s \in Step(drs[call.in]) : drs' = [drs EXCEPT ![call.in] = s.after]
  BY DEF LoopRaises
<1>3. AllGood(drs')
  BY <1>1, <1>2, StepGood, UpdateGood DEF Invariant, AllGood
<1>4. call' \in CallType /\ Holds'
  BY IdleTyped DEF Holds, LoopRaises
<1> QED BY <1>3, <1>4 DEF Invariant, LoopRaises

\* A call that returns its answer.
LEMMA FinishKeeps ==
  ASSUME Invariant, call.pc # "idle", NEW after, Good(after), Finish(after)
  PROVE  Invariant' /\ call.out = Hits(drs'[call.dest])
<1>1. call.in \in Objects /\ call.dest \in Objects /\ call.out \subseteq Fields
  BY DEF Invariant, Holds, CallType
<1>2. PICK data \in SetToSeqs(call.out) :
        drs' = [drs EXCEPT ![call.in] = after, ![call.dest] = New(data)]
  BY DEF Finish
<1>3. data \in Seq(Fields) /\ ToSet(data) = call.out
  BY <1>1, <1>2, ListsOfFields
<1>4. Good(New(data)) /\ New(data).data = data
  BY <1>3, NewGood
<1>5. AllGood(drs')
  BY <1>1, <1>2, <1>4, UpdateBoth DEF Invariant
<1>6. Hits(drs'[call.dest]) = call.out
  <2>1. drs'[call.dest] = New(data)
    BY <1>1, <1>2 DEF Invariant, AllGood
  <2> QED BY <1>3, <1>4, <2>1 DEF Hits
<1>7. call' \in CallType /\ Holds'
  BY IdleTyped DEF Holds, Finish
<1> QED BY <1>5, <1>6, <1>7 DEF Invariant, Finish

LEMMA LoopEndsKeeps ==
  ASSUME Invariant, LoopEnds
  PROVE  Invariant' /\ call.out = Hits(drs'[call.dest])
<1>1. call.in \in Objects /\ call.pc # "idle"
  BY DEF Invariant, Holds, LoopEnds
<1>2. PICK s \in Step(drs[call.in]) : Finish(s.after)
  BY DEF LoopEnds
<1>3. Good(s.after)
  BY <1>1, StepGood DEF Invariant, AllGood
<1> QED BY <1>1, <1>2, <1>3, FinishKeeps

LEMMA StartPathsKeeps ==
  ASSUME Invariant, NEW op \in {"paths_between", "paths"}, StartPaths(op)
  PROVE  Invariant'
<1>1. PICK a \in Objects, b \in Objects, dest \in Objects :
        call' = [Idle EXCEPT !.op = op, !.in = a, !.other = b, !.dest = dest,
                   !.pc = "outer", !.asked = Hits(drs[a])]
  BY DEF StartPaths
<1>2. Hits(drs[a]) \subseteq Fields
  BY HitsTyped DEF Invariant, AllGood, DrsType, Hits
<1>3. call' \in CallType /\ Holds'
  BY <1>1, <1>2, IdleTyped DEF CallType, Holds, Idle, AllCalls
<1>4. calls' \in 0..MaxCalls
  BY BoundsAssumption DEF Invariant, CanCall, StartPaths
<1> QED BY <1>3, <1>4 DEF Invariant, StartPaths

LEMMA OuterKeeps ==
  ASSUME Invariant, Outer
  PROVE  Invariant'
<1>1. /\ call.in \in Objects /\ call.dest \in Objects /\ call.other \in Objects
      /\ call.pc # "idle"
  BY DEF Invariant, Holds, Outer
<1>2. PICK s \in Step(drs[call.in]) :
        \/ s.got = Nothing /\ Finish(s.after)
        \/ /\ s.got # Nothing
           /\ drs' = [drs EXCEPT ![call.in] = s.after]
           /\ call' = [call EXCEPT !.pc = "inner", !.source = s.got]
           /\ UNCHANGED calls
  BY DEF Outer
<1>3. Good(s.after) /\ s.got \in Fields \union Tables \union {Nothing}
  BY <1>1, StepGood DEF Invariant, AllGood
<1>4. CASE Finish(s.after)
  BY <1>1, <1>3, <1>4, FinishKeeps
<1>5. CASE /\ drs' = [drs EXCEPT ![call.in] = s.after]
           /\ call' = [call EXCEPT !.pc = "inner", !.source = s.got]
           /\ UNCHANGED calls
  <2>1. call' \in CallType /\ Holds'
    BY <1>1, <1>3, <1>5 DEF Invariant, Holds, CallType
  <2> QED BY <1>1, <1>3, <1>5, <2>1, UpdateGood DEF Invariant
<1> QED BY <1>2, <1>4, <1>5

LEMMA InnerEndsKeeps ==
  ASSUME Invariant, InnerEnds
  PROVE  Invariant'
<1>1. /\ call.in \in Objects /\ call.dest \in Objects /\ call.other \in Objects
  BY DEF Invariant, Holds, InnerEnds
<1>2. PICK s \in Step(drs[call.other]) : drs' = [drs EXCEPT ![call.other] = s.after]
  BY DEF InnerEnds
<1>3. AllGood(drs')
  BY <1>1, <1>2, StepGood, UpdateGood DEF Invariant, AllGood
<1>4. call' \in CallType /\ Holds'
  BY <1>1 DEF Invariant, Holds, CallType, InnerEnds
<1> QED BY <1>3, <1>4 DEF Invariant, InnerEnds

LEMMA InnerSameKeeps ==
  ASSUME Invariant, InnerSame
  PROVE  Invariant'
<1>1. /\ call.dest \in Objects /\ call.other \in Objects
      /\ call.out \subseteq Fields
  BY DEF Invariant, Holds, InnerSame, CallType
<1>2. PICK s \in Step(drs[call.other]) :
        IF call.op = "paths"
        THEN drs' = [drs EXCEPT ![call.other] = s.after] /\ UNCHANGED call
        ELSE /\ \E data \in SetToSeqs(call.out) :
                  drs' = [drs EXCEPT ![call.other] = s.after,
                                     ![call.dest] = New(data)]
             /\ call' = Idle
  BY DEF InnerSame
<1>3. Good(s.after)
  BY <1>1, StepGood DEF Invariant, AllGood
<1>4. CASE drs' = [drs EXCEPT ![call.other] = s.after] /\ UNCHANGED call
  <2>1. AllGood(drs')
    BY <1>1, <1>3, <1>4, UpdateGood DEF Invariant
  <2> QED BY <1>4, <2>1 DEF Invariant, Holds, InnerSame
<1>5. CASE /\ \E data \in SetToSeqs(call.out) :
                drs' = [drs EXCEPT ![call.other] = s.after,
                                   ![call.dest] = New(data)]
           /\ call' = Idle
  <2>1. PICK data \in SetToSeqs(call.out) :
          drs' = [drs EXCEPT ![call.other] = s.after, ![call.dest] = New(data)]
    BY <1>5
  <2>2. data \in Seq(Fields)
    BY <1>1, <2>1, ListsOfFields
  <2>3. AllGood(drs')
    BY <1>1, <1>3, <2>1, <2>2, NewGood, UpdateBoth DEF Invariant
  <2>4. call' \in CallType /\ Holds'
    BY <1>5, IdleTyped DEF Holds
  <2> QED BY <2>3, <2>4 DEF Invariant, InnerSame
<1> QED BY <1>2, <1>4, <1>5

LEMMA InnerOtherKeeps ==
  ASSUME Invariant, InnerOther
  PROVE  Invariant'
<1>1. /\ call.in \in Objects /\ call.dest \in Objects /\ call.other \in Objects
      /\ call.pc = "inner" /\ call \in CallType
  BY DEF Invariant, Holds, InnerOther
<1>2. PICK s \in Step(drs[call.other]) :
        /\ drs' = [drs EXCEPT ![call.other] = s.after]
        /\ \/ UNCHANGED call
           \/ \E S \in PathHits(call.source, s.got) :
                call' = [call EXCEPT !.out = @ \union S]
           \/ call' = Idle
  BY DEF InnerOther
<1>3. AllGood(drs')
  BY <1>1, <1>2, StepGood, UpdateGood DEF Invariant, AllGood
<1>4. call' \in CallType /\ Holds'
  <2>1. CASE UNCHANGED call
    BY <2>1 DEF Invariant, Holds
  <2>2. CASE \E S \in PathHits(call.source, s.got) :
               call' = [call EXCEPT !.out = @ \union S]
    <3>1. PICK S \in PathHits(call.source, s.got) :
            call' = [call EXCEPT !.out = @ \union S]
      BY <2>2
    <3>2. S \subseteq Fields
      BY <3>1, PathsTyped
    <3> QED BY <1>1, <3>1, <3>2 DEF CallType, Holds
  <2>3. CASE call' = Idle
    BY <2>3, IdleTyped DEF Holds
  <2> QED BY <1>2, <2>1, <2>2, <2>3
<1> QED BY <1>3, <1>4 DEF Invariant, InnerOther

LEMMA InvariantStep ==
  ASSUME Invariant, [Next]_vars
  PROVE  Invariant'
<1>1. CASE Seed
  BY <1>1, SeedKeeps
<1>2. CASE SetMode
  BY <1>2, SetModeKeeps
<1>3. CASE Rank
  BY <1>3, Ranked, DirectCall DEF Rank
<1>4. CASE Show
  BY <1>4, ShowKeeps
<1>5. CASE Traverse
  BY <1>5, TraverseKeeps
<1>6. CASE \E op \in {"union", "intersection", "difference"} : Combine(op)
  BY <1>6, CombineKeeps
<1>7. CASE \E op \in Primitives : StartPrimitive(op)
  BY <1>7, StartPrimitiveKeeps
<1>8. CASE \E op \in {"paths_between", "paths"} : StartPaths(op)
  BY <1>8, StartPathsKeeps
<1>9. CASE CallStep
  BY <1>9, ExpandKeeps, LoopKeeps, LoopRaisesKeeps, LoopEndsKeeps, OuterKeeps,
     InnerEndsKeeps, InnerSameKeeps, InnerOtherKeeps DEF CallStep
<1>10. CASE UNCHANGED vars
  BY <1>10 DEF vars, Invariant, Holds
<1> QED BY <1>1, <1>2, <1>3, <1>4, <1>5, <1>6, <1>7, <1>8, <1>9, <1>10
        DEF Next, Rest

\* Every reachable state of a session satisfies the inductive invariant.
THEOREM InvariantHolds == SafetySpec => []Invariant
<1>1. Init => Invariant
  BY InvariantInit
<1>2. Invariant /\ [Next]_vars => Invariant'
  BY InvariantStep
<1> QED BY <1>1, <1>2, PTL DEF SafetySpec

-----------------------------------------------------------------------------
(* The properties *)

\* Result sets and the call in progress keep their types, whatever the client
\* does (apiutils.py, class DRS; ddapi.py).
THEOREM TypeCorrect == SafetySpec => []TypeOK
<1>1. Invariant => TypeOK
  BY DEF Invariant, AllGood, TypeOK
<1> QED BY <1>1, InvariantHolds, PTL

\* A ranking keeps every hit of the set it ranks, in any session: the scores
\* a ranked set kept cover its data, because set_data ends the ranking
\* (apiutils.py, rank_certainty and rank_coverage).
THEOREM RankingsKeepHits == SafetySpec => RankLosesNothing
<1>1. Invariant => [Rank => \A o \in Objects : Hits(drs[o]) \subseteq Hits(drs'[o])]_vars
  BY Ranked
<1> QED BY <1>1, InvariantHolds, PTL DEF RankLosesNothing

\* Without rankings, which replace the data and leave the view, a table view
\* is the one of the data (apiutils.py, set_data and __next__).
THEOREM TableViewsAreFresh ==
  ASSUME "rank" \notin Calls
  PROVE  SafetySpec => []TableViewFresh
<1>1. Invariant => TableViewFresh
  BY DEF Invariant, AllGood, Good, Fresh, TableViewFresh
<1> QED BY <1>1, InvariantHolds, PTL

-----------------------------------------------------------------------------
(* Sessions in which iteration is sound *)

\* The network knows every field, no call returns from inside a loop, and
\* no set is put in table mode.
SoundSession ==
  Network = Fields /\ Calls \intersect {"paths_between", "paths", "table"} = {}

\* A cursor is off the start only in the set that a running loop iterates, and
\* then the answer so far is the one for the elements before the cursor.
Quiet(d) == d.mode = "FIELDS" /\ d.tidx = 0
AtStart(d) == Quiet(d) /\ d.idx = 0

Looped(d) ==
  /\ d.idx <= Len(d.data)
  /\ call.asked = Hits(d)
  /\ call.out = UNION {Answers(call.op, d.data[i]) : i \in 1..d.idx}

InStep ==
  /\ call.pc \in {"idle", "loop"}
  /\ \A o \in Objects : Quiet(drs[o])
  /\ \A o \in Objects : ~(call.pc = "loop" /\ o = call.in) => AtStart(drs[o])
  /\ call.pc = "loop" => Looped(drs[call.in])

LEMMA InStepInit == Init => InStep
BY DEF Init, InStep, Idle, New, Quiet, AtStart

\* What a call between loops leaves.
LEMMA Rests ==
  ASSUME call.pc = "idle", UNCHANGED call,
         \A o \in Objects : AtStart(drs'[o])
  PROVE  InStep'
BY DEF InStep, AtStart

LEMMA DirectInStep ==
  ASSUME Invariant, InStep, SoundSession, CanCall,
         Seed \/ Rank \/ Show \/ Traverse
           \/ \E op \in {"union", "intersection", "difference"} : Combine(op)
  PROVE  InStep'
<1>1. call.pc = "idle" /\ \A o \in Objects : AtStart(drs[o])
  BY DEF CanCall, Idle, InStep
<1>2. drs \in [Objects -> DrsType]
  BY DEF Invariant, AllGood
<1>3. \A data : AtStart(New(data))
  BY DEF AtStart, Quiet, New
<1>4. CASE Seed
  <2>1. PICK o \in Objects : \E data : drs' = [drs EXCEPT ![o] = New(data)]
    BY <1>4 DEF Seed
  <2>2. \A p \in Objects : AtStart(drs'[p])
    BY <1>1, <1>2, <1>3, <2>1
  <2> QED BY <1>1, <1>4, <2>2, Rests DEF Seed
<1>5. CASE Rank
  <2>1. PICK o \in Objects : \E data, scored :
          drs' = [drs EXCEPT ![o] = [drs[o] EXCEPT !.data = data,
                                       !.scored = scored, !.ranked = TRUE]]
    BY <1>5 DEF Rank
  <2>2. PICK e : /\ drs' = [drs EXCEPT ![o] = e]
                 /\ \E data, scored :
                      e = [drs[o] EXCEPT !.data = data, !.scored = scored,
                                         !.ranked = TRUE]
    BY <2>1
  <2>3. AtStart(e)
    BY <1>1, <1>2, <2>2 DEF AtStart, Quiet, DrsType
  <2>4. \A p \in Objects : AtStart(drs'[p])
    BY <1>1, <1>2, <2>2, <2>3
  <2> QED BY <1>1, <1>5, <2>4, Rests DEF Rank
<1>6. CASE Show
  <2>1. PICK o \in Objects :
          \/ drs' = [drs EXCEPT ![o] = [drs[o] EXCEPT !.idx = 0]]
          \/ \E view :
               drs' = [drs EXCEPT ![o] = [drs[o] EXCEPT !.view = view, !.tidx = 0]]
    BY <1>6 DEF Show
  <2>2. /\ AtStart([drs[o] EXCEPT !.idx = 0])
        /\ \A view : AtStart([drs[o] EXCEPT !.view = view, !.tidx = 0])
    BY <1>1, <1>2 DEF AtStart, Quiet, DrsType
  <2>3. \A p \in Objects : AtStart(drs'[p])
    BY <1>1, <1>2, <2>1, <2>2
  <2> QED BY <1>1, <1>6, <2>3, Rests DEF Show
<1>7. CASE Traverse
  <2>1. PICK in \in Objects, dest \in Objects :
          \/ drs' = [drs EXCEPT ![in] = [drs[in] EXCEPT !.idx = 0]]
          \/ \E data : drs' = [[drs EXCEPT ![in] = [drs[in] EXCEPT !.idx = 0]]
                                 EXCEPT ![dest] = New(data)]
    BY <1>7 DEF Traverse
  <2>2. AtStart([drs[in] EXCEPT !.idx = 0])
    BY <1>1, <1>2 DEF AtStart, Quiet, DrsType
  <2>3. \A p \in Objects : AtStart(drs'[p])
    BY <1>1, <1>2, <1>3, <2>1, <2>2
  <2> QED BY <1>1, <1>7, <2>3, Rests DEF Traverse
<1>8. CASE \E op \in {"union", "intersection", "difference"} : Combine(op)
  <2>1. PICK a \in Objects : \E data :
          drs' = [drs EXCEPT ![a] = SetData(drs[a], data)]
    BY <1>8 DEF Combine
  <2>2. \A data : AtStart(SetData(drs[a], data))
    BY <1>1, <1>2 DEF AtStart, Quiet, DrsType, SetData
  <2>3. \A p \in Objects : AtStart(drs'[p])
    BY <1>1, <1>2, <2>1, <2>2
  <2> QED BY <1>1, <1>8, <2>3, Rests DEF Combine
<1> QED BY <1>4, <1>5, <1>6, <1>7, <1>8

LEMMA StartInStep ==
  ASSUME Invariant, InStep, SoundSession,
         NEW op \in Primitives, StartPrimitive(op)
  PROVE  InStep'
<1>1. PICK in \in Objects, dest \in Objects :
        /\ call' = [Idle EXCEPT !.op = op, !.in = in, !.dest = dest,
                      !.pc = "loop", !.asked = Hits(drs[in])]
        /\ drs' = drs
  BY DEF StartPrimitive, InStep, Quiet
<1>2. \A o \in Objects : AtStart(drs[o])
  BY DEF StartPrimitive, CanCall, Idle, InStep
<1>3. call'.pc = "loop" /\ call'.in = in /\ call'.asked = Hits(drs[in]) /\ call'.out = {}
  BY <1>1 DEF Idle
<1>4. drs[in].data \in Seq(Fields) /\ drs[in].idx = 0
  BY <1>2 DEF Invariant, AllGood, DrsType, AtStart
<1>5. Looped(drs[in])'
  BY <1>1, <1>3, <1>4 DEF Looped, Hits
<1> QED BY <1>1, <1>2, <1>3, <1>5 DEF InStep, AtStart

\* In a sound session __next__ gives the element at the cursor, or has given
\* them all.
LEMMA NextInStep ==
  ASSUME Invariant, InStep, call.pc = "loop", NEW s \in Step(drs[call.in])
  PROVE  LET d == drs[call.in] IN
         /\ s.after.mode = "FIELDS" /\ s.after.tidx = 0 /\ s.after.data = d.data
         /\ \/ /\ s.got = Nothing /\ d.idx = Len(d.data) /\ s.after.idx = 0
            \/ /\ s.got \in Fields /\ s.got # Nothing
               /\ s.got = d.data[d.idx + 1]
               /\ d.idx + 1 <= Len(d.data) /\ s.after.idx = d.idx + 1
<1> DEFINE d == drs[call.in]
<1>1. call.in \in Objects
  BY DEF Invariant, Holds
<1>2. d \in DrsType /\ d.mode = "FIELDS" /\ d.tidx = 0 /\ d.idx <= Len(d.data)
  BY <1>1 DEF Invariant, AllGood, InStep, Quiet, Looped
<1>3. s = NextField(d)
  BY <1>2 DEF Step
<1>4. d.data \in Seq(Fields) /\ d.idx \in Nat
  BY <1>2 DEF DrsType
<1>5. CASE d.idx < Len(d.data)
  <2>1. s.got = d.data[d.idx + 1] /\ s.after = [d EXCEPT !.idx = d.idx + 1]
    BY <1>3, <1>5 DEF NextField
  <2>2. d.data[d.idx + 1] \in Fields /\ d.idx + 1 <= Len(d.data)
    BY <1>4, <1>5
  <2>3. /\ s.after.mode = "FIELDS" /\ s.after.tidx = 0
        /\ s.after.data = d.data /\ s.after.idx = d.idx + 1
    BY <1>2, <2>1 DEF DrsType
  <2> QED BY <2>1, <2>2, <2>3, NothingAssumption
<1>6. CASE ~(d.idx < Len(d.data))
  <2>1. s.got = Nothing /\ s.after = [d EXCEPT !.idx = 0]
    BY <1>3, <1>6 DEF NextField
  <2>2. /\ s.after.mode = "FIELDS" /\ s.after.tidx = 0
        /\ s.after.data = d.data /\ s.after.idx = 0
    BY <1>2, <2>1 DEF DrsType
  <2>3. d.idx = Len(d.data)
    BY <1>2, <1>4, <1>6
  <2> QED BY <2>1, <2>2, <2>3
<1> QED BY <1>5, <1>6

LEMMA LoopInStep ==
  ASSUME Invariant, InStep, SoundSession, Loop
  PROVE  InStep'
<1> DEFINE d == drs[call.in]
<1>1. PICK s \in Step(d) :
        /\ s.got # Nothing
        /\ drs' = [drs EXCEPT ![call.in] = s.after]
        /\ call' = [call EXCEPT !.out = @ \union Answers(call.op, s.got)]
  BY DEF Loop
<1>2. call.pc = "loop" /\ call.in \in Objects /\ call \in CallType /\ d \in DrsType
  BY DEF Loop, Invariant, Holds, AllGood
<1>3. /\ s.after.mode = "FIELDS" /\ s.after.tidx = 0 /\ s.after.data = d.data
      /\ s.got = d.data[d.idx + 1]
      /\ d.idx + 1 <= Len(d.data) /\ s.after.idx = d.idx + 1
  BY <1>1, <1>2, NextInStep
<1>4. /\ call'.pc = "loop" /\ call'.in = call.in /\ call'.op = call.op
      /\ call'.asked = call.asked
      /\ call'.out = call.out \union Answers(call.op, s.got)
  BY <1>1, <1>2 DEF CallType
<1>5. drs'[call.in] = s.after /\ \A o \in Objects \ {call.in} : drs'[o] = drs[o]
  BY <1>1, <1>2 DEF Invariant, AllGood
<1>6. d.idx \in Nat /\ d.data \in Seq(Fields)
  BY <1>2 DEF DrsType
<1>7. call.out = UNION {Answers(call.op, d.data[i]) : i \in 1..d.idx}
  BY <1>2 DEF InStep, Looped
<1>8. 1..(d.idx + 1) = (1..d.idx) \union {d.idx + 1}
  BY <1>6
<1> HIDE DEF d
<1>9. call.out \union Answers(call.op, s.got) =
        UNION {Answers(call.op, d.data[i]) : i \in 1..(d.idx + 1)}
  BY <1>3, <1>7, <1>8
<1>10. Looped(drs[call.in])'
  <2>1. call.asked = Hits(d)
    BY <1>2 DEF InStep, Looped, d
  <2> QED BY <1>3, <1>4, <1>5, <1>9, <2>1 DEF Looped, Hits
<1>11. \A o \in Objects : Quiet(drs[o])'
  BY <1>3, <1>5 DEF InStep, Quiet
<1> QED BY <1>2, <1>4, <1>5, <1>10, <1>11 DEF InStep, AtStart, Quiet

\* No field raises: the network knows it, and it is not a table.
LEMMA NothingRaises ==
  ASSUME Invariant, InStep, SoundSession
  PROVE  ~LoopRaises
<1> SUFFICES ASSUME LoopRaises PROVE FALSE
  OBVIOUS
<1>1. PICK s \in Step(drs[call.in]) : s.got # Nothing /\ Raises(s.got)
  BY DEF LoopRaises
<1>2. s.got \in Fields
  BY <1>1, NextInStep DEF LoopRaises
<1> QED BY <1>1, <1>2, HitsAssumption DEF Raises, SoundSession

LEMMA LoopEndsInStep ==
  ASSUME Invariant, InStep, SoundSession, LoopEnds
  PROVE  /\ InStep'
         /\ Hits(drs'[call.dest]) = UNION {Answers(call.op, f) : f \in call.asked}
<1> DEFINE d == drs[call.in]
<1>1. PICK s \in Step(d) : s.got = Nothing /\ Finish(s.after)
  BY DEF LoopEnds
<1>2. /\ call.pc = "loop" /\ call.in \in Objects /\ call.dest \in Objects
      /\ d \in DrsType
  BY DEF LoopEnds, Invariant, Holds, AllGood
<1>3. /\ AtStart(s.after) /\ d.idx = Len(d.data)
  BY <1>1, <1>2, NextInStep, NothingAssumption DEF AtStart, Quiet
<1>4. PICK data :
        drs' = [drs EXCEPT ![call.in] = s.after, ![call.dest] = New(data)]
  BY <1>1 DEF Finish
<1>5. \A o \in Objects : AtStart(drs'[o])
  <2>1. AtStart(New(data))
    BY DEF AtStart, Quiet, New
  <2>2. \A o \in Objects \ {call.in} : AtStart(drs[o])
    BY DEF InStep
  <2> QED BY <1>2, <1>3, <1>4, <2>1, <2>2 DEF Invariant, AllGood
<1>6. call'.pc = "idle"
  BY <1>1, IdleTyped DEF Finish
<1>7. InStep'
  BY <1>5, <1>6 DEF InStep, AtStart
<1>8. call.out = UNION {Answers(call.op, d.data[i]) : i \in 1..d.idx}
      /\ call.asked = Hits(d)
  BY <1>2 DEF InStep, Looped
<1>9. Hits(d) = {d.data[i] : i \in 1..d.idx}
  BY <1>2, <1>3 DEF Hits, ToSet, DrsType
<1> HIDE DEF d
<1>10. call.out = UNION {Answers(call.op, f) : f \in call.asked}
  BY <1>8, <1>9
<1> QED BY <1>7, <1>10, LoopEndsKeeps

LEMMA InStepStep ==
  ASSUME Invariant, InStep, SoundSession, [Next]_vars
  PROVE  InStep'
<1>1. CASE Seed \/ Rank \/ Show \/ Traverse
             \/ \E op \in {"union", "intersection", "difference"} : Combine(op)
  BY <1>1, DirectInStep DEF Seed, Rank, Show, Traverse, Combine
<1>2. CASE \E op \in Primitives : StartPrimitive(op)
  BY <1>2, StartInStep
<1>3. CASE Loop
  BY <1>3, LoopInStep
<1>4. CASE LoopEnds
  BY <1>4, LoopEndsInStep
<1>5. ~SetMode /\ \A op \in {"paths_between", "paths"} : ~StartPaths(op)
  BY DEF SetMode, StartPaths, SoundSession
<1>6. ~(Expand \/ LoopRaises \/ Outer \/ InnerEnds \/ InnerSame \/ InnerOther)
  BY NothingRaises DEF InStep, Expand, Outer, InnerEnds, InnerSame, InnerOther
<1>7. CASE UNCHANGED vars
  BY <1>7 DEF vars, InStep, Looped, Quiet, AtStart
<1> QED BY <1>1, <1>2, <1>3, <1>4, <1>5, <1>6, <1>7 DEF Next, CallStep, Rest

\* Between two calls every cursor is at the start (apiutils.py, __next__):
\* only a network that misses a field, a return from inside a loop or the
\* table mode can leave one elsewhere.
THEOREM CursorsReturnToStart ==
  ASSUME SoundSession
  PROVE  SafetySpec => []CursorsAtRest
<1>1. Init => InStep
  BY InStepInit
<1>2. Invariant /\ InStep /\ [Next]_vars => InStep'
  BY InStepStep
<1>3. InStep => CursorsAtRest
  BY DEF InStep, CursorsAtRest, AtStart, Quiet, Idle
<1> QED BY <1>1, <1>2, <1>3, InvariantHolds, PTL DEF SafetySpec

\* In such a session a primitive answers for the whole of its input, whichever
\* calls ran before it and whichever objects it reads and replaces
\* (ddapi.py, similar_to and its like).
THEOREM PrimitivesReadAll ==
  ASSUME SoundSession
  PROVE  SafetySpec => AnswersWholeInput
<1>1. Init => InStep
  BY InStepInit
<1>2. Invariant /\ InStep /\ [Next]_vars => InStep'
  BY InStepStep
<1>3. Invariant /\ InStep =>
        [LoopEnds => Hits(drs'[call.dest]) =
                       UNION {Answers(call.op, f) : f \in call.asked}]_vars
  BY LoopEndsInStep
<1> QED BY <1>1, <1>2, <1>3, InvariantHolds, PTL DEF SafetySpec, AnswersWholeInput

-----------------------------------------------------------------------------
(* A call whose loops own their cursors cannot go on for ever *)

\* What is left of an iteration over d.  A table view that is not made yet will
\* have one element per table.
Extent(d) ==
  IF d.mode = "FIELDS" THEN Len(d.data)
  ELSE IF d.view = <<>> THEN Cardinality(TablesOf(Hits(d))) ELSE Len(d.view)
Cursor(d) == IF d.mode = "FIELDS" THEN d.idx ELSE d.tidx
Remaining(d) == IF Cursor(d) < Extent(d) THEN Extent(d) - Cursor(d) ELSE 0

LEMMA RemainingTyped ==
  ASSUME NEW d, Good(d)
  PROVE  Extent(d) \in Nat /\ Cursor(d) \in Nat /\ Remaining(d) \in Nat
<1>1. Hits(d) \subseteq Fields /\ Len(d.data) \in Nat /\ Len(d.view) \in Nat
      /\ d.idx \in Nat /\ d.tidx \in Nat
  BY HitsTyped DEF Good, DrsType, Hits
<1>2. Cardinality(TablesOf(Hits(d))) \in Nat
  BY <1>1, HitsFinite, FS_CardinalityType
<1> QED BY <1>1, <1>2 DEF Extent, Cursor, Remaining

\* A view has the length it was expected to have.
LEMMA ViewExtent ==
  ASSUME NEW d, Good(d), d.mode # "FIELDS", NEW view \in Views(d)
  PROVE  Len(view) = Extent(d)
<1>1. CASE d.view = <<>>
  <2>1. view \in SetToSeqs(TablesOf(Hits(d)))
    BY <1>1 DEF Views
  <2>2. view \in [1..Cardinality(TablesOf(Hits(d))) -> TablesOf(Hits(d))]
    BY <2>1 DEF SetToSeqs
  <2>3. Cardinality(TablesOf(Hits(d))) \in Nat
    <3>1. Hits(d) \subseteq Fields
      BY HitsTyped DEF Good, DrsType, Hits
    <3> QED BY <3>1, HitsFinite, FS_CardinalityType
  <2> QED BY <1>1, <2>2, <2>3 DEF Extent
<1>2. CASE d.view # <<>>
  BY <1>2 DEF Views, Extent
<1> QED BY <1>1, <1>2

\* Each element that an iteration yields leaves less to iterate, wherever the
\* cursor was when it began.
LEMMA StepRemains ==
  ASSUME NEW d, Good(d), NEW s \in Step(d), s.got # Nothing
  PROVE  Remaining(s.after) < Remaining(d)
<1>1. CASE d.mode = "FIELDS"
  <2>1. d \in DrsType /\ d.idx \in Nat /\ Len(d.data) \in Nat
    BY DEF Good, DrsType
  <2>2. d.idx < Len(d.data) /\ s.after = [d EXCEPT !.idx = @ + 1]
    BY <1>1 DEF Step, NextField
  <2>3. s.after.mode = "FIELDS" /\ s.after.data = d.data /\ s.after.idx = d.idx + 1
    BY <1>1, <2>1, <2>2 DEF DrsType
  <2> QED BY <1>1, <2>1, <2>2, <2>3 DEF Remaining, Cursor, Extent
<1>2. CASE d.mode # "FIELDS"
  <2>1. PICK view \in Views(d) : s = NextTable(d, view)
    BY <1>2 DEF Step
  <2>2. d \in DrsType /\ d.tidx \in Nat /\ view \in Seq(Tables) /\ Len(view) \in Nat
    BY ViewsGood DEF Good, DrsType
  <2>3. d.tidx < Len(view) /\ s.after = [d EXCEPT !.view = view, !.tidx = @ + 1]
    BY <2>1 DEF NextTable
  <2>4. s.after.mode = d.mode /\ s.after.view = view /\ s.after.tidx = d.tidx + 1
    BY <2>2, <2>3 DEF DrsType
  <2>5. view # <<>>
    BY <2>2, <2>3
  <2>6. Len(view) = Extent(d)
    BY <1>2, ViewExtent
  <2>7. Extent(s.after) = Len(view) /\ Cursor(s.after) = d.tidx + 1
        /\ Cursor(d) = d.tidx
    BY <1>2, <2>4, <2>5 DEF Extent, Cursor
  <2> QED BY <2>2, <2>3, <2>6, <2>7 DEF Remaining
<1> QED BY <1>1, <1>2

\* The inner loop has an element of the outer one.
HasSource == call.pc = "inner" => call.source # Nothing

LEMMA SourceStep ==
  ASSUME Invariant, HasSource, [Next]_vars
  PROVE  HasSource'
<1>1. CASE call' = call
  BY <1>1 DEF HasSource
<1>2. CASE call' = Idle
  BY <1>2 DEF HasSource, Idle
<1>3. CASE \E op \in Primitives : StartPrimitive(op)
  BY <1>3 DEF StartPrimitive, HasSource, Idle
<1>4. CASE \E op \in {"paths_between", "paths"} : StartPaths(op)
  BY <1>4 DEF StartPaths, HasSource, Idle
<1>5. CASE Expand
  BY <1>5 DEF Expand, HasSource, Invariant, CallType
<1>6. CASE Loop
  BY <1>6 DEF Loop, HasSource, Invariant, CallType
<1>7. CASE Outer
  <2>1. PICK s \in Step(drs[call.in]) :
          \/ s.got = Nothing /\ Finish(s.after)
          \/ /\ s.got # Nothing
             /\ call' = [call EXCEPT !.pc = "inner", !.source = s.got]
    BY <1>7 DEF Outer
  <2> QED BY <1>2, <2>1 DEF Finish, HasSource, Invariant, CallType
<1>8. CASE InnerEnds
  BY <1>8 DEF InnerEnds, HasSource, Invariant, CallType
<1>9. CASE InnerOther
  <2>1. call' = call \/ call' = Idle \/ \E S : call' = [call EXCEPT !.out = @ \union S]
    BY <1>9 DEF InnerOther
  <2>2. ASSUME NEW S, call' = [call EXCEPT !.out = @ \union S]
        PROVE  HasSource'
    BY <2>2, <1>9 DEF InnerOther, HasSource, Invariant, CallType
  <2> QED BY <1>1, <1>2, <2>1, <2>2
<1> QED
  BY <1>1, <1>2, <1>3, <1>4, <1>5, <1>6, <1>7, <1>8, <1>9
     DEF Next, CallStep, Seed, SetMode, Rank, Show, Traverse, Combine, Rest,
         LoopRaises, LoopEnds, Finish, InnerSame, vars

\* What is left to the outer loop, and to the inner one while it runs.
OuterLeft == Remaining(drs[call.in])
InnerLeft == IF call.pc = "inner" THEN Remaining(drs[call.other]) + 1 ELSE 0

\* Less is left to the outer loop; or as much, and less to the inner one.
Nearer ==
  /\ OuterLeft \in Nat /\ InnerLeft \in Nat /\ OuterLeft' \in Nat /\ InnerLeft' \in Nat
  /\ OuterLeft' < OuterLeft \/ (OuterLeft' = OuterLeft /\ InnerLeft' < InnerLeft)

\* A step of the inner loop, over another set than the outer one.
LEMMA InnerNearer ==
  ASSUME Invariant, Invariant', call.pc = "inner", call.in # call.other,
         NEW s \in Step(drs[call.other]), s.got # Nothing,
         drs' = [drs EXCEPT ![call.other] = s.after],
         call'.pc = "inner", call'.in = call.in, call'.other = call.other
  PROVE  Nearer
<1>1. call.in \in Objects /\ call.other \in Objects /\ DOMAIN drs = Objects
  BY DEF Invariant, Holds, AllGood
<1>2. Good(drs[call.in]) /\ Good(drs[call.other])
  BY <1>1 DEF Invariant, AllGood
<1>3. drs'[call.in] = drs[call.in] /\ drs'[call.other] = s.after
  BY <1>1
<1>4. Remaining(s.after) < Remaining(drs[call.other])
  BY <1>2, StepRemains
<1>5. Good(s.after)
  BY <1>2, StepGood
<1>6. Remaining(s.after) \in Nat /\ Remaining(drs[call.other]) \in Nat
      /\ Remaining(drs[call.in]) \in Nat
  BY <1>2, <1>5, RemainingTyped
<1>7. OuterLeft' = OuterLeft
  BY <1>3 DEF OuterLeft
<1>8. InnerLeft = Remaining(drs[call.other]) + 1
  BY DEF InnerLeft
<1>9. InnerLeft' = Remaining(s.after) + 1
  BY <1>3 DEF InnerLeft
<1> QED BY <1>4, <1>6, <1>7, <1>8, <1>9 DEF Nearer, OuterLeft

\* Every step of a call that owns its cursors ends it or brings it nearer to
\* its end.
LEMMA CallNearer ==
  ASSUME Invariant, Invariant', HasSource, OwnsItsCursors, Next
  PROVE  call' = Idle \/ (OwnsItsCursors' /\ Nearer)
<1> DEFINE in == call.in
           d == drs[call.in]
<1>1. CallStep
  BY DEF Next, Seed, SetMode, Rank, Show, Traverse, Combine, StartPrimitive,
         StartPaths, CanCall, Rest, OwnsItsCursors
<1>2. call.pc # "expand" /\ call \in CallType /\ DOMAIN drs = Objects
  BY DEF OwnsItsCursors, Invariant, AllGood
<1>3. CASE LoopRaises \/ LoopEnds
  BY <1>3 DEF LoopRaises, LoopEnds, Finish
<1>4. CASE Loop
  <2>1. PICK s \in Step(d) :
          /\ s.got # Nothing
          /\ drs' = [drs EXCEPT ![call.in] = s.after]
          /\ call' = [call EXCEPT !.out = @ \union Answers(call.op, s.got)]
    BY <1>4 DEF Loop
  <2>2. call.pc = "loop" /\ call.in \in Objects /\ Good(d)
    BY <1>4 DEF Loop, Invariant, Holds, AllGood
  <2>3. call'.pc = "loop" /\ call'.in = call.in
    BY <1>2, <2>1, <2>2 DEF CallType
  <2>4. drs'[call.in] = s.after
    BY <1>2, <2>1, <2>2
  <2>5. Remaining(s.after) < Remaining(d)
        /\ Remaining(s.after) \in Nat /\ Remaining(d) \in Nat
    BY <2>1, <2>2, StepRemains, StepGood, RemainingTyped
  <2>6. OuterLeft' = Remaining(s.after) /\ OuterLeft = Remaining(d)
        /\ InnerLeft = 0 /\ InnerLeft' = 0
    BY <2>2, <2>3, <2>4 DEF OuterLeft, InnerLeft
  <2>7. OwnsItsCursors'
    BY <2>3 DEF OwnsItsCursors, Idle
  <2> QED BY <2>5, <2>6, <2>7 DEF Nearer
<1>5. CASE Outer
  <2>1. PICK s \in Step(d) :
          \/ call' = Idle
          \/ /\ s.got # Nothing
             /\ drs' = [drs EXCEPT ![call.in] = s.after]
             /\ call' = [call EXCEPT !.pc = "inner", !.source = s.got]
    BY <1>5 DEF Outer, Finish
  <2>2. call.pc = "outer" /\ call.in \in Objects /\ call.other \in Objects
        /\ Good(d) /\ call.in # call.other
    BY <1>5 DEF Outer, Invariant, Holds, AllGood, OwnsItsCursors
  <2>3. CASE call' = Idle
    BY <2>3
  <2>4. CASE call' # Idle
    <3>1. call'.pc = "inner" /\ call'.in = call.in /\ call'.other = call.other
      BY <1>2, <2>1, <2>4 DEF CallType
    <3>2. drs'[call.in] = s.after /\ drs'[call.other] = drs[call.other]
      BY <1>2, <2>1, <2>2, <2>4
    <3>3. Remaining(s.after) < Remaining(d)
          /\ Remaining(s.after) \in Nat /\ Remaining(d) \in Nat
      BY <2>1, <2>2, <2>4, StepRemains, StepGood, RemainingTyped
    <3>4. Good(drs[call.other])
      BY <2>2 DEF Invariant, AllGood
    <3>5. Remaining(drs[call.other]) \in Nat
      BY <3>4, RemainingTyped
    <3>6. OuterLeft' = Remaining(s.after) /\ OuterLeft = Remaining(d) /\ InnerLeft = 0
      BY <2>2, <3>1, <3>2 DEF OuterLeft, InnerLeft
    <3>7. InnerLeft' = Remaining(drs[call.other]) + 1
      BY <3>1, <3>2 DEF InnerLeft
    <3>8. OwnsItsCursors'
      BY <2>2, <2>4, <3>1 DEF OwnsItsCursors
    <3> QED BY <3>3, <3>5, <3>6, <3>7, <3>8 DEF Nearer
  <2> QED BY <2>3, <2>4
<1>6. CASE InnerEnds
  <2>1. PICK s \in Step(drs[call.other]) :
          drs' = [drs EXCEPT ![call.other] = s.after]
    BY <1>6 DEF InnerEnds
  <2>2. /\ call.pc = "inner" /\ call.in \in Objects /\ call.other \in Objects
        /\ call' = [call EXCEPT !.pc = "outer"] /\ call.in # call.other
    BY <1>6 DEF InnerEnds, Invariant, Holds, OwnsItsCursors
  <2>3. call'.pc = "outer" /\ call'.in = call.in /\ call'.other = call.other
    BY <1>2, <2>2 DEF CallType
  <2>4. drs'[call.in] = drs[call.in]
    BY <1>2, <2>1, <2>2
  <2>5. Good(drs[call.in]) /\ Good(drs[call.other])
    BY <2>2 DEF Invariant, AllGood
  <2>6. Remaining(drs[call.in]) \in Nat /\ Remaining(drs[call.other]) \in Nat
    BY <2>5, RemainingTyped
  <2>7. OuterLeft' = OuterLeft /\ OuterLeft = Remaining(drs[call.in])
        /\ InnerLeft' = 0 /\ InnerLeft = Remaining(drs[call.other]) + 1
    BY <2>2, <2>3, <2>4 DEF OuterLeft, InnerLeft
  <2>8. OwnsItsCursors'
    BY <2>2, <2>3 DEF OwnsItsCursors, Idle
  <2> QED BY <2>6, <2>7, <2>8 DEF Nearer
<1>7. CASE InnerSame
  <2>1. PICK s \in Step(drs[call.other]) :
          /\ s.got = call.source
          /\ \/ call' = Idle
             \/ drs' = [drs EXCEPT ![call.other] = s.after] /\ call' = call
    BY <1>7 DEF InnerSame
  <2>2. call.pc = "inner" /\ call.in # call.other /\ s.got # Nothing
    BY <1>7, <2>1 DEF InnerSame, HasSource, OwnsItsCursors
  <2>3. CASE call' = Idle
    BY <2>3
  <2>4. CASE call' # Idle
    <3>1. drs' = [drs EXCEPT ![call.other] = s.after] /\ call' = call
      BY <2>1, <2>4
    <3>2. Nearer
      BY <2>2, <3>1, InnerNearer
    <3> QED BY <3>1, <3>2 DEF OwnsItsCursors
  <2> QED BY <2>3, <2>4
<1>8. CASE InnerOther
  <2>1. PICK s \in Step(drs[call.other]) :
          /\ s.got # Nothing
          /\ drs' = [drs EXCEPT ![call.other] = s.after]
          /\ \/ call' = call \/ call' = Idle
             \/ \E S : call' = [call EXCEPT !.out = @ \union S]
    BY <1>8 DEF InnerOther
  <2>2. call.pc = "inner" /\ call.in # call.other
    BY <1>8 DEF InnerOther, OwnsItsCursors
  <2>3. CASE call' = Idle
    BY <2>3
  <2>4. CASE call' # Idle
    <3>1. call'.pc = "inner" /\ call'.in = call.in /\ call'.other = call.other
      BY <1>2, <2>1, <2>2, <2>4 DEF CallType
    <3>2. Nearer
      BY <2>1, <2>2, <3>1, InnerNearer
    <3> QED BY <2>2, <2>4, <3>1, <3>2 DEF OwnsItsCursors
  <2> QED BY <2>3, <2>4
<1> QED
  BY <1>1, <1>2, <1>3, <1>4, <1>5, <1>6, <1>7, <1>8 DEF CallStep, Expand

\* In any session, with either mode, path queries, unknown fields and cursors
\* that earlier calls left anywhere, a call whose loops own their cursors is
\* finite: every step ends it or lowers a measure, in the well-founded order of
\* pairs of numbers.  (That there is such a step is CallsWithOwnCursorsReturn.)
THEOREM CallsAdvance ==
  SafetySpec => [][OwnsItsCursors => call' = Idle \/ (OwnsItsCursors' /\ Nearer)]_vars
<1>1. Init => HasSource
  BY DEF Init, HasSource, Idle
<1>2. Invariant /\ HasSource /\ [Next]_vars => HasSource'
  BY SourceStep
<1>3. Invariant /\ Invariant' /\ HasSource /\ [Next]_vars =>
        [OwnsItsCursors => call' = Idle \/ (OwnsItsCursors' /\ Nearer)]_vars
  BY CallNearer
<1> QED BY <1>1, <1>2, <1>3, InvariantHolds, PTL DEF SafetySpec
=============================================================================
