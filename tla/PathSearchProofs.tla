-------------------------- MODULE PathSearchProofs --------------------------
(***************************************************************************)
(* Theorems about the path search, for every network and every pair of     *)
(* fields: its types, that an answer shows a path (AnswerShowsPath), that  *)
(* a search that gives up was right (NoAnswerNoPath), and that the path    *)
(* through the field where it ends is a shortest one (PathIsShortest).     *)
(* And no search goes on for ever (SearchesAdvance).                       *)
(***************************************************************************)
EXTENDS PathSearch, FiniteSetTheorems, TLAPS

-----------------------------------------------------------------------------
(* Paths *)

\* A field is joined to itself.
LEMMA JoinedSelf ==
  ASSUME NEW f, NEW edges PROVE Joined(f, f, edges)
BY DEF Joined

\* More edges join what fewer edges join: what the provenance shows, it goes
\* on showing when o_drs absorbs more.
LEMMA JoinedMore ==
  ASSUME NEW f, NEW g, NEW few, NEW more, few \subseteq more, Joined(f, g, few)
  PROVE  Joined(f, g, more)
BY DEF Joined, Closed

\* An edge prolongs a path.
LEMMA JoinedStep ==
  ASSUME NEW f, NEW v, NEW w, NEW edges,
         Joined(f, v, edges), <<v, w>> \in edges
  PROVE  Joined(f, w, edges)
<1>1. SUFFICES ASSUME NEW S \in SUBSET Fields, Closed(S, edges)
               PROVE  f \in S <=> w \in S
  BY DEF Joined
<1>2. v \in S <=> w \in S
  BY <1>1 DEF Closed
<1>3. QED BY <1>1, <1>2 DEF Joined

\* Two paths that end in the same field join where they began.
LEMMA JoinedMeet ==
  ASSUME NEW f, NEW g, NEW m, NEW edges,
         Joined(f, m, edges), Joined(g, m, edges)
  PROVE  Joined(f, g, edges)
BY DEF Joined

-----------------------------------------------------------------------------
(* Types *)

\* A tree stays a tree when the field visited gets a child.
LEMMA ExtendTyped ==
  ASSUME NEW tree, Tree(tree), NEW w \in Fields, at \in Network
  PROVE  /\ Tree(Extend(tree, w))
         /\ DOMAIN Extend(tree, w) = DOMAIN tree \union {w}
BY DEF Tree, Extend

\* TypeOK is inductive once a visit is known to have a field to visit.
Typed == TypeOK /\ (pc = "visiting" => at \in Network)

\* Every step keeps every variable's type.
LEMMA TypePreserved ==
  ASSUME Typed, [Next]_vars PROVE Typed'
<1> USE NetworkAssumption
<1>1. CASE Start
  BY <1>1 DEF Start, Typed, TypeOK, Tree, args, trees
<1>2. CASE GiveUp
  BY <1>2 DEF GiveUp, Typed, TypeOK, Tree, args, trees
<1>3. CASE ChooseSide
  BY <1>3 DEF ChooseSide, Typed, TypeOK, Tree, args
<1>4. CASE UnknownField
  BY <1>4 DEF UnknownField, Typed, TypeOK, Tree, args, trees
<1>5. CASE Expand
  <2>1. PICK v \in level \intersect Network :
          /\ at' = v /\ level' = level \ {v} /\ todo' = Similar[v]
          /\ explored' = explored \union {<<v, w>> : w \in Similar[v]}
    BY <1>5 DEF Expand
  <2>2. Similar[v] \subseteq Network
    OBVIOUS
  <2>3. explored' \subseteq Network \X Network
    BY <2>1, <2>2 DEF Typed, TypeOK
  <2>4. QED
    BY <1>5, <2>1, <2>2, <2>3 DEF Expand, Typed, TypeOK, Tree, args, trees
<1>6. CASE LevelDone
  BY <1>6 DEF LevelDone, Typed, TypeOK, Tree, args, trees
<1>7. CASE Visit
  <2>1. PICK w \in todo :
          /\ ForwardVisit(w) \/ ReverseVisit(w)
          /\ todo' = todo \ {w}
          /\ IF w \in OtherTree THEN pc' = "found" /\ meet' = w
             ELSE UNCHANGED <<pc, meet>>
    BY <1>7 DEF Visit
  <2>2. w \in Fields
    BY DEF Typed, TypeOK
  <2>3. Tree(pred)' /\ Tree(succ)'
    <3>1. Tree(pred) /\ Tree(succ) /\ at \in Network
      BY <1>7 DEF Visit, Typed, TypeOK
    <3>2. Tree(Extend(pred, w)) /\ Tree(Extend(succ, w))
      BY <2>2, <3>1, ExtendTyped
    <3>3. CASE ForwardVisit(w)
      BY <3>1, <3>2, <3>3 DEF ForwardVisit, Tree
    <3>4. CASE ReverseVisit(w)
      BY <3>1, <3>2, <3>4 DEF ReverseVisit, Tree
    <3>5. QED BY <2>1, <3>3, <3>4
  <2>4. forward' \subseteq Fields /\ reverse' \subseteq Fields
    BY <2>1, <2>2 DEF ForwardVisit, ReverseVisit, Typed, TypeOK
  <2>5. QED BY <1>7, <2>1, <2>2, <2>3, <2>4 DEF Visit, Typed, TypeOK, args
<1>8. CASE FieldDone
  BY <1>8 DEF FieldDone, Typed, TypeOK, Tree, args, trees
<1>9. CASE Done \/ UNCHANGED vars
  BY <1>9 DEF Done, Typed, TypeOK, Tree, vars, args, trees
<1>10. QED
  BY <1>1, <1>2, <1>3, <1>4, <1>5, <1>6, <1>7, <1>8, <1>9 DEF Next

\* The types hold in every state of the search.
THEOREM TypeCorrect == SafetySpec => []TypeOK
<1>1. Init => Typed
  BY NoneAssumption DEF Init, Typed, TypeOK, Tree
<1>2. Typed /\ [Next]_vars => Typed'
  BY TypePreserved
<1>3. Typed => TypeOK
  BY DEF Typed
<1>4. QED BY <1>1, <1>2, <1>3, PTL DEF SafetySpec

-----------------------------------------------------------------------------
(* An answer shows a path. *)

\* The fields reached by the side whose level is being expanded.
Own == IF side = "forward" THEN DOMAIN pred ELSE DOMAIN succ

\* Each tree holds its root, its fringe and the fields that are expanded.
Rooted ==
  /\ source \in DOMAIN pred /\ target \in DOMAIN succ
  /\ forward \subseteq DOMAIN pred /\ reverse \subseteq DOMAIN succ
  /\ level \subseteq Own
  /\ pc = "visiting" => at \in Own

\* The provenance joins every field of a tree to its root, and already holds
\* the edges to the neighbours still to be visited.
Shown ==
  /\ \A f \in DOMAIN pred : Joined(source, f, explored)
  /\ \A f \in DOMAIN succ : Joined(target, f, explored)
  /\ pc = "visiting" => \A w \in todo : <<at, w>> \in explored

\* The search is over at a field of both trees.
Met == pc = "found" => meet \in DOMAIN pred /\ meet \in DOMAIN succ

\* What a visit does to the trees, whichever side it belongs to: the field
\* visited joins its side's tree, and its fringe when it is new to it.
LEMMA VisitEffect ==
  ASSUME Typed, Visit
  PROVE  \E w \in todo :
           /\ w \in Network /\ at \in Network
           /\ \/ /\ side = "forward"
                 /\ DOMAIN pred' = DOMAIN pred \union {w}
                 /\ forward' = IF w \in DOMAIN pred THEN forward
                              ELSE forward \union {w}
                 /\ succ' = succ /\ reverse' = reverse
              \/ /\ side = "reverse"
                 /\ DOMAIN succ' = DOMAIN succ \union {w}
                 /\ reverse' = IF w \in DOMAIN succ THEN reverse
                              ELSE reverse \union {w}
                 /\ pred' = pred /\ forward' = forward
           /\ todo' = todo \ {w}
           /\ IF w \in OtherTree THEN pc' = "found" /\ meet' = w
              ELSE pc' = pc /\ meet' = meet
<1>1. PICK w \in todo :
        /\ ForwardVisit(w) \/ ReverseVisit(w)
        /\ todo' = todo \ {w}
        /\ IF w \in OtherTree THEN pc' = "found" /\ meet' = w
           ELSE UNCHANGED <<pc, meet>>
  BY DEF Visit
<1>2. w \in Network /\ w \in Fields /\ at \in Network
  BY NetworkAssumption DEF Visit, Typed, TypeOK
<1>3. /\ DOMAIN Extend(pred, w) = DOMAIN pred \union {w}
      /\ DOMAIN Extend(succ, w) = DOMAIN succ \union {w}
  BY <1>2, ExtendTyped DEF Typed, TypeOK
<1>4. QED
  BY <1>1, <1>2, <1>3 DEF ForwardVisit, ReverseVisit

\* Every step keeps the trees rooted.
LEMMA RootedPreserved ==
  ASSUME Typed, Rooted, [Next]_vars PROVE Rooted'
<1>1. CASE Start \/ GiveUp \/ UnknownField \/ LevelDone \/ FieldDone
  BY <1>1 DEF Start, GiveUp, UnknownField, LevelDone, FieldDone, Rooted, Own,
              args, trees
<1>2. CASE ChooseSide
  BY <1>2 DEF ChooseSide, Rooted, Own, args
<1>3. CASE Expand
  BY <1>3 DEF Expand, Rooted, Own, args, trees
<1>4. CASE Visit
  <2>1. args' = args /\ side' = side /\ level' = level /\ at' = at
    BY <1>4 DEF Visit
  <2>2. pc = "visiting" /\ side \in {"forward", "reverse"}
    BY <1>4 DEF Visit, Typed, TypeOK
  <2>3. DOMAIN pred \subseteq DOMAIN pred' /\ DOMAIN succ \subseteq DOMAIN succ'
    BY <1>4, VisitEffect
  <2>4. forward' \subseteq DOMAIN pred' /\ reverse' \subseteq DOMAIN succ'
    BY <1>4, VisitEffect DEF Rooted
  <2>5. QED BY <2>1, <2>2, <2>3, <2>4 DEF Rooted, Own, args
<1>5. CASE Done \/ UNCHANGED vars
  BY <1>5 DEF Done, Rooted, Own, vars, args, trees
<1>6. QED BY <1>1, <1>2, <1>3, <1>4, <1>5 DEF Next

\* Every step keeps the provenance complete.
LEMMA ShownPreserved ==
  ASSUME Typed, Rooted, Shown, [Next]_vars PROVE Shown'
<1>1. CASE Start \/ GiveUp \/ UnknownField \/ LevelDone \/ FieldDone
  BY <1>1 DEF Start, GiveUp, UnknownField, LevelDone, FieldDone, Shown, args,
              trees
<1>2. CASE ChooseSide
  BY <1>2 DEF ChooseSide, Shown, args
<1>3. CASE Expand
  <2>1. explored \subseteq explored' /\ UNCHANGED <<source, target, pred, succ>>
    BY <1>3 DEF Expand, args, trees
  <2>2. \A w \in todo' : <<at', w>> \in explored'
    BY <1>3 DEF Expand
  <2>3. \A f \in DOMAIN pred : Joined(source, f, explored')
    BY <2>1, JoinedMore DEF Shown
  <2>4. \A f \in DOMAIN succ : Joined(target, f, explored')
    BY <2>1, JoinedMore DEF Shown
  <2>5. QED BY <2>1, <2>2, <2>3, <2>4 DEF Shown
<1>4. CASE Visit
  <2>1. UNCHANGED <<source, target, side, at, explored>> /\ pc = "visiting"
    BY <1>4 DEF Visit, args
  <2>2. PICK w \in todo :
          /\ \/ /\ side = "forward"
                /\ DOMAIN pred' = DOMAIN pred \union {w} /\ succ' = succ
             \/ /\ side = "reverse"
                /\ DOMAIN succ' = DOMAIN succ \union {w} /\ pred' = pred
          /\ todo' = todo \ {w}
    BY <1>4, VisitEffect
  <2>3. <<at, w>> \in explored
    BY <2>1 DEF Shown
  <2>4. side = "forward" => Joined(source, w, explored)
    BY <2>1, <2>3, JoinedStep DEF Shown, Rooted, Own
  <2>5. side = "reverse" => Joined(target, w, explored)
    BY <2>1, <2>3, JoinedStep DEF Shown, Rooted, Own
  <2>6. \A f \in DOMAIN pred' : Joined(source, f, explored)
    BY <2>2, <2>4 DEF Shown
  <2>7. \A f \in DOMAIN succ' : Joined(target, f, explored)
    BY <2>2, <2>5 DEF Shown
  <2>8. QED BY <2>1, <2>2, <2>6, <2>7 DEF Shown
<1>5. CASE Done \/ UNCHANGED vars
  BY <1>5 DEF Done, Shown, vars, args, trees
<1>6. QED BY <1>1, <1>2, <1>3, <1>4, <1>5 DEF Next

\* The search ends only at a field of both trees.
LEMMA MetPreserved ==
  ASSUME Typed, Rooted, Met, [Next]_vars PROVE Met'
<1>1. CASE Start
  BY <1>1 DEF Start, Rooted, Met, trees
<1>2. CASE GiveUp \/ UnknownField \/ LevelDone \/ FieldDone \/ ChooseSide \/ Expand
  BY <1>2 DEF GiveUp, UnknownField, LevelDone, FieldDone, ChooseSide, Expand, Met
<1>3. CASE Visit
  <2>1. pc = "visiting" /\ side \in {"forward", "reverse"}
    BY <1>3 DEF Visit, Typed, TypeOK
  <2>2. QED BY <1>3, <2>1, VisitEffect DEF OtherTree, Met
<1>4. CASE Done \/ UNCHANGED vars
  BY <1>4 DEF Done, Met, vars, trees
<1>5. QED BY <1>1, <1>2, <1>3, <1>4 DEF Next

ShowInv == Typed /\ Rooted /\ Shown /\ Met

\* The inductive invariant holds throughout.
LEMMA ShowInvariant == SafetySpec => []ShowInv
<1>1. Init => ShowInv
  BY NoneAssumption, JoinedSelf
     DEF Init, ShowInv, Typed, TypeOK, Tree, Rooted, Own, Shown, Met
<1>2. ShowInv /\ [Next]_vars => ShowInv'
  BY TypePreserved, RootedPreserved, ShownPreserved, MetPreserved DEF ShowInv
<1>3. QED BY <1>1, <1>2, PTL DEF SafetySpec

\* Whatever the network, a search that answers hands out a provenance in
\* which a path leads from the source to the target.
THEOREM AnswersShowPaths == SafetySpec => []AnswerShowsPath
<1>1. ShowInv => AnswerShowsPath
  BY JoinedMeet DEF ShowInv, Shown, Met, AnswerShowsPath
<1>2. QED BY <1>1, ShowInvariant, PTL

-----------------------------------------------------------------------------
(* A search that gives up was right. *)

\* A field of a side's tree is on its fringe, in the level being expanded, is
\* the field being visited, or has all its neighbours in the tree.
Covered(tree, fringe, mine) ==
  \A f \in DOMAIN tree :
    \/ f \in fringe
    \/ side = mine /\ f \in level
    \/ side = mine /\ f = at /\ pc = "visiting"
    \/ f \in Network /\ Similar[f] \subseteq DOMAIN tree

\* The two trees cover what they have reached and have not met, and a level
\* and a visit are finished when the next one begins.
Apart ==
  /\ pc \in {"start", "choosing", "expanding", "visiting"} =>
       /\ Covered(pred, forward, "forward")
       /\ Covered(succ, reverse, "reverse")
  /\ pc \in {"choosing", "expanding", "visiting"} =>
       DOMAIN pred \intersect DOMAIN succ = {}
  /\ pc = "start" => DOMAIN pred = {source} /\ DOMAIN succ = {target}
  /\ pc \in {"start", "choosing"} => level = {}
  /\ pc = "visiting" => Similar[at] \subseteq Own \union todo

\* A tree that covers its fields and has no fringe left is a closed set.
LEMMA CoveredClosed ==
  ASSUME Typed, level = {}, pc = "choosing",
         NEW tree, NEW mine, Tree(tree), Covered(tree, {}, mine)
  PROVE  Closed(DOMAIN tree, Edges) /\ DOMAIN tree \in SUBSET Fields
<1>1. ASSUME NEW e \in Edges PROVE e[1] \in DOMAIN tree <=> e[2] \in DOMAIN tree
  <2>1. e[1] \in Network /\ e[2] \in Network /\ e[2] \in Similar[e[1]]
    BY DEF Edges
  <2>2. e[1] \in Similar[e[2]]
    BY <2>1, UndirectedAssumption
  <2>3. QED BY <2>1, <2>2 DEF Covered
<1>2. QED BY <1>1 DEF Closed, Tree

\* Giving up is right: a tree without a fringe separates its root from the
\* other one.
LEMMA GiveUpRight ==
  ASSUME Typed, Rooted, Apart, GiveUp PROVE ~Joined(source, target, Edges)
<1>1. /\ pc = "choosing" /\ level = {}
      /\ Covered(pred, forward, "forward") /\ Covered(succ, reverse, "reverse")
      /\ DOMAIN pred \intersect DOMAIN succ = {}
      /\ source \in DOMAIN pred /\ target \in DOMAIN succ
      /\ Tree(pred) /\ Tree(succ)
  BY DEF GiveUp, Apart, Rooted, Typed, TypeOK
<1>2. CASE forward = {}
  <2>1. Closed(DOMAIN pred, Edges) /\ DOMAIN pred \in SUBSET Fields
    BY <1>1, <1>2, CoveredClosed
  <2>2. QED BY <1>1, <2>1 DEF Joined
<1>3. CASE reverse = {}
  <2>1. Closed(DOMAIN succ, Edges) /\ DOMAIN succ \in SUBSET Fields
    BY <1>1, <1>3, CoveredClosed
  <2>2. QED BY <1>1, <2>1 DEF Joined
<1>4. QED BY <1>2, <1>3 DEF GiveUp

\* Every step keeps the trees covered and apart.
LEMMA ApartPreserved ==
  ASSUME Typed, Rooted, Apart, [Next]_vars PROVE Apart'
<1>1. CASE Start
  <2>1. pc = "start" /\ pc' \in {"found", "choosing"}
        /\ UNCHANGED <<args, trees, side, level, at, todo>>
    BY <1>1 DEF Start
  <2>2. pc' = "choosing" => DOMAIN pred \intersect DOMAIN succ = {}
    BY <1>1 DEF Start, Apart
  <2>3. QED BY <2>1, <2>2 DEF Apart, Covered, Own, trees
<1>2. CASE GiveUp \/ UnknownField
  BY <1>2 DEF GiveUp, UnknownField, Apart
<1>3. CASE ChooseSide
  <2>1. pc = "choosing" /\ pc' = "expanding" /\ UNCHANGED <<pred, succ>>
    BY <1>3 DEF ChooseSide
  <2>2. Covered(pred, forward, "forward")' /\ Covered(succ, reverse, "reverse")'
    BY <1>3 DEF ChooseSide, Apart, Covered
  <2>3. QED BY <2>1, <2>2 DEF Apart
<1>4. CASE Expand
  <2>1. /\ pc = "expanding" /\ pc' = "visiting" /\ todo' = Similar[at']
        /\ level \subseteq level' \union {at'} /\ UNCHANGED <<trees, side>>
    BY <1>4 DEF Expand
  <2>2. Covered(pred, forward, "forward")' /\ Covered(succ, reverse, "reverse")'
    BY <2>1 DEF Apart, Covered, trees
  <2>3. QED BY <2>1, <2>2 DEF Apart, trees
<1>5. CASE LevelDone
  BY <1>5 DEF LevelDone, Apart, Covered, trees
<1>6. CASE Visit
  <2>1. PICK w \in todo :
          /\ w \in Network
          /\ \/ /\ side = "forward"
                /\ DOMAIN pred' = DOMAIN pred \union {w}
                /\ forward' = IF w \in DOMAIN pred THEN forward
                             ELSE forward \union {w}
                /\ succ' = succ /\ reverse' = reverse
             \/ /\ side = "reverse"
                /\ DOMAIN succ' = DOMAIN succ \union {w}
                /\ reverse' = IF w \in DOMAIN succ THEN reverse
                             ELSE reverse \union {w}
                /\ pred' = pred /\ forward' = forward
          /\ todo' = todo \ {w}
          /\ IF w \in OtherTree THEN pc' = "found" /\ meet' = w
             ELSE pc' = pc /\ meet' = meet
    BY <1>6, VisitEffect
  <2>2. pc = "visiting" /\ UNCHANGED <<side, level, at>>
    BY <1>6 DEF Visit
  <2>3. CASE w \in OtherTree
    BY <2>1, <2>3 DEF Apart
  <2>4. CASE w \notin OtherTree
    <3>1. pc' = "visiting"
      BY <2>1, <2>2, <2>4
    <3>2. Covered(pred, forward, "forward")'
      BY <2>1, <2>2, <3>1 DEF Apart, Covered
    <3>3. Covered(succ, reverse, "reverse")'
      BY <2>1, <2>2, <3>1 DEF Apart, Covered
    <3>4. (DOMAIN pred \intersect DOMAIN succ = {})'
      BY <2>1, <2>2, <2>4 DEF Apart, OtherTree
    <3>5. Similar[at] \subseteq Own' \union todo'
      BY <2>1, <2>2 DEF Apart, Own
    <3>6. QED BY <2>2, <3>1, <3>2, <3>3, <3>4, <3>5 DEF Apart
  <2>5. QED BY <2>3, <2>4
<1>7. CASE FieldDone
  <2>1. pc = "visiting" /\ pc' = "expanding" /\ todo = {}
        /\ UNCHANGED <<trees, side, level, at>>
    BY <1>7 DEF FieldDone
  <2>2. Similar[at] \subseteq Own /\ at \in Network
    BY <2>1 DEF Apart, Typed
  <2>3. Covered(pred, forward, "forward")' /\ Covered(succ, reverse, "reverse")'
    BY <2>1, <2>2 DEF Apart, Covered, Own, trees
  <2>4. QED BY <2>1, <2>3 DEF Apart, trees
<1>8. CASE Done \/ UNCHANGED vars
  BY <1>8 DEF Done, Apart, Covered, Own, vars, args, trees
<1>9. QED
  BY <1>1, <1>2, <1>3, <1>4, <1>5, <1>6, <1>7, <1>8 DEF Next

GapInv == Typed /\ Rooted /\ Apart /\ NoAnswerNoPath

\* Whatever the network, a search that finds no path was right: no path leads
\* from the source to the target.
THEOREM NoAnswerIsRight == SafetySpec => []NoAnswerNoPath
<1>1. Init => GapInv
  BY NoneAssumption
     DEF Init, GapInv, Typed, TypeOK, Tree, Rooted, Own, Apart, Covered,
         NoAnswerNoPath
<1>2. ASSUME GapInv, [Next]_vars PROVE GapInv'
  <2>1. Typed' /\ Rooted' /\ Apart'
    BY <1>2, TypePreserved, RootedPreserved, ApartPreserved DEF GapInv
  <2>2. pc' = "none" => GiveUp \/ pc = "none"
    BY <1>2 DEF Next, Start, GiveUp, ChooseSide, UnknownField, Expand,
                LevelDone, Visit, FieldDone, Done, vars
  <2>3. source' = source /\ target' = target
    BY <1>2 DEF Next, Start, GiveUp, ChooseSide, UnknownField, Expand,
                LevelDone, Visit, FieldDone, Done, vars, args
  <2>4. pc' = "none" => ~Joined(source, target, Edges)
    BY <1>2, <2>2, GiveUpRight DEF GapInv, NoAnswerNoPath
  <2>5. NoAnswerNoPath'
    BY <2>3, <2>4 DEF NoAnswerNoPath, Joined
  <2>6. QED BY <2>1, <2>5 DEF GapInv
<1>3. GapInv => NoAnswerNoPath
  BY DEF GapInv
<1>4. QED BY <1>1, <1>2, <1>3, PTL DEF SafetySpec

-----------------------------------------------------------------------------
(* Depths and distances *)

\* The reason why what is shown by going up or down a number of steps holds.
LEMMA LeastNumber ==
  ASSUME NEW T, T \subseteq Nat, T # {}
  PROVE  \E n \in T : \A m \in T : n <= m
<1>1. \E x \in T : \A y \in T : ~(<<y, x>> \in OpToRel(<, Nat))
  BY WFMin, NatLessThanWellFounded
<1>2. PICK n \in T : \A y \in T : ~(<<y, n>> \in OpToRel(<, Nat))
  BY <1>1
<1>3. \A y \in T : ~(y < n)
  BY <1>2 DEF OpToRel
<1>4. QED BY <1>3

\* The ranks of the fields of a tree: the steps from its root.  Each field but
\* the root is a neighbour of its parent, one step further away.
Ranked(tree, root, rank) ==
  /\ rank \in [DOMAIN tree -> Nat]
  /\ root \in DOMAIN tree /\ tree[root] = None /\ rank[root] = 0
  /\ \A f \in DOMAIN tree \ {root} :
       /\ tree[f] \in DOMAIN tree \intersect Network /\ f \in Similar[tree[f]]
       /\ rank[f] = rank[tree[f]] + 1
  /\ root \in Network \/ DOMAIN tree = {root}
  /\ DOMAIN tree \subseteq Fields
  /\ \A f \in DOMAIN tree : rank[f] < Cardinality(DOMAIN tree)

\* The sets that Depth is defined with are the fields of each rank.
LEMMA DepthIsRank ==
  ASSUME NEW tree, NEW root, NEW rank, Ranked(tree, root, rank),
         NEW f \in DOMAIN tree
  PROVE  Depth(tree, f) = rank[f]
<1> DEFINE K == Cardinality(Fields)
           D(g) == g = [n \in 0..K |->
                          IF n = 0 THEN {x \in DOMAIN tree : tree[x] = None}
                          ELSE {x \in DOMAIN tree : tree[x] \in g[n - 1]}]
           layer == [n \in 0..K |-> {x \in DOMAIN tree : rank[x] = n}]
           depth == CHOOSE g : D(g)
<1>1. K \in Nat /\ Cardinality(DOMAIN tree) <= K /\ Cardinality(DOMAIN tree) \in Nat
  BY FinitenessAssumption, FS_CardinalityType, FS_Subset DEF Ranked
<1>2. rank[f] \in 0..K
  BY <1>1 DEF Ranked
<1>3. \A x \in DOMAIN tree : /\ rank[x] \in Nat
                             /\ tree[x] = None <=> rank[x] = 0
                             /\ rank[x] # 0 => /\ tree[x] \in DOMAIN tree
                                               /\ rank[x] = rank[tree[x]] + 1
                             /\ rank[x] = 0 => tree[x] \notin DOMAIN tree
  BY NoneAssumption DEF Ranked
<1>4. D(layer)
  <2>1. ASSUME NEW n \in 0..K, n # 0
        PROVE  layer[n] = {x \in DOMAIN tree : tree[x] \in layer[n - 1]}
    <3>1. n - 1 \in 0..K /\ n - 1 \in Nat
      BY <1>1, <2>1
    <3>2. \A x \in DOMAIN tree : rank[x] = n <=>
            tree[x] \in DOMAIN tree /\ rank[tree[x]] = n - 1
      BY <1>3, <2>1, <3>1
    <3>3. QED BY <3>1, <3>2
  <2>2. 0 \in 0..K => layer[0] = {x \in DOMAIN tree : tree[x] = None}
    BY <1>3
  <2>3. QED BY <2>1, <2>2
<1>5. D(depth)
  <2> HIDE DEF D, layer
  <2>1. QED BY <1>4
<1>6. \A n \in 0..K :
        depth[n] = IF n = 0 THEN {x \in DOMAIN tree : tree[x] = None}
                   ELSE {x \in DOMAIN tree : tree[x] \in depth[n - 1]}
  <2> HIDE DEF depth
  <2>1. QED BY <1>5
<1>7. \A n \in 0..K :
        layer[n] = IF n = 0 THEN {x \in DOMAIN tree : tree[x] = None}
                   ELSE {x \in DOMAIN tree : tree[x] \in layer[n - 1]}
  <2> HIDE DEF layer
  <2>1. QED BY <1>4
<1>8. \A n \in 0..K : depth[n] = layer[n]
  <2> HIDE DEF depth, layer, D
  <2> DEFINE T == {n \in 0..K : depth[n] # layer[n]}
  <2>1. SUFFICES ASSUME T # {} PROVE FALSE
    OBVIOUS
  <2>2. T \subseteq Nat
    BY <1>1
  <2>3. PICK n \in T : \A m \in T : n <= m
    <3> HIDE DEF T
    <3>1. QED BY <2>1, <2>2, LeastNumber
  <2>4. n # 0
    BY <1>6, <1>7, <2>3
  <2>5. n - 1 \in 0..K /\ ~(n <= n - 1)
    BY <1>1, <2>3, <2>4
  <2>6. depth[n - 1] = layer[n - 1]
    BY <2>3, <2>5
  <2>7. /\ n \in 0..K /\ depth[n] # layer[n]
        /\ depth[n] = {x \in DOMAIN tree : tree[x] \in depth[n - 1]}
        /\ layer[n] = {x \in DOMAIN tree : tree[x] \in layer[n - 1]}
    BY <1>6, <1>7, <2>3, <2>4
  <2>8. QED BY <2>6, <2>7
<1>9. \A n \in 0..K : f \in depth[n] <=> rank[f] = n
  <2> HIDE DEF depth
  <2>1. QED BY <1>8
<1>10. Depth(tree, f) = CHOOSE n \in 0..K : f \in depth[n]
  BY DEF Depth
<1>11. QED
  <2> HIDE DEF depth, K
  <2>1. QED BY <1>2, <1>9, <1>10

\* What is at most one step away from a set of fields.
Grown(S) == S \union UNION {Similar[h] : h \in S}

\* The sets that Distance is defined with: what lies within n steps of f.
IsBall(ball, f) ==
  ball = [n \in 0..Cardinality(Fields) |-> IF n = 0 THEN {f} ELSE Grown(ball[n - 1])]

\* There are such sets.
LEMMA BallExists ==
  ASSUME NEW f
  PROVE  \E ball : IsBall(ball, f)
<1> DEFINE P(g, n) == g = [i \in 0..n |-> IF i = 0 THEN {f} ELSE Grown(g[i - 1])]
           T == {n \in Nat : ~ \E g : P(g, n)}
<1>1. T = {}
  <2>1. SUFFICES ASSUME T # {} PROVE FALSE
    OBVIOUS
  <2>2. PICK n \in T : \A m \in T : n <= m
    <3>1. T \subseteq Nat
      OBVIOUS
    <3> HIDE DEF T
    <3>2. QED BY <2>1, <3>1, LeastNumber
  <2>3. n # 0
    <3>1. P([i \in 0..0 |-> {f}], 0)
      OBVIOUS
    <3>2. QED BY <2>2, <3>1
  <2>4. n - 1 \in Nat /\ ~(n <= n - 1)
    BY <2>2, <2>3
  <2>5. PICK g : P(g, n - 1)
    <3> HIDE DEF P
    <3>1. QED BY <2>2, <2>4
  <2> DEFINE h == [i \in 0..n |-> IF i < n THEN g[i] ELSE Grown(g[i - 1])]
  <2>6. \A i \in 0..(n - 1) : g[i] = IF i = 0 THEN {f} ELSE Grown(g[i - 1])
    BY <2>5
  <2>7. \A i \in 0..n : h[i] = IF i < n THEN g[i] ELSE Grown(g[i - 1])
    OBVIOUS
  <2>8. ASSUME NEW i \in 0..n
        PROVE  h[i] = IF i = 0 THEN {f} ELSE Grown(h[i - 1])
    <3> HIDE DEF h
    <3>1. CASE i = 0
      BY <2>2, <2>3, <2>6, <2>7, <3>1
    <3>2. CASE i # 0
      <4>1. i - 1 \in 0..n /\ i - 1 < n
        BY <2>2, <3>2
      <4>2. h[i - 1] = g[i - 1]
        BY <2>7, <4>1
      <4>3. i < n => i \in 0..(n - 1)
        BY <2>2
      <4>4. i < n => g[i] = Grown(g[i - 1])
        BY <2>6, <3>2, <4>3
      <4>5. h[i] = Grown(g[i - 1])
        BY <2>7, <4>4
      <4>6. QED BY <3>2, <4>2, <4>5
    <3>3. QED BY <3>1, <3>2
  <2>9. h = [i \in 0..n |-> IF i = 0 THEN {f} ELSE Grown(h[i - 1])]
    BY <2>8
  <2>10. P(h, n)
    BY <2>9
  <2>11. QED BY <2>2, <2>10
<1>2. Cardinality(Fields) \in Nat
  BY FinitenessAssumption, FS_CardinalityType
<1>3. \E g : P(g, Cardinality(Fields))
  <2> HIDE DEF P
  <2>1. QED BY <1>1, <1>2
<1>4. QED BY <1>3 DEF IsBall

\* What a ball holds, and that it stays within the network.
LEMMA BallStep ==
  ASSUME NEW f \in Network, NEW ball, IsBall(ball, f)
  PROVE  /\ ball[0] = {f}
         /\ \A n \in 0..Cardinality(Fields) :
              /\ ball[n] \subseteq Network
              /\ n # 0 => ball[n] = Grown(ball[n - 1])
<1> DEFINE K == Cardinality(Fields)
<1>1. K \in Nat
  BY FinitenessAssumption, FS_CardinalityType
<1>2. \A n \in 0..K : ball[n] = IF n = 0 THEN {f} ELSE Grown(ball[n - 1])
  BY DEF IsBall
<1> HIDE DEF K
<1> DEFINE T == {n \in 0..K : ~(ball[n] \subseteq Network)}
<1>3. T = {}
  <2>1. SUFFICES ASSUME T # {} PROVE FALSE
    OBVIOUS
  <2>2. PICK n \in T : \A m \in T : n <= m
    <3>1. T \subseteq Nat
      BY <1>1
    <3> HIDE DEF T
    <3>2. QED BY <2>1, <3>1, LeastNumber
  <2>3. n # 0
    BY <1>2, <2>2
  <2>4. n - 1 \in 0..K /\ ~(n <= n - 1)
    BY <1>1, <2>2, <2>3
  <2>5. ball[n - 1] \subseteq Network
    BY <2>2, <2>4
  <2>6. Grown(ball[n - 1]) \subseteq Network
    BY <2>5, NetworkAssumption DEF Grown
  <2>7. QED BY <1>2, <2>2, <2>3, <2>6
<1>4. QED BY <1>1, <1>2, <1>3 DEF K

\* The distance is the first number of steps within which g is reached.
LEMMA DistanceIs ==
  ASSUME NEW f, NEW g, NEW ball, NEW d \in 0..Cardinality(Fields),
         \A b : IsBall(b, f) =>
           g \in b[d] /\ \A m \in 0..(d - 1) : g \notin b[m]
  PROVE  Distance(f, g) = d
<1> DEFINE K == Cardinality(Fields)
           b == CHOOSE b : IsBall(b, f)
<1>1. K \in Nat
  BY FinitenessAssumption, FS_CardinalityType
<1>2. IsBall(b, f)
  BY BallExists
<1>3. Distance(f, g) =
        CHOOSE n \in 0..K : g \in b[n] /\ \A m \in 0..(n - 1) : g \notin b[m]
  BY DEF Distance, IsBall, Grown
<1> HIDE DEF b, K
<1>4. g \in b[d] /\ \A m \in 0..(d - 1) : g \notin b[m]
  BY <1>2
<1>5. ASSUME NEW n \in 0..K, g \in b[n], \A m \in 0..(n - 1) : g \notin b[m]
      PROVE  n = d
  BY <1>1, <1>4, <1>5 DEF K
<1>6. QED BY <1>3, <1>4, <1>5 DEF K

-----------------------------------------------------------------------------
(* The lengths of the paths between two trees *)

\* Up to a rank, every neighbour of a field of the tree is in the tree, and at
\* most one step further away.
Explored(tree, rank, p) ==
  \A f \in DOMAIN tree : rank[f] < p =>
    \A g \in Similar[f] : g \in DOMAIN tree /\ rank[g] <= rank[f] + 1

\* A tree holds all that is as near to its root as it has been explored.
LEMMA BallWithin ==
  ASSUME NEW tree, NEW root \in Network, NEW rank, Ranked(tree, root, rank),
         NEW p \in Nat, Explored(tree, rank, p),
         NEW ball, IsBall(ball, root)
  PROVE  \A k \in 0..Cardinality(Fields) : k <= p =>
           \A f \in ball[k] : f \in DOMAIN tree /\ rank[f] <= k
<1> DEFINE K == Cardinality(Fields)
           Holds(k) == \A f \in ball[k] : f \in DOMAIN tree /\ rank[f] <= k
           T == {k \in 0..K : k <= p /\ ~Holds(k)}
<1>1. K \in Nat
  BY FinitenessAssumption, FS_CardinalityType
<1>2. SUFFICES ASSUME T # {} PROVE FALSE
  OBVIOUS
<1>3. PICK n \in T : \A m \in T : n <= m
  <2>1. T \subseteq Nat
    BY <1>1
  <2> HIDE DEF T
  <2>2. QED BY <1>2, <2>1, LeastNumber
<1>4. n # 0
  BY <1>3, BallStep DEF Ranked
<1>5. n - 1 \in 0..K /\ n - 1 <= p /\ n - 1 < p /\ ~(n <= n - 1) /\ n \in 0..K
  BY <1>1, <1>3, <1>4
<1>6. Holds(n - 1)
  BY <1>3, <1>5
<1>7. ball[n] = Grown(ball[n - 1])
  BY <1>4, <1>5, BallStep
<1>8. ASSUME NEW f \in ball[n] PROVE f \in DOMAIN tree /\ rank[f] <= n
  <2>1. CASE f \in ball[n - 1]
    BY <1>5, <1>6, <2>1 DEF Ranked
  <2>2. CASE f \notin ball[n - 1]
    <3>1. PICK h \in ball[n - 1] : f \in Similar[h]
      BY <1>7, <1>8, <2>2 DEF Grown
    <3>2. h \in DOMAIN tree /\ rank[h] <= n - 1 /\ rank[h] \in Nat
      BY <1>6, <3>1 DEF Ranked
    <3>3. rank[h] < p
      BY <1>5, <3>2
    <3>4. f \in DOMAIN tree /\ rank[f] <= rank[h] + 1
      BY <3>1, <3>2, <3>3 DEF Explored
    <3>5. rank[f] \in Nat
      BY <3>4 DEF Ranked
    <3>6. QED BY <1>5, <3>2, <3>4, <3>5
  <2>3. QED BY <2>1, <2>2
<1>9. QED BY <1>3, <1>8

\* Two trees that have not met are further apart than they have been explored.
LEMMA FarApart ==
  ASSUME NEW tree, NEW root \in Network, NEW rank, Ranked(tree, root, rank),
         NEW p \in Nat, Explored(tree, rank, p),
         NEW other, NEW far, NEW orank, Ranked(other, far, orank),
         NEW q \in Nat, Explored(other, orank, q),
         DOMAIN tree \intersect DOMAIN other = {},
         NEW ball, IsBall(ball, root),
         NEW k \in 0..Cardinality(Fields), k <= p + q
  PROVE  far \notin ball[k]
<1> DEFINE K == Cardinality(Fields)
           Holds(i) == \A f \in ball[p + i] : f \in DOMAIN other => orank[f] + i > q
           T == {i \in 0..q : p + i <= K /\ ~Holds(i)}
<1>1. K \in Nat
  BY FinitenessAssumption, FS_CardinalityType
<1>2. T = {}
  <2>1. SUFFICES ASSUME T # {} PROVE FALSE
    OBVIOUS
  <2>2. PICK n \in T : \A m \in T : n <= m
    <3>1. T \subseteq Nat
      OBVIOUS
    <3> HIDE DEF T
    <3>2. QED BY <2>1, <3>1, LeastNumber
  <2>3. PICK f \in ball[p + n] : f \in DOMAIN other /\ ~(orank[f] + n > q)
    BY <2>2
  <2>4. orank[f] \in Nat /\ n \in Nat /\ p + n \in 0..K
    BY <1>1, <2>2, <2>3 DEF Ranked
  <2>5. n # 0
    <3>1. SUFFICES ASSUME n = 0 PROVE FALSE
      OBVIOUS
    <3>2. p \in 0..K /\ f \in ball[p]
      BY <2>3, <2>4, <3>1
    <3>3. f \in DOMAIN tree
      BY <3>2, BallWithin
    <3>4. QED BY <2>3, <3>3
  <2>6. /\ p + (n - 1) \in 0..K /\ (p + n) - 1 = p + (n - 1) /\ p + n # 0
        /\ n - 1 \in 0..q /\ ~(n <= n - 1)
    BY <1>1, <2>2, <2>4, <2>5
  <2>7. Holds(n - 1)
    BY <2>2, <2>6
  <2>8. ball[p + n] = Grown(ball[p + (n - 1)])
    BY <2>4, <2>6, BallStep
  <2>9. CASE f \in ball[p + (n - 1)]
    BY <2>3, <2>4, <2>7, <2>9
  <2>10. CASE f \notin ball[p + (n - 1)]
    <3>1. PICK h \in ball[p + (n - 1)] : f \in Similar[h]
      BY <2>3, <2>8, <2>10 DEF Grown
    <3>2. h \in Network /\ f \in Network
      BY <2>3, <2>4, <2>6, <3>1, BallStep
    <3>3. h \in Similar[f]
      BY <3>1, <3>2, UndirectedAssumption
    <3>4. orank[f] < q
      BY <2>3, <2>4, <2>5
    <3>5. h \in DOMAIN other /\ orank[h] <= orank[f] + 1
      BY <2>3, <3>3, <3>4 DEF Explored
    <3>6. orank[h] + (n - 1) > q /\ orank[h] \in Nat
      BY <2>7, <3>1, <3>5 DEF Ranked
    <3>7. QED BY <2>3, <2>4, <3>5, <3>6
  <2>11. QED BY <2>9, <2>10
<1>3. far \in DOMAIN other /\ orank[far] = 0
  BY DEF Ranked
<1>4. CASE k <= p
  <2>1. far \notin DOMAIN tree
    BY <1>3
  <2>2. QED BY <1>4, <2>1, BallWithin
<1>5. CASE ~(k <= p)
  <2>1. k - p \in 0..q /\ p + (k - p) = k /\ k <= K
    BY <1>1, <1>5
  <2>2. Holds(k - p)
    BY <1>2, <2>1
  <2>3. far \in ball[k] => orank[far] + (k - p) > q
    <3>1. far \in ball[p + (k - p)] => orank[far] + (k - p) > q
      BY <1>3, <2>2
    <3>2. QED BY <2>1, <3>1
  <2>4. ~(orank[far] + (k - p) > q)
    BY <1>3, <2>1
  <2>5. QED BY <2>3, <2>4
<1>6. QED BY <1>4, <1>5

\* A field of rank n lies within n steps of the root.
LEMMA RankReached ==
  ASSUME NEW tree, NEW root \in Network, NEW rank, Ranked(tree, root, rank),
         NEW ball, IsBall(ball, root), NEW f \in DOMAIN tree
  PROVE  f \in ball[rank[f]]
<1> DEFINE K == Cardinality(Fields)
           T == {n \in Nat : \E x \in DOMAIN tree : rank[x] = n /\ x \notin ball[n]}
<1>1. K \in Nat /\ \A x \in DOMAIN tree : rank[x] \in 0..K
  BY FinitenessAssumption, FS_CardinalityType, FS_Subset DEF Ranked
<1>2. T = {}
  <2>1. SUFFICES ASSUME T # {} PROVE FALSE
    OBVIOUS
  <2>2. PICK n \in T : \A m \in T : n <= m
    <3>1. T \subseteq Nat
      OBVIOUS
    <3> HIDE DEF T
    <3>2. QED BY <2>1, <3>1, LeastNumber
  <2>3. PICK x \in DOMAIN tree : rank[x] = n /\ x \notin ball[n]
    BY <2>2
  <2>4. n # 0 /\ x # root
    <3>1. CASE x = root
      BY <2>3, <3>1, BallStep DEF Ranked
    <3>2. CASE x # root
      BY <2>3, <3>2 DEF Ranked
    <3>3. QED BY <3>1, <3>2
  <2>5. /\ tree[x] \in DOMAIN tree /\ x \in Similar[tree[x]]
        /\ rank[tree[x]] = n - 1 /\ n - 1 \in Nat
    BY <2>3, <2>4 DEF Ranked
  <2>6. tree[x] \in ball[n - 1]
    BY <2>2, <2>5
  <2>7. ball[n] = Grown(ball[n - 1])
    BY <1>1, <2>3, <2>4, BallStep
  <2>8. QED BY <2>3, <2>5, <2>6, <2>7 DEF Grown
<1>3. QED BY <1>1, <1>2

\* Up one tree and down the other: a field of both trees is on a path whose
\* length is the sum of its ranks.
LEMMA WithinReach ==
  ASSUME NEW tree, NEW root \in Network, NEW rank, Ranked(tree, root, rank),
         NEW other, NEW far, NEW orank, Ranked(other, far, orank),
         NEW ball, IsBall(ball, root),
         NEW w, w \in DOMAIN tree, w \in DOMAIN other,
         rank[w] + orank[w] <= Cardinality(Fields)
  PROVE  far \in ball[rank[w] + orank[w]]
<1> DEFINE K == Cardinality(Fields)
           n == rank[w]
           o == orank[w]
           T == {k \in 0..o : ~ \E x \in DOMAIN other : orank[x] = o - k /\ x \in ball[n + k]}
<1>1. K \in Nat /\ n \in Nat /\ o \in Nat
  BY FinitenessAssumption, FS_CardinalityType DEF Ranked
<1>2. w \in ball[n]
  BY RankReached
<1> HIDE DEF K, n, o
<1>3. T = {}
  <2>1. SUFFICES ASSUME T # {} PROVE FALSE
    OBVIOUS
  <2>2. PICK k \in T : \A m \in T : k <= m
    <3>1. T \subseteq Nat
      BY <1>1
    <3> HIDE DEF T
    <3>2. QED BY <2>1, <3>1, LeastNumber
  <2>3. k # 0
    <3>1. orank[w] = o - 0 /\ w \in ball[n + 0]
      BY <1>1, <1>2 DEF o
    <3>2. QED BY <2>2, <3>1
  <2>4. k - 1 \in 0..o /\ ~(k <= k - 1)
    BY <1>1, <2>2, <2>3
  <2>5. PICK x \in DOMAIN other : orank[x] = o - (k - 1) /\ x \in ball[n + (k - 1)]
    BY <2>2, <2>4
  <2>6. x # far
    BY <1>1, <2>2, <2>5 DEF Ranked
  <2> DEFINE y == other[x]
  <2>7. y \in DOMAIN other /\ y \in Network /\ x \in Similar[y] /\ orank[x] = orank[y] + 1
    BY <2>6 DEF Ranked
  <2>8. x \in Network /\ y \in Similar[x]
    BY <2>7, NetworkAssumption, UndirectedAssumption
  <2>9. n + k \in 0..K /\ n + k # 0 /\ (n + k) - 1 = n + (k - 1)
    BY <1>1, <2>2, <2>3 DEF K, n, o
  <2>10. ball[n + k] = Grown(ball[n + (k - 1)])
    BY <2>9, BallStep DEF K
  <2>11. y \in ball[n + k]
    BY <2>5, <2>8, <2>10 DEF Grown
  <2>12. orank[y] = o - k
    <3>1. orank[y] \in Nat
      BY <2>7 DEF Ranked
    <3> HIDE DEF y
    <3>2. QED BY <1>1, <2>2, <2>5, <2>7, <3>1
  <2>13. QED BY <2>2, <2>7, <2>11, <2>12
<1>4. PICK x \in DOMAIN other : orank[x] = o - o /\ x \in ball[n + o]
  <2>1. o \in 0..o
    BY <1>1
  <2>2. QED BY <1>3, <2>1
<1>5. x = far
  <2>1. orank[x] = 0
    BY <1>1, <1>4
  <2>2. x # far => orank[other[x]] \in Nat /\ orank[x] = orank[other[x]] + 1
    BY DEF Ranked
  <2>3. QED BY <2>1, <2>2
<1>6. QED BY <1>4, <1>5 DEF n, o

\* Two trees that have not met share the fields there are.
LEMMA DisjointSizes ==
  ASSUME NEW tree, NEW root, NEW rank, Ranked(tree, root, rank),
         NEW other, NEW far, NEW orank, Ranked(other, far, orank),
         DOMAIN tree \intersect DOMAIN other = {}
  PROVE  /\ Cardinality(DOMAIN tree) \in Nat /\ Cardinality(DOMAIN other) \in Nat
         /\ Cardinality(Fields) \in Nat
         /\ Cardinality(DOMAIN tree) + Cardinality(DOMAIN other)
              <= Cardinality(Fields)
<1> DEFINE A == DOMAIN tree
           B == DOMAIN other
<1>1. A \subseteq Fields /\ B \subseteq Fields /\ A \union B \subseteq Fields
  BY DEF Ranked
<1> HIDE DEF A, B
<1>2. IsFiniteSet(A) /\ IsFiniteSet(B)
  BY <1>1, FinitenessAssumption, FS_Subset
<1>3. Cardinality(A \union B) = Cardinality(A) + Cardinality(B) - Cardinality(A \intersect B)
  BY <1>2, FS_Union
<1>4. Cardinality(A \intersect B) = 0
  BY FS_EmptySet DEF A, B
<1>5. Cardinality(A \union B) <= Cardinality(Fields)
  BY <1>1, FinitenessAssumption, FS_Subset
<1>6. Cardinality(A) \in Nat /\ Cardinality(B) \in Nat /\ Cardinality(Fields) \in Nat
  BY <1>2, FinitenessAssumption, FS_CardinalityType
<1>7. Cardinality(A) + Cardinality(B) <= Cardinality(Fields)
  BY <1>3, <1>4, <1>5, <1>6
<1>8. QED BY <1>6, <1>7 DEF A, B

\* The first field that both trees hold is on a shortest path, when it is one
\* step further away than the two trees had been explored.
LEMMA MeetShortest ==
  ASSUME NEW tree, NEW root, NEW rank, NEW p \in Nat,
         Ranked(tree, root, rank), Explored(tree, rank, p),
         NEW other, NEW far, NEW orank, NEW q \in Nat,
         Ranked(other, far, orank), Explored(other, orank, q),
         DOMAIN tree \intersect DOMAIN other = {},
         NEW tree2, NEW rank2, Ranked(tree2, root, rank2),
         NEW other2, NEW orank2, Ranked(other2, far, orank2),
         NEW w \in Network, w \in DOMAIN tree2, w \in DOMAIN other2,
         rank2[w] + orank2[w] = p + q + 1,
         p + q + 1 <= Cardinality(Fields)
  PROVE  Depth(tree2, w) + Depth(other2, w) = Distance(root, far)
<1>1. root \in Network
  BY DEF Ranked
<1> DEFINE d == p + q + 1
<1>2. Cardinality(Fields) \in Nat
  BY FinitenessAssumption, FS_CardinalityType
<1>3. d \in 0..Cardinality(Fields)
  BY <1>2
<1>4. ASSUME NEW b, IsBall(b, root)
      PROVE  far \in b[d] /\ \A m \in 0..(d - 1) : far \notin b[m]
  <2>1. far \in b[rank2[w] + orank2[w]]
    BY <1>1, <1>4, WithinReach
  <2>2. ASSUME NEW m \in 0..(d - 1) PROVE far \notin b[m]
    <3>1. m \in 0..Cardinality(Fields) /\ m <= p + q
      BY <1>2, <1>3
    <3>2. QED BY <1>1, <1>4, <3>1, FarApart
  <2>3. QED BY <2>1, <2>2
<1>5. Distance(root, far) = d
  <2> HIDE DEF d
  <2>1. QED BY <1>3, <1>4, DistanceIs
<1>6. Depth(tree2, w) = rank2[w] /\ Depth(other2, w) = orank2[w]
  BY DepthIsRank
<1>7. QED BY <1>5, <1>6

-----------------------------------------------------------------------------
(* The levels of the search *)

\* The fringe of a tree is its last level, and no edge leads further than to
\* the next level.
Layers(tree, fringe, rank, n) ==
  /\ n \in Nat
  /\ \A f \in DOMAIN tree : rank[f] <= n
  /\ fringe = {f \in DOMAIN tree : rank[f] = n}
  /\ \A f \in DOMAIN tree : \A g \in Similar[f] :
       g \in DOMAIN tree => rank[g] <= rank[f] + 1

\* The level that is being expanded is the last but one.
Busy(mine, rank, n) ==
  side = mine /\ pc \in {"expanding", "visiting"} =>
    /\ \A f \in level : rank[f] = n - 1
    /\ pc = "visiting" => rank[at] = n - 1

\* A tree with its levels.
Growing(tree, root, fringe, mine, rank, n) ==
  /\ Ranked(tree, root, rank)
  /\ Layers(tree, fringe, rank, n)
  /\ Busy(mine, rank, n)

Layered(tree, root, fringe, mine) ==
  \E rank, n : Growing(tree, root, fringe, mine, rank, n)

\* Both trees grow level by level, and what is visited is next to the field
\* whose neighbours were looked up.
Levelwise ==
  /\ pc \in {"start", "choosing", "expanding", "visiting"} =>
       /\ Layered(pred, source, forward, "forward")
       /\ Layered(succ, target, reverse, "reverse")
  /\ pc = "visiting" => todo \subseteq Similar[at]

\* How far a tree has been explored during a visit.
LEMMA ExploredSoFar ==
  ASSUME pc = "visiting", NEW tree, NEW root, NEW fringe, NEW mine,
         Covered(tree, fringe, mine),
         NEW rank, NEW n, Ranked(tree, root, rank),
         Layers(tree, fringe, rank, n), Busy(mine, rank, n),
         NEW p \in Nat, p = IF side = mine THEN n - 1 ELSE n
  PROVE  Explored(tree, rank, p)
<1>1. SUFFICES ASSUME NEW f \in DOMAIN tree, rank[f] < p, NEW g \in Similar[f]
               PROVE  g \in DOMAIN tree /\ rank[g] <= rank[f] + 1
  BY DEF Explored
<1>2. rank[f] \in Nat /\ n \in Nat /\ rank[f] # n
  BY <1>1 DEF Ranked, Layers
<1>3. f \notin fringe
  BY <1>2 DEF Layers
<1>4. side = mine => rank[f] # n - 1
  BY <1>1, <1>2
<1>5. side = mine => f \notin level /\ f # at
  BY <1>4 DEF Busy
<1>6. Similar[f] \subseteq DOMAIN tree
  BY <1>3, <1>5 DEF Covered
<1>7. QED BY <1>1, <1>6 DEF Layers

\* The field w joins a tree of n levels, on the last one when it is new to it.
Joins(tree, root, fringe, rank, n, w) ==
  \E rank2 :
    /\ Ranked(Extend(tree, w), root, rank2)
    /\ w \in DOMAIN tree => Layers(Extend(tree, w), fringe, rank2, n)
    /\ w \notin DOMAIN tree =>
         Layers(Extend(tree, w), fringe \union {w}, rank2, n)
    /\ \A f \in DOMAIN tree : rank2[f] = rank[f]
    /\ w \notin DOMAIN tree => rank2[w] = n

\* What a visit makes of the tree it belongs to.
LEMMA VisitedTree ==
  ASSUME pc = "visiting", at \in Network, todo \subseteq Similar[at],
         NEW tree, NEW root, NEW fringe, NEW mine, side = mine,
         Covered(tree, fringe, mine), at \in DOMAIN tree,
         NEW rank, NEW n, Growing(tree, root, fringe, mine, rank, n),
         NEW w \in todo, w \in Network
  PROVE  Joins(tree, root, fringe, rank, n, w)
<1> USE DEF Growing, Joins
<1>1. w \in Similar[at] /\ rank[at] = n - 1 /\ rank[at] \in Nat /\ n \in Nat
  BY DEF Busy, Ranked, Layers
<1>2. CASE w \in DOMAIN tree
  <2>1. Extend(tree, w) = [f \in DOMAIN tree |-> tree[f]]
    BY <1>2 DEF Extend
  <2> DEFINE new == Extend(tree, w)
  <2>2. DOMAIN new = DOMAIN tree /\ \A f \in DOMAIN tree : new[f] = tree[f]
    BY <2>1
  <2> HIDE DEF new
  <2>3. Ranked(new, root, rank)
    BY <2>2 DEF Ranked
  <2>4. Layers(new, fringe, rank, n)
    BY <2>2 DEF Layers
  <2>5. QED BY <1>2, <2>3, <2>4 DEF new
<1>3. CASE w \notin DOMAIN tree
  <2> DEFINE new == Extend(tree, w)
             rank2 == [f \in DOMAIN tree \union {w} |->
                         IF f \in DOMAIN tree THEN rank[f] ELSE n]
  <2>1. /\ DOMAIN new = DOMAIN tree \union {w}
        /\ \A f \in DOMAIN tree : new[f] = tree[f]
        /\ new[w] = at
    BY <1>3 DEF Extend
  <2>2. /\ rank2 \in [DOMAIN new -> Nat]
        /\ \A f \in DOMAIN tree : rank2[f] = rank[f]
        /\ rank2[w] = n
    BY <1>1, <1>3, <2>1 DEF Ranked
  <2> HIDE DEF new, rank2
  <2>3. Ranked(new, root, rank2)
    <3>1. root \in DOMAIN new /\ new[root] = None /\ rank2[root] = 0
      BY <2>1, <2>2 DEF Ranked
    <3>2. ASSUME NEW f \in DOMAIN new \ {root}
          PROVE  /\ new[f] \in DOMAIN new \intersect Network
                 /\ f \in Similar[new[f]] /\ rank2[f] = rank2[new[f]] + 1
      <4>1. CASE f \in DOMAIN tree
        BY <2>1, <2>2, <3>2, <4>1 DEF Ranked
      <4>2. CASE f = w
        BY <1>1, <2>1, <2>2, <4>2
      <4>3. QED BY <2>1, <4>1, <4>2
    <3>3. root \in Network \/ DOMAIN new = {root}
      BY DEF Ranked
    <3>4. DOMAIN new \subseteq Fields
      BY <2>1, NetworkAssumption DEF Ranked
    <3>5. IsFiniteSet(DOMAIN tree) /\ Cardinality(DOMAIN tree) \in Nat
      BY FinitenessAssumption, FS_Subset, FS_CardinalityType DEF Ranked
    <3>6. Cardinality(DOMAIN new) = Cardinality(DOMAIN tree) + 1
      BY <1>3, <2>1, <3>5, FS_AddElement
    <3>7. ASSUME NEW f \in DOMAIN new PROVE rank2[f] < Cardinality(DOMAIN new)
      <4>1. \A g \in DOMAIN tree : rank[g] < Cardinality(DOMAIN tree) /\ rank[g] \in Nat
        BY DEF Ranked
      <4>2. CASE f \in DOMAIN tree
        BY <2>2, <3>5, <3>6, <4>1, <4>2
      <4>3. CASE f = w
        BY <1>1, <2>2, <3>5, <3>6, <4>1, <4>3
      <4>4. QED BY <2>1, <4>2, <4>3
    <3>8. QED BY <2>2, <3>1, <3>2, <3>3, <3>4, <3>7 DEF Ranked
  <2>4. Layers(new, fringe \union {w}, rank2, n)
    <3>1. \A f \in DOMAIN new : rank2[f] <= n
      BY <1>1, <2>1, <2>2 DEF Layers
    <3>2. fringe \union {w} = {f \in DOMAIN new : rank2[f] = n}
      BY <2>1, <2>2 DEF Layers
    <3>3. ASSUME NEW f \in DOMAIN new, NEW g \in Similar[f], g \in DOMAIN new
          PROVE  rank2[g] <= rank2[f] + 1
      <4>1. rank2[f] \in Nat /\ rank2[g] \in Nat /\ rank2[g] <= n
        BY <2>2, <3>1, <3>3
      <4>2. CASE rank2[f] >= n - 1
        BY <1>1, <4>1, <4>2
      <4>3. CASE ~(rank2[f] >= n - 1)
        <5>1. f \in DOMAIN tree /\ rank[f] < n - 1 /\ rank2[f] = rank[f]
          BY <1>1, <2>1, <2>2, <4>1, <4>3
        <5>2. Explored(tree, rank, n - 1)
          BY <1>1, ExploredSoFar
        <5>3. g \in DOMAIN tree /\ rank[g] <= rank[f] + 1
          BY <3>3, <5>1, <5>2 DEF Explored
        <5>4. QED BY <2>2, <5>1, <5>3
      <4>4. QED BY <4>2, <4>3
    <3>4. QED BY <1>1, <3>1, <3>2, <3>3 DEF Layers
  <2>5. QED BY <1>3, <2>2, <2>3, <2>4 DEF new
<1>4. QED BY <1>2, <1>3

\* A visit on the forward side keeps the trees level by level, and one that ends
\* the search has found a shortest path.
LEMMA ForwardLevelwise ==
  ASSUME Typed, Rooted, Apart, Levelwise, pc = "visiting", side = "forward",
         NEW w \in todo, w \in Network,
         pred' = Extend(pred, w), succ' = succ,
         forward' = IF w \in DOMAIN pred THEN forward ELSE forward \union {w},
         reverse' = reverse, todo' = todo \ {w},
         UNCHANGED <<args, side, level, at>>,
         IF w \in DOMAIN succ THEN pc' = "found" /\ meet' = w
         ELSE UNCHANGED <<pc, meet>>
  PROVE  Levelwise' /\ PathIsShortest'
<1>1. /\ at \in Network /\ at \in DOMAIN pred /\ level \subseteq DOMAIN pred
      /\ todo \subseteq Similar[at]
      /\ Covered(pred, forward, "forward") /\ Covered(succ, reverse, "reverse")
      /\ DOMAIN pred \intersect DOMAIN succ = {}
  BY DEF Typed, Rooted, Own, Levelwise, Apart
<1>2. PICK rank, n : /\ Ranked(pred, source, rank)
                     /\ Layers(pred, forward, rank, n)
                     /\ Busy("forward", rank, n)
  BY DEF Levelwise, Layered, Growing
<1>3. PICK orank, m : /\ Ranked(succ, target, orank)
                      /\ Layers(succ, reverse, orank, m)
                      /\ Busy("reverse", orank, m)
  BY DEF Levelwise, Layered, Growing
<1>4. PICK rank2 :
        /\ Ranked(pred', source, rank2)
        /\ Layers(pred', forward', rank2, n)
        /\ \A f \in DOMAIN pred : rank2[f] = rank[f]
        /\ w \notin DOMAIN pred => rank2[w] = n
  <2>1. Growing(pred, source, forward, "forward", rank, n)
    BY <1>2 DEF Growing
  <2>2. Joins(pred, source, forward, rank, n, w)
    BY <1>1, <2>1, VisitedTree
  <2>3. QED BY <2>2 DEF Joins
<1>5. CASE w \notin DOMAIN succ
  <2>1. pc' = "visiting" /\ todo' \subseteq Similar[at']
    BY <1>1, <1>5
  <2>2. Busy("forward", rank2, n)' /\ Busy("reverse", orank, m)'
    <3>1. (\A f \in level : rank[f] = n - 1) /\ rank[at] = n - 1
      BY <1>2 DEF Busy
    <3>2. (\A f \in level : rank2[f] = n - 1) /\ rank2[at] = n - 1
      BY <1>1, <1>4, <3>1
    <3>3. QED BY <3>2 DEF Busy
  <2>3. Layered(pred, source, forward, "forward")'
    <3>1. Ranked(pred', source', rank2) /\ Layers(pred', forward', rank2, n)
      BY <1>4 DEF args
    <3>2. QED BY <2>2, <3>1 DEF Layered, Growing
  <2>4. Layered(succ, target, reverse, "reverse")'
    <3>1. Ranked(succ', target', orank) /\ Layers(succ', reverse', orank, m)
      BY <1>3 DEF args
    <3>2. QED BY <2>2, <3>1 DEF Layered, Growing
  <2>5. QED BY <2>1, <2>3, <2>4 DEF Levelwise, PathIsShortest
<1>6. CASE w \in DOMAIN succ
  <2>1. pc' = "found" /\ meet' = w /\ w \notin DOMAIN pred
    BY <1>1, <1>6
  <2>2. rank[at] = n - 1 /\ n - 1 \in Nat /\ n \in Nat /\ m \in Nat
    BY <1>1, <1>2, <1>3 DEF Busy, Ranked, Layers
  <2>3. Explored(pred, rank, n - 1) /\ Explored(succ, orank, m)
    BY <1>1, <1>2, <1>3, <2>2, ExploredSoFar
  \* Were w nearer to the root of the other tree, at would be in it.
  <2>4. orank[w] = m
    <3>1. orank[w] <= m /\ orank[w] \in Nat
      BY <1>3, <1>6 DEF Ranked, Layers
    <3>2. at \in Similar[w]
      BY <1>1, UndirectedAssumption
    <3>3. orank[w] < m => at \in DOMAIN succ
      BY <1>6, <2>3, <3>2 DEF Explored
    <3>4. QED BY <1>1, <2>2, <3>1, <3>3
  <2>5. rank2[w] + orank[w] = (n - 1) + m + 1 /\ rank2[w] + orank[w] = m + (n - 1) + 1
    BY <1>4, <2>1, <2>2, <2>4
  <2>6. (n - 1) + m + 1 <= Cardinality(Fields) /\ m + (n - 1) + 1 <= Cardinality(Fields)
    <3>1. rank[at] < Cardinality(DOMAIN pred) /\ orank[w] < Cardinality(DOMAIN succ)
      BY <1>1, <1>2, <1>3, <1>6 DEF Ranked
    <3>2. /\ Cardinality(DOMAIN pred) \in Nat /\ Cardinality(DOMAIN succ) \in Nat
          /\ Cardinality(Fields) \in Nat
          /\ Cardinality(DOMAIN pred) + Cardinality(DOMAIN succ) <= Cardinality(Fields)
      BY <1>1, <1>2, <1>3, DisjointSizes
    <3>3. QED BY <2>2, <2>4, <3>1, <3>2
  <2>7. w \in DOMAIN pred'
    BY DEF Extend
  <2>8. Depth(pred', w) + Depth(succ', w) = Distance(source, target)
    <3>1. Ranked(succ', target, orank) /\ w \in DOMAIN succ'
      BY <1>3, <1>6
    <3>2. QED BY <1>1, <1>2, <1>3, <1>4, <2>2, <2>3, <2>5, <2>6, <2>7, <3>1,
                 MeetShortest
  <2>9. PathIsShortest'
    BY <2>1, <2>8 DEF PathIsShortest, args
  <2>10. QED BY <2>1, <2>9 DEF Levelwise
<1>7. QED BY <1>5, <1>6

\* A visit on the reverse side keeps the trees level by level, and one that ends
\* the search has found a shortest path.
LEMMA ReverseLevelwise ==
  ASSUME Typed, Rooted, Apart, Levelwise, pc = "visiting", side = "reverse",
         NEW w \in todo, w \in Network,
         succ' = Extend(succ, w), pred' = pred,
         reverse' = IF w \in DOMAIN succ THEN reverse ELSE reverse \union {w},
         forward' = forward, todo' = todo \ {w},
         UNCHANGED <<args, side, level, at>>,
         IF w \in DOMAIN pred THEN pc' = "found" /\ meet' = w
         ELSE UNCHANGED <<pc, meet>>
  PROVE  Levelwise' /\ PathIsShortest'
<1>1. /\ at \in Network /\ at \in DOMAIN succ /\ level \subseteq DOMAIN succ
      /\ todo \subseteq Similar[at]
      /\ Covered(succ, reverse, "reverse") /\ Covered(pred, forward, "forward")
      /\ DOMAIN pred \intersect DOMAIN succ = {}
  BY DEF Typed, Rooted, Own, Levelwise, Apart
<1>2. PICK rank, n : /\ Ranked(succ, target, rank)
                     /\ Layers(succ, reverse, rank, n)
                     /\ Busy("reverse", rank, n)
  BY DEF Levelwise, Layered, Growing
<1>3. PICK orank, m : /\ Ranked(pred, source, orank)
                      /\ Layers(pred, forward, orank, m)
                      /\ Busy("forward", orank, m)
  BY DEF Levelwise, Layered, Growing
<1>4. PICK rank2 :
        /\ Ranked(succ', target, rank2)
        /\ Layers(succ', reverse', rank2, n)
        /\ \A f \in DOMAIN succ : rank2[f] = rank[f]
        /\ w \notin DOMAIN succ => rank2[w] = n
  <2>1. Growing(succ, target, reverse, "reverse", rank, n)
    BY <1>2 DEF Growing
  <2>2. Joins(succ, target, reverse, rank, n, w)
    BY <1>1, <2>1, VisitedTree
  <2>3. QED BY <2>2 DEF Joins
<1>5. CASE w \notin DOMAIN pred
  <2>1. pc' = "visiting" /\ todo' \subseteq Similar[at']
    BY <1>1, <1>5
  <2>2. Busy("reverse", rank2, n)' /\ Busy("forward", orank, m)'
    <3>1. (\A f \in level : rank[f] = n - 1) /\ rank[at] = n - 1
      BY <1>2 DEF Busy
    <3>2. (\A f \in level : rank2[f] = n - 1) /\ rank2[at] = n - 1
      BY <1>1, <1>4, <3>1
    <3>3. QED BY <3>2 DEF Busy
  <2>3. Layered(succ, target, reverse, "reverse")'
    <3>1. Ranked(succ', target', rank2) /\ Layers(succ', reverse', rank2, n)
      BY <1>4 DEF args
    <3>2. QED BY <2>2, <3>1 DEF Layered, Growing
  <2>4. Layered(pred, source, forward, "forward")'
    <3>1. Ranked(pred', source', orank) /\ Layers(pred', forward', orank, m)
      BY <1>3 DEF args
    <3>2. QED BY <2>2, <3>1 DEF Layered, Growing
  <2>5. QED BY <2>1, <2>3, <2>4 DEF Levelwise, PathIsShortest
<1>6. CASE w \in DOMAIN pred
  <2>1. pc' = "found" /\ meet' = w /\ w \notin DOMAIN succ
    BY <1>1, <1>6
  <2>2. rank[at] = n - 1 /\ n - 1 \in Nat /\ n \in Nat /\ m \in Nat
    BY <1>1, <1>2, <1>3 DEF Busy, Ranked, Layers
  <2>3. Explored(succ, rank, n - 1) /\ Explored(pred, orank, m)
    BY <1>1, <1>2, <1>3, <2>2, ExploredSoFar
  \* Were w nearer to the root of the other tree, at would be in it.
  <2>4. orank[w] = m
    <3>1. orank[w] <= m /\ orank[w] \in Nat
      BY <1>3, <1>6 DEF Ranked, Layers
    <3>2. at \in Similar[w]
      BY <1>1, UndirectedAssumption
    <3>3. orank[w] < m => at \in DOMAIN pred
      BY <1>6, <2>3, <3>2 DEF Explored
    <3>4. QED BY <1>1, <2>2, <3>1, <3>3
  <2>5. rank2[w] + orank[w] = (n - 1) + m + 1 /\ rank2[w] + orank[w] = m + (n - 1) + 1
    BY <1>4, <2>1, <2>2, <2>4
  <2>6. (n - 1) + m + 1 <= Cardinality(Fields) /\ m + (n - 1) + 1 <= Cardinality(Fields)
    <3>1. rank[at] < Cardinality(DOMAIN succ) /\ orank[w] < Cardinality(DOMAIN pred)
      BY <1>1, <1>2, <1>3, <1>6 DEF Ranked
    <3>2. /\ Cardinality(DOMAIN succ) \in Nat /\ Cardinality(DOMAIN pred) \in Nat
          /\ Cardinality(Fields) \in Nat
          /\ Cardinality(DOMAIN succ) + Cardinality(DOMAIN pred) <= Cardinality(Fields)
      BY <1>1, <1>2, <1>3, DisjointSizes
    <3>3. QED BY <2>2, <2>4, <3>1, <3>2
  <2>7. w \in DOMAIN succ'
    BY DEF Extend
  <2>8. Depth(pred', w) + Depth(succ', w) = Distance(source, target)
    <3>1. Ranked(pred', source, orank) /\ w \in DOMAIN pred'
      BY <1>3, <1>6
    <3>2. orank[w] + rank2[w] = m + (n - 1) + 1
      BY <1>4, <2>1, <2>2, <2>4
    <3>3. QED BY <1>1, <1>2, <1>3, <1>4, <2>2, <2>3, <2>6, <2>7, <3>1, <3>2,
                 MeetShortest
  <2>9. PathIsShortest'
    BY <2>1, <2>8 DEF PathIsShortest, args
  <2>10. QED BY <2>1, <2>9 DEF Levelwise
<1>7. QED BY <1>5, <1>6

\* Every step keeps the trees level by level, and a path found stays found.
LEMMA LevelwisePreserved ==
  ASSUME Typed, Rooted, Apart, Levelwise, PathIsShortest, [Next]_vars
  PROVE  Levelwise' /\ PathIsShortest'
<1>1. CASE Start
  <2>1. /\ pc = "start" /\ pc' \in {"found", "choosing"}
        /\ pc' = "found" => source = target
        /\ UNCHANGED <<args, trees, side, level, at, todo>>
    BY <1>1 DEF Start
  <2>2. QED BY <2>1 DEF Levelwise, Layered, Growing, Busy, PathIsShortest, args, trees
<1>2. CASE GiveUp \/ UnknownField
  BY <1>2 DEF GiveUp, UnknownField, Levelwise, PathIsShortest
<1>3. CASE ChooseSide
  <2>1. pc = "choosing" /\ pc' = "expanding" /\ UNCHANGED <<args, pred, succ>>
    BY <1>3 DEF ChooseSide
  <2>2. PICK r, i : /\ Ranked(pred, source, r) /\ Layers(pred, forward, r, i)
    BY <2>1 DEF Levelwise, Layered, Growing
  <2>3. PICK s, j : /\ Ranked(succ, target, s) /\ Layers(succ, reverse, s, j)
    BY <2>1 DEF Levelwise, Layered, Growing
  <2>4. (\A f \in DOMAIN pred : r[f] \in Nat) /\ (\A f \in DOMAIN succ : s[f] \in Nat)
    BY <2>2, <2>3 DEF Ranked
  <2>5. Layers(pred, {}, r, i + 1) /\ Layers(succ, {}, s, j + 1)
    BY <2>2, <2>3, <2>4 DEF Layers
  <2>6. CASE side' = "forward"
    <3>1. level' = forward /\ forward' = {} /\ reverse' = reverse
      BY <1>3, <2>6 DEF ChooseSide
    <3>2. Busy("forward", r, i + 1)' /\ Busy("reverse", s, j)'
      <4>1. \A f \in level' : r[f] = i
        BY <2>2, <3>1 DEF Layers
      <4>2. (i + 1) - 1 = i
        BY <2>2 DEF Layers
      <4>3. QED BY <2>1, <2>6, <4>1, <4>2 DEF Busy
    <3>3. Layered(pred, source, forward, "forward")'
      <4>1. Ranked(pred', source', r) /\ Layers(pred', forward', r, i + 1)
        BY <2>1, <2>2, <2>5, <3>1 DEF args
      <4>2. QED BY <3>2, <4>1 DEF Layered, Growing
    <3>4. Layered(succ, target, reverse, "reverse")'
      <4>1. Ranked(succ', target', s) /\ Layers(succ', reverse', s, j)
        BY <2>1, <2>3, <3>1 DEF args
      <4>2. QED BY <3>2, <4>1 DEF Layered, Growing
    <3>5. QED BY <2>1, <3>3, <3>4 DEF Levelwise, PathIsShortest
  <2>7. CASE side' = "reverse"
    <3>1. level' = reverse /\ reverse' = {} /\ forward' = forward
      BY <1>3, <2>7 DEF ChooseSide
    <3>2. Busy("forward", r, i)' /\ Busy("reverse", s, j + 1)'
      <4>1. \A f \in level' : s[f] = j
        BY <2>3, <3>1 DEF Layers
      <4>2. (j + 1) - 1 = j
        BY <2>3 DEF Layers
      <4>3. QED BY <2>1, <2>7, <4>1, <4>2 DEF Busy
    <3>3. Layered(pred, source, forward, "forward")'
      <4>1. Ranked(pred', source', r) /\ Layers(pred', forward', r, i)
        BY <2>1, <2>2, <3>1 DEF args
      <4>2. QED BY <3>2, <4>1 DEF Layered, Growing
    <3>4. Layered(succ, target, reverse, "reverse")'
      <4>1. Ranked(succ', target', s) /\ Layers(succ', reverse', s, j + 1)
        BY <2>1, <2>3, <2>5, <3>1 DEF args
      <4>2. QED BY <3>2, <4>1 DEF Layered, Growing
    <3>5. QED BY <2>1, <3>3, <3>4 DEF Levelwise, PathIsShortest
  <2>8. side' \in {"forward", "reverse"}
    BY <1>3 DEF ChooseSide
  <2>9. QED BY <2>6, <2>7, <2>8
<1>4. CASE Expand
  <2>1. /\ pc = "expanding" /\ pc' = "visiting" /\ todo' = Similar[at']
        /\ at' \in level /\ level' \subseteq level /\ UNCHANGED <<args, trees, side>>
    BY <1>4 DEF Expand
  <2>2. \A mine, rank, n : Busy(mine, rank, n) => Busy(mine, rank, n)'
    BY <2>1 DEF Busy
  <2>3. QED BY <2>1, <2>2 DEF Levelwise, Layered, Growing, PathIsShortest, args, trees
<1>5. CASE LevelDone
  BY <1>5 DEF LevelDone, Levelwise, Layered, Growing, Busy, PathIsShortest, args, trees
<1>6. CASE Visit
  <2>1. PICK w \in todo :
          /\ ForwardVisit(w) \/ ReverseVisit(w)
          /\ todo' = todo \ {w}
          /\ IF w \in OtherTree THEN pc' = "found" /\ meet' = w
             ELSE UNCHANGED <<pc, meet>>
    BY <1>6 DEF Visit
  <2>2. w \in Network /\ pc = "visiting" /\ UNCHANGED <<args, side, level, at>>
    BY <1>6 DEF Visit, Typed, TypeOK
  <2>3. CASE ForwardVisit(w)
    BY <2>1, <2>2, <2>3, ForwardLevelwise DEF ForwardVisit, OtherTree
  <2>4. CASE ReverseVisit(w)
    BY <2>1, <2>2, <2>4, ReverseLevelwise DEF ReverseVisit, OtherTree
  <2>5. QED BY <2>1, <2>3, <2>4
<1>7. CASE FieldDone
  BY <1>7 DEF FieldDone, Levelwise, Layered, Growing, Busy, PathIsShortest, args, trees
<1>8. CASE Done \/ UNCHANGED vars
  BY <1>8 DEF Done, Levelwise, Layered, Growing, Busy, PathIsShortest, vars, args, trees
<1>9. QED
  BY <1>1, <1>2, <1>3, <1>4, <1>5, <1>6, <1>7, <1>8 DEF Next

LevelInv == Typed /\ Rooted /\ Apart /\ Levelwise /\ PathIsShortest

\* A search starts with two trees of one field.
LEMMA LevelInit == Init => LevelInv
<1>1. SUFFICES ASSUME Init PROVE LevelInv
  OBVIOUS
<1>2. Typed /\ Rooted /\ Apart
  BY <1>1, NoneAssumption
     DEF Init, Typed, TypeOK, Tree, Rooted, Own, Apart, Covered
<1>3. ASSUME NEW f \in Fields
      PROVE  LET tree == [g \in {f} |-> None] IN
             Ranked(tree, f, [g \in {f} |-> 0]) /\ Layers(tree, {f}, [g \in {f} |-> 0], 0)
  <2>1. Cardinality({f}) = 1
    BY FS_Singleton
  <2>2. QED BY <2>1 DEF Ranked, Layers
<1>4. /\ Layered(pred, source, forward, "forward")
      /\ Layered(succ, target, reverse, "reverse")
  <2>1. \A mine, rank, n : Busy(mine, rank, n)
    BY <1>1 DEF Init, Busy
  <2>2. QED BY <1>1, <1>3, <2>1 DEF Init, Layered, Growing
<1>5. QED BY <1>1, <1>2, <1>4 DEF Init, LevelInv, Levelwise, PathIsShortest

\* Whatever the network, the path through the field where the search ends is
\* as short as any path from the source to the target: the smaller fringe is
\* expanded a whole level at a time, and the search stops at the first field
\* that both sides have reached.
THEOREM PathsAreShortest == SafetySpec => []PathIsShortest
<1>1. LevelInv /\ [Next]_vars => LevelInv'
  BY TypePreserved, RootedPreserved, ApartPreserved, LevelwisePreserved
     DEF LevelInv
<1>2. LevelInv => PathIsShortest
  BY DEF LevelInv
<1>3. QED BY <1>1, <1>2, LevelInit, PTL DEF SafetySpec

-----------------------------------------------------------------------------
(* A search cannot go on for ever *)

\* The fields of one side that may still be expanded.
Unexpanded(tree, fringe, mine) ==
  (Fields \ DOMAIN tree) \union fringe \union (IF side = mine THEN level ELSE {})

Left ==
  Cardinality(Unexpanded(pred, forward, "forward"))
    + Cardinality(Unexpanded(succ, reverse, "reverse"))

\* How far the loops are from their end, when no field is expanded or visited.
Stage ==
  CASE pc = "start" -> 5
    [] pc = "visiting" -> 4
    [] pc = "expanding" /\ level = {} -> 3
    [] pc = "choosing" -> 2
    [] pc = "expanding" /\ level # {} -> 1
    [] OTHER -> 0

\* Fewer fields to expand; or as many, and fewer neighbours to visit; or as many
\* of both, and a later stage.
Advances ==
  /\ Left \in Nat /\ Cardinality(todo) \in Nat /\ Stage \in Nat
  /\ Left' \in Nat /\ Cardinality(todo)' \in Nat /\ Stage' \in Nat
  /\ \/ Left' < Left
     \/ Left' = Left /\ Cardinality(todo)' < Cardinality(todo)
     \/ Left' = Left /\ Cardinality(todo)' = Cardinality(todo) /\ Stage' < Stage

\* The measures are numbers.
LEMMA Measured ==
  ASSUME Typed
  PROVE  Left \in Nat /\ Cardinality(todo) \in Nat /\ Stage \in Nat
<1>1. \A S \in SUBSET Fields : IsFiniteSet(S) /\ Cardinality(S) \in Nat
  BY FinitenessAssumption, FS_Subset, FS_CardinalityType
<1>2. /\ Unexpanded(pred, forward, "forward") \in SUBSET Fields
      /\ Unexpanded(succ, reverse, "reverse") \in SUBSET Fields
  BY DEF Unexpanded, Typed, TypeOK
<1>3. todo \in SUBSET Fields
  BY NetworkAssumption DEF Typed, TypeOK
<1>4. QED BY <1>1, <1>2, <1>3 DEF Left, Stage

\* A field that is expanded was waiting for it, and is not waiting any more.
LEMMA ExpandsOne ==
  ASSUME Typed, Rooted, Levelwise, pc = "expanding",
         NEW tree, NEW root, NEW fringe, NEW mine, side = mine,
         Layered(tree, root, fringe, mine), DOMAIN tree \subseteq Fields,
         level \subseteq DOMAIN tree,
         NEW v \in level
  PROVE  /\ v \in Unexpanded(tree, fringe, mine)
         /\ (Fields \ DOMAIN tree) \union fringe \union (level \ {v})
              = Unexpanded(tree, fringe, mine) \ {v}
<1>1. PICK rank, n : Growing(tree, root, fringe, mine, rank, n)
  BY DEF Layered
<1>2. rank[v] = n - 1 /\ n \in Nat
  BY <1>1 DEF Growing, Busy, Layers
<1>3. v \notin fringe
  <2>1. n - 1 # n
    BY <1>2
  <2>2. QED BY <1>1, <1>2, <2>1 DEF Growing, Layers
<1>4. QED BY <1>3 DEF Unexpanded

\* Every step but the last stutter brings the search nearer to its end.
LEMMA StepAdvances ==
  ASSUME LevelInv, LevelInv', Next, pc \notin {"found", "none", "raised"}
  PROVE  Advances
<1>1. Typed /\ Rooted /\ Apart /\ Levelwise /\ Typed'
  BY DEF LevelInv
<1>2. /\ Left \in Nat /\ Cardinality(todo) \in Nat /\ Stage \in Nat
      /\ Left' \in Nat /\ Cardinality(todo)' \in Nat /\ Stage' \in Nat
  <2>1. Left \in Nat /\ Cardinality(todo) \in Nat /\ Stage \in Nat
    BY <1>1, Measured
  <2>2. (Left \in Nat /\ Cardinality(todo) \in Nat /\ Stage \in Nat)'
    BY <1>1, Measured, PTL
  <2>3. QED BY <2>1, <2>2
<1>3. CASE UNCHANGED <<trees, side, level, todo>> /\ Stage' < Stage
  <2>1. Left' = Left /\ todo' = todo
    BY <1>3 DEF Left, Unexpanded, trees
  <2>2. QED BY <1>2, <1>3, <2>1 DEF Advances
<1>4. CASE Start
  BY <1>3, <1>4 DEF Start, Stage
<1>5. CASE GiveUp
  BY <1>3, <1>5 DEF GiveUp, Stage
<1>6. CASE UnknownField
  BY <1>3, <1>6 DEF UnknownField, Stage
<1>7. CASE LevelDone
  BY <1>3, <1>7 DEF LevelDone, Stage
<1>8. CASE FieldDone
  BY <1>3, <1>8 DEF FieldDone, Stage
<1>9. CASE ChooseSide
  <2>1. level = {} /\ pc = "choosing" /\ pc' = "expanding" /\ level' # {}
        /\ UNCHANGED <<pred, succ, todo>>
    BY <1>1, <1>9 DEF ChooseSide, Apart
  <2>2. /\ Unexpanded(pred, forward, "forward")' = Unexpanded(pred, forward, "forward")
        /\ Unexpanded(succ, reverse, "reverse")' = Unexpanded(succ, reverse, "reverse")
    BY <1>9, <2>1 DEF ChooseSide, Unexpanded
  <2>3. Left' = Left
    BY <2>2 DEF Left
  <2>4. Stage' = 1 /\ Stage = 2
    BY <2>1 DEF Stage
  <2>5. QED BY <1>2, <2>1, <2>3, <2>4 DEF Advances
<1>10. CASE Expand
  <2>1. PICK v \in level : level' = level \ {v}
    BY <1>10 DEF Expand
  <2>2. pc = "expanding" /\ UNCHANGED <<trees, side>>
    BY <1>10 DEF Expand
  <2> DEFINE F == Unexpanded(pred, forward, "forward")
             R == Unexpanded(succ, reverse, "reverse")
  <2>3. F \in SUBSET Fields /\ R \in SUBSET Fields
    BY <1>1 DEF Unexpanded, Typed, TypeOK
  <2>4. DOMAIN pred \subseteq Fields /\ DOMAIN succ \subseteq Fields
    BY <1>1 DEF Typed, TypeOK, Tree
  <2>5. CASE side = "forward"
    <3>1. v \in F /\ F' = F \ {v}
      <4>1. level \subseteq DOMAIN pred /\ Layered(pred, source, forward, "forward")
        BY <1>1, <2>2, <2>5 DEF Rooted, Own, Levelwise
      <4>2. /\ v \in Unexpanded(pred, forward, "forward")
            /\ (Fields \ DOMAIN pred) \union forward \union (level \ {v})
                 = Unexpanded(pred, forward, "forward") \ {v}
        BY <1>1, <2>2, <2>4, <2>5, <4>1, ExpandsOne
      <4>3. QED BY <2>1, <2>2, <2>5, <4>2 DEF Unexpanded, trees
    <3>2. R' = R
      BY <2>2, <2>5 DEF Unexpanded, trees
    <3> HIDE DEF F, R
    <3>3. IsFiniteSet(F) /\ Cardinality(F \ {v}) = Cardinality(F) - 1
      BY <2>3, <3>1, FinitenessAssumption, FS_Subset, FS_RemoveElement
    <3>4. Cardinality(F) \in Nat /\ Cardinality(R) \in Nat
      BY <2>3, FinitenessAssumption, FS_Subset, FS_CardinalityType
    <3>5. Left' = Cardinality(F') + Cardinality(R') /\ Left = Cardinality(F) + Cardinality(R)
      BY DEF Left, F, R
    <3>6. Left' < Left
      BY <3>1, <3>2, <3>3, <3>4, <3>5
    <3>7. QED BY <1>2, <3>6 DEF Advances
  <2>6. CASE side = "reverse"
    <3>1. v \in R /\ R' = R \ {v}
      <4>1. level \subseteq DOMAIN succ /\ Layered(succ, target, reverse, "reverse")
        BY <1>1, <2>2, <2>6 DEF Rooted, Own, Levelwise
      <4>2. /\ v \in Unexpanded(succ, reverse, "reverse")
            /\ (Fields \ DOMAIN succ) \union reverse \union (level \ {v})
                 = Unexpanded(succ, reverse, "reverse") \ {v}
        BY <1>1, <2>2, <2>4, <2>6, <4>1, ExpandsOne
      <4>3. QED BY <2>1, <2>2, <2>6, <4>2 DEF Unexpanded, trees
    <3>2. F' = F
      BY <2>2, <2>6 DEF Unexpanded, trees
    <3> HIDE DEF F, R
    <3>3. IsFiniteSet(R) /\ Cardinality(R \ {v}) = Cardinality(R) - 1
      BY <2>3, <3>1, FinitenessAssumption, FS_Subset, FS_RemoveElement
    <3>4. Cardinality(F) \in Nat /\ Cardinality(R) \in Nat
      BY <2>3, FinitenessAssumption, FS_Subset, FS_CardinalityType
    <3>5. Left' = Cardinality(F') + Cardinality(R') /\ Left = Cardinality(F) + Cardinality(R)
      BY DEF Left, F, R
    <3>6. Left' < Left
      BY <3>1, <3>2, <3>3, <3>4, <3>5
    <3>7. QED BY <1>2, <3>6 DEF Advances
  <2>7. side \in {"forward", "reverse"}
    BY <1>1 DEF Typed, TypeOK
  <2>8. QED BY <2>5, <2>6, <2>7
<1>11. CASE Visit
  <2>1. PICK w \in todo :
          /\ w \in Network
          /\ \/ /\ side = "forward"
                /\ DOMAIN pred' = DOMAIN pred \union {w}
                /\ forward' = IF w \in DOMAIN pred THEN forward
                             ELSE forward \union {w}
                /\ succ' = succ /\ reverse' = reverse
             \/ /\ side = "reverse"
                /\ DOMAIN succ' = DOMAIN succ \union {w}
                /\ reverse' = IF w \in DOMAIN succ THEN reverse
                             ELSE reverse \union {w}
                /\ pred' = pred /\ forward' = forward
          /\ todo' = todo \ {w}
    BY <1>1, <1>11, VisitEffect
  <2>2. UNCHANGED <<side, level>> /\ w \in Fields
    BY <1>11, <2>1, NetworkAssumption DEF Visit
  <2>3. /\ Unexpanded(pred, forward, "forward")' = Unexpanded(pred, forward, "forward")
        /\ Unexpanded(succ, reverse, "reverse")' = Unexpanded(succ, reverse, "reverse")
    BY <2>1, <2>2 DEF Unexpanded
  <2>4. Left' = Left
    BY <2>3 DEF Left
  <2>5. todo \in SUBSET Fields
    BY <1>1, NetworkAssumption DEF Typed, TypeOK
  <2>6. Cardinality(todo \ {w}) = Cardinality(todo) - 1
    BY <2>1, <2>5, FinitenessAssumption, FS_Subset, FS_RemoveElement
  <2>7. QED BY <1>2, <2>1, <2>4, <2>6 DEF Advances
<1>12. QED
  BY <1>4, <1>5, <1>6, <1>7, <1>8, <1>9, <1>10, <1>11 DEF Next, Done

\* Whatever the network, no search goes on for ever: every step of a search
\* that is not over lowers a measure, in the well-founded order of triples of
\* numbers.  (That there always is such a step is SearchEnds.)
THEOREM SearchesAdvance ==
  SafetySpec => [][pc \notin {"found", "none", "raised"} => Advances]_vars
<1>1. LevelInv /\ LevelInv' /\ [Next]_vars =>
        [pc \notin {"found", "none", "raised"} => Advances]_vars
  BY StepAdvances
<1>2. SafetySpec => []LevelInv
  <2>1. LevelInv /\ [Next]_vars => LevelInv'
    BY TypePreserved, RootedPreserved, ApartPreserved, LevelwisePreserved
       DEF LevelInv
  <2>2. QED BY <2>1, LevelInit, PTL DEF SafetySpec
<1>3. QED BY <1>1, <1>2, PTL DEF SafetySpec
=============================================================================
