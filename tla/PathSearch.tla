----------------------------- MODULE PathSearch -----------------------------
(***************************************************************************)
(* The search behind path queries over fields (fieldnetwork.py,            *)
(* _bidirectional_pred_succ and find_path_hit): breadth first from the     *)
(* source and from the target, always on the side with the smaller fringe, *)
(* until a field is reached from both.                                     *)
(*                                                                         *)
(* The lists of the code have no duplicates and are sets here; a level and *)
(* the neighbours of a field are visited in any order.                     *)
(***************************************************************************)
EXTENDS Integers, FiniteSets

CONSTANTS
  Fields,    \* every field a result set may hold
  Network,   \* the fields that are nodes of the network
  Similar,   \* neighbors_id under the relation asked for
  None

ASSUME NetworkAssumption ==
  Network \subseteq Fields /\ Similar \in [Network -> SUBSET Network]
\* The graph is a MultiGraph: its edges have no direction.
ASSUME UndirectedAssumption ==
  \A f, g \in Network : g \in Similar[f] => f \in Similar[g]
ASSUME NoneAssumption == None \notin Fields
\* A network is held in memory.
ASSUME FinitenessAssumption == IsFiniteSet(Fields)

VARIABLES
  pc,
  source, target,   \* the arguments
  pred, succ,       \* the trees rooted in source and target
  forward, reverse, \* the two fringes
  side,             \* the side this level belongs to
  level,            \* what is left of this_level
  at,               \* the field v whose neighbours are visited
  todo,             \* what is left of its neighbours
  explored,         \* the edges of the provenance o_drs carries
  meet              \* the field w where the sides met

args  == <<source, target>>
trees == <<pred, succ, forward, reverse>>
vars  == <<pc, args, trees, side, level, at, todo, explored, meet>>

Init ==
  /\ pc = "start"
  /\ source \in Fields /\ target \in Fields
  /\ pred = [f \in {source} |-> None] /\ succ = [f \in {target} |-> None]
  /\ forward = {source} /\ reverse = {target}
  /\ side = "forward" /\ level = {} /\ at = None /\ todo = {}
  /\ explored = {} /\ meet = None

\* A field is its own path.
Start ==
  /\ pc = "start"
  /\ IF target = source THEN pc' = "found" /\ meet' = source
     ELSE pc' = "choosing" /\ UNCHANGED meet
  /\ UNCHANGED <<args, trees, side, level, at, todo, explored>>

\* One side has no new field: there is no path.
GiveUp ==
  /\ pc = "choosing"
  /\ forward = {} \/ reverse = {}
  /\ pc' = "none"
  /\ UNCHANGED <<args, trees, side, level, at, todo, explored, meet>>

\* Mutant: one field of the fringe is taken at a time.
ChooseSideOne ==
  /\ pc = "choosing"
  /\ forward # {} /\ reverse # {}
  /\ \E v \in forward : level' = {v} /\ forward' = forward \ {v}
  /\ side' = "forward" /\ pc' = "expanding"
  /\ UNCHANGED <<args, pred, succ, reverse, at, todo, explored, meet>>

\* The smaller fringe becomes this level, and a new one is begun.
ChooseSide ==
  /\ pc = "choosing"
  /\ forward # {} /\ reverse # {}
  /\ IF Cardinality(forward) <= Cardinality(reverse)
     THEN /\ side' = "forward" /\ level' = forward
          /\ forward' = {} /\ UNCHANGED reverse
     ELSE /\ side' = "reverse" /\ level' = reverse
          /\ reverse' = {} /\ UNCHANGED forward
  /\ pc' = "expanding"
  /\ UNCHANGED <<args, pred, succ, at, todo, explored, meet>>

\* neighbors_id raises a KeyError for a field that is not in the network.
UnknownField ==
  /\ pc = "expanding"
  /\ \E v \in level : v \notin Network
  /\ pc' = "raised"
  /\ UNCHANGED <<args, trees, side, level, at, todo, explored, meet>>

\* Mutant: a field the network does not know has no neighbours.
ExpandUnknown ==
  /\ pc = "expanding"
  /\ \E v \in level :
       /\ at' = v /\ level' = level \ {v}
       /\ todo' = {w \in Network : v \in Network /\ w \in Similar[v]}
       /\ explored' = explored \union {<<v, w>> : w \in todo'}
  /\ pc' = "visiting"
  /\ UNCHANGED <<args, trees, side, meet>>

\* The neighbours of a field of the level are looked up, and o_drs absorbs
\* them with their provenance.
Expand ==
  /\ pc = "expanding"
  /\ \E v \in level \intersect Network :
       /\ at' = v /\ level' = level \ {v} /\ todo' = Similar[v]
       /\ explored' = explored \union {<<v, w>> : w \in Similar[v]}
  /\ pc' = "visiting"
  /\ UNCHANGED <<args, trees, side, meet>>

\* Every field of the level has been looked up.
LevelDone ==
  /\ pc = "expanding" /\ level = {}
  /\ pc' = "choosing"
  /\ UNCHANGED <<args, trees, side, level, at, todo, explored, meet>>

\* w joins the tree below the field being visited, unless it is in it.
Extend(tree, w) ==
  [f \in DOMAIN tree \union {w} |-> IF f \in DOMAIN tree THEN tree[f] ELSE at]

\* Mutant: a field that was reached before is put on the fringe again.
ForwardAgain(w) ==
  /\ side = "forward"
  /\ forward' = forward \union {w}
  /\ pred' = Extend(pred, w)
  /\ UNCHANGED <<succ, reverse>>
\* Mutant: a new field is not put on the fringe.
ForwardDrops(w) ==
  /\ side = "forward"
  /\ pred' = Extend(pred, w)
  /\ UNCHANGED <<forward, succ, reverse>>

\* A field that is new to the tree joins it and the next level.
ForwardVisit(w) ==
  /\ side = "forward"
  /\ forward' = IF w \in DOMAIN pred THEN forward ELSE forward \union {w}
  /\ pred' = Extend(pred, w)
  /\ UNCHANGED <<succ, reverse>>

ReverseVisit(w) ==
  /\ side = "reverse"
  /\ reverse' = IF w \in DOMAIN succ THEN reverse ELSE reverse \union {w}
  /\ succ' = Extend(succ, w)
  /\ UNCHANGED <<pred, forward>>

\* Mutant: the trees are compared with the wrong side.
OtherTreeOwn == IF side = "forward" THEN DOMAIN pred ELSE DOMAIN succ

\* The fields the other side has reached.
OtherTree == IF side = "forward" THEN DOMAIN succ ELSE DOMAIN pred

\* The search ends at the first field that both sides have reached.
Visit ==
  /\ pc = "visiting"
  /\ \E w \in todo :
       /\ ForwardVisit(w) \/ ReverseVisit(w)
       /\ todo' = todo \ {w}
       /\ IF w \in OtherTree THEN pc' = "found" /\ meet' = w
          ELSE UNCHANGED <<pc, meet>>
  /\ UNCHANGED <<args, side, level, at, explored>>

\* Every neighbour of the field has been visited.
FieldDone ==
  /\ pc = "visiting" /\ todo = {}
  /\ pc' = "expanding"
  /\ UNCHANGED <<args, trees, side, level, at, todo, explored, meet>>

\* find_path_hit returns.
Done == pc \in {"found", "none", "raised"} /\ UNCHANGED vars

Next ==
  \/ Start \/ GiveUp \/ ChooseSide \/ UnknownField \/ Expand \/ LevelDone
  \/ Visit \/ FieldDone \/ Done

\* The search runs in the thread that called it.
SafetySpec == Init /\ [][Next]_vars
Spec == SafetySpec /\ WF_vars(Next)

-----------------------------------------------------------------------------
(* Properties *)

\* A tree of fields: each but the root is filed under its parent.
Tree(tree) ==
  /\ tree = [f \in DOMAIN tree |-> tree[f]]
  /\ DOMAIN tree \subseteq Fields
  /\ \A f \in DOMAIN tree : tree[f] \in Network \union {None}

\* Every variable keeps its type.
TypeOK ==
  /\ pc \in {"start", "choosing", "expanding", "visiting", "found", "none",
             "raised"}
  /\ source \in Fields /\ target \in Fields
  /\ Tree(pred) /\ Tree(succ)
  /\ forward \subseteq Fields /\ reverse \subseteq Fields
  /\ side \in {"forward", "reverse"}
  /\ level \subseteq Fields /\ todo \subseteq Network
  /\ at \in Network \union {None}
  /\ explored \subseteq Network \X Network
  /\ meet \in Fields \union {None}

\* A set of fields that no edge leaves.
Closed(S, edges) == \A e \in edges : e[1] \in S <=> e[2] \in S

\* No closed set separates f and g: a path of edges, in either direction,
\* leads from one to the other.
Joined(f, g, edges) ==
  \A S \in SUBSET Fields : Closed(S, edges) => (f \in S <=> g \in S)

\* The edges of the network under the relation asked for.
Edges == {e \in Network \X Network : e[2] \in Similar[e[1]]}

\* A search that answers has explored a path from the source to the target:
\* the provenance of the answer shows it.
AnswerShowsPath == pc = "found" => Joined(source, target, explored)

\* A search that gives up was right: there is no path in the network.
NoAnswerNoPath == pc = "none" => ~Joined(source, target, Edges)

\* The path through meet: up one tree and down the other.
Depth(tree, f) ==
  LET depth[n \in 0..Cardinality(Fields)] ==
        \* the nodes of the tree at depth n
        IF n = 0 THEN {g \in DOMAIN tree : tree[g] = None}
        ELSE {g \in DOMAIN tree : tree[g] \in depth[n - 1]}
  IN  CHOOSE n \in 0..Cardinality(Fields) : f \in depth[n]

\* Reference definition: the length of a shortest path.
Distance(f, g) ==
  LET ball[n \in 0..Cardinality(Fields)] ==
        IF n = 0 THEN {f}
        ELSE ball[n - 1] \union UNION {Similar[h] : h \in ball[n - 1]}
  IN  CHOOSE n \in 0..Cardinality(Fields) :
        g \in ball[n] /\ \A m \in 0..(n - 1) : g \notin ball[m]

\* The path found is a shortest one.
PathIsShortest ==
  pc = "found" /\ source # target =>
    Depth(pred, meet) + Depth(succ, meet) = Distance(source, target)

\* Every search ends.
SearchEnds == <>(pc \in {"found", "none", "raised"})
=============================================================================
