-------------------------------- MODULE Drs --------------------------------
(***************************************************************************)
(* Discovery result sets (api/apiutils.py, DRS) and the API calls that     *)
(* iterate over them (ddapi.py).                                           *)
(*                                                                         *)
(* A DRS is its own iterator: __iter__ returns self and the cursor is kept *)
(* in the object, one for each of the two modes.  A client calls one API   *)
(* function at a time; a call that loops over a DRS is a sequence of steps *)
(* here, one per __next__, because its body may move the cursor of the set *)
(* it iterates.  Provenance and scores are left out.  A list made from a   *)
(* Python set is in any order.                                             *)
(***************************************************************************)
EXTENDS Integers, Sequences, FiniteSets, SequencesExt

CONSTANTS
  Objects,    \* the result sets the client holds
  Fields, Tables,
  TableOf,    \* Hit.source_name
  Network,    \* the fields that are nodes of the field network
  Similar,    \* the neighbours of a node under the relation asked for
  Calls,      \* the calls the client makes (see AllCalls)
  MaxHits,    \* bound: hits of one search
  MaxHops,    \* bound: max_hops of traverse
  MaxCalls,   \* bound: calls of one session
  Nothing     \* no element: StopIteration, or no object

AllCalls == {"similar_to", "schema_neighbors_of", "drs_expand_to_table",
             "paths_between", "paths", "traverse", "union", "intersection",
             "difference", "rank", "print", "table"}

ASSUME TableOfAssumption == TableOf \in [Fields -> Tables]
ASSUME NetworkAssumption ==
  Network \subseteq Fields /\ Similar \in [Network -> SUBSET Network]
ASSUME CallsAssumption == Calls \subseteq AllCalls
ASSUME NothingAssumption == Nothing \notin Fields \union Tables \union Objects
ASSUME HitsAssumption ==
  IsFiniteSet(Fields) /\ IsFiniteSet(Tables) /\ Fields \intersect Tables = {}
ASSUME BoundsAssumption ==
  MaxHits \in Nat /\ MaxHops \in Nat /\ MaxCalls \in Nat

VARIABLES
  drs,     \* the DRS objects
  call,    \* the API call that runs
  calls    \* how many calls the client has made

vars == <<drs, call, calls>>

Modes == {"FIELDS", "TABLE"}

\* scored: the keys of _rank_data.
New(data) ==
  [data |-> data, idx |-> 0, view |-> <<>>, tidx |-> 0, mode |-> "FIELDS",
   ranked |-> FALSE, scored |-> {}]

\* in, other: what the call iterates; dest: the object its answer becomes;
\* source: the element of the outer loop; out: the data of o_drs;
\* asked: the fields the input had when the call began (history).
Idle == [op |-> "none", pc |-> "idle", in |-> Nothing, other |-> Nothing,
         dest |-> Nothing, source |-> Nothing, out |-> {}, asked |-> {}]

Init ==
  /\ drs = [o \in Objects |-> New(<<>>)]
  /\ call = Idle
  /\ calls = 0

-----------------------------------------------------------------------------
(* The DRS class *)

Hits(d) == ToSet(d.data)
TablesOf(S) == {TableOf[f] : f \in S}

\* The table view is made by the first iteration in TABLE mode and kept.
Views(d) ==
  IF d.view = <<>> THEN SetToSeqs(TablesOf(Hits(d))) ELSE {d.view}

\* Mutant: the cursor stays at the end.
NextFieldStays(d) ==
  IF d.idx < Len(d.data)
  THEN [got |-> d.data[d.idx + 1], after |-> [d EXCEPT !.idx = @ + 1]]
  ELSE [got |-> Nothing, after |-> d]

\* Mutant: the iteration starts over instead of stopping.
NextFieldWraps(d) ==
  IF d.idx < Len(d.data)
  THEN [got |-> d.data[d.idx + 1], after |-> [d EXCEPT !.idx = @ + 1]]
  ELSE IF d.data = <<>> THEN [got |-> Nothing, after |-> d]
  ELSE [got |-> d.data[1], after |-> [d EXCEPT !.idx = 1]]

NextField(d) ==
  IF d.idx < Len(d.data)
  THEN [got |-> d.data[d.idx + 1], after |-> [d EXCEPT !.idx = @ + 1]]
  ELSE [got |-> Nothing, after |-> [d EXCEPT !.idx = 0]]

NextTable(d, view) ==
  IF d.tidx < Len(view)
  THEN [got |-> view[d.tidx + 1],
        after |-> [d EXCEPT !.view = view, !.tidx = @ + 1]]
  ELSE [got |-> Nothing, after |-> [d EXCEPT !.view = view, !.tidx = 0]]

\* What __next__ may return, and the DRS it leaves.
Step(d) ==
  IF d.mode = "FIELDS" THEN {NextField(d)}
  ELSE {NextTable(d, view) : view \in Views(d)}

\* Mutant: the ranking survives.
SetDataKeepsRanking(d, data) ==
  [d EXCEPT !.data = data, !.view = <<>>, !.idx = 0, !.tidx = 0,
            !.mode = "FIELDS"]
\* Mutant: the table view survives.
SetDataKeepsView(d, data) ==
  [d EXCEPT !.data = data, !.idx = 0, !.tidx = 0, !.mode = "FIELDS",
            !.ranked = FALSE]
\* Mutant: the cursor is put before the first element.
SetDataBeforeFirst(d, data) ==
  [d EXCEPT !.data = data, !.view = <<>>, !.idx = -1, !.tidx = 0,
            !.mode = "FIELDS", !.ranked = FALSE]

SetData(d, data) ==
  [d EXCEPT !.data = data, !.view = <<>>, !.idx = 0, !.tidx = 0,
            !.mode = "FIELDS", !.ranked = FALSE]

\* In TABLE mode both fields of every pair that shares a table are kept.
SharedTables(merging, mine) ==
  LET hits(i, j) == IF TableOf[merging[i]] = TableOf[mine[j]]
                    THEN <<merging[i], mine[j]>> ELSE <<>>
      row(i) == FlattenSeq([j \in 1..Len(mine) |-> hits(i, j)])
  IN  FlattenSeq([i \in 1..Len(merging) |-> row(i)])

\* The lists that intersection, union and set_difference may hand to set_data.
Combined(op, mine, merging) ==
  CASE op = "union" -> SetToSeqs(Hits(mine) \union Hits(merging))
    [] op = "difference" -> SetToSeqs(Hits(mine) \ Hits(merging))
    [] op = "intersection" /\ merging.mode = "FIELDS" ->
         SetToSeqs(Hits(mine) \intersect Hits(merging))
    [] op = "intersection" /\ merging.mode = "TABLE" ->
         {SharedTables(merging.data, mine.data)}

-----------------------------------------------------------------------------
(* Calls that return at once *)

CanCall == call = Idle /\ calls < MaxCalls

\* The client gives o a new DRS: a raw field, the fields of a table, or the
\* hits of a search.
FieldsOf(t) == {f \in Network : TableOf[f] = t}

Seed ==
  /\ CanCall
  /\ \E o \in Objects :
       \E data \in {<<f>> : f \in Fields}
                     \union (UNION {SetToSeqs(FieldsOf(t)) : t \in Tables})
                     \union (UNION {SetToSeqs(S) :
                               S \in {T \in SUBSET Fields :
                                        Cardinality(T) <= MaxHits}}) :
         drs' = [drs EXCEPT ![o] = New(data)]
  /\ calls' = calls + 1
  /\ UNCHANGED call

SetMode ==
  /\ CanCall /\ "table" \in Calls
  /\ \E o \in Objects, m \in Modes : drs' = [drs EXCEPT ![o].mode = m]
  /\ calls' = calls + 1
  /\ UNCHANGED call

\* The API asserts that the modes agree.  The first operand is the result.
Combine(op) ==
  /\ CanCall /\ op \in Calls
  /\ \E a, b \in Objects :
       /\ drs[a].mode = drs[b].mode
       /\ \E data \in Combined(op, drs[a], drs[b]) :
            drs' = [drs EXCEPT ![a] = SetData(@, data)]
  /\ calls' = calls + 1
  /\ UNCHANGED call

\* rank_certainty and rank_coverage: the data becomes the keys of _rank_data,
\* to which a first ranking adds the data, and from which nothing is removed.
Rank ==
  /\ CanCall /\ "rank" \in Calls
  /\ \E o \in Objects :
       LET d == drs[o]
           scored == IF d.ranked THEN d.scored ELSE d.scored \union Hits(d)
       IN  \E data \in SetToSeqs(scored) :
             drs' = [drs EXCEPT ![o] = [d EXCEPT !.data = data,
                                          !.scored = scored, !.ranked = TRUE]]
  /\ calls' = calls + 1
  /\ UNCHANGED call

\* print_tables and print_columns iterate to the end in their mode and put
\* the mode back.
Show ==
  /\ CanCall /\ "print" \in Calls
  /\ \E o \in Objects :
       \/ drs' = [drs EXCEPT ![o].idx = 0]
       \/ \E view \in Views(drs[o]) :
            drs' = [drs EXCEPT ![o] = [@ EXCEPT !.view = view, !.tidx = 0]]
  /\ calls' = calls + 1
  /\ UNCHANGED call

\* The result of traverse: the fringe is the input first, and then all that
\* was found so far.
Reached(start, hops) ==
  LET reached[k \in 0..hops] ==
        IF k = 0 THEN {}
        ELSE reached[k - 1] \union
               UNION {Similar[f] :
                        f \in IF k = 1 THEN start ELSE reached[k - 1]}
  IN  reached[hops]

\* The input is copied into the fringe before anything can go wrong.  A field
\* that the network does not know is a KeyError.
Traverse ==
  /\ CanCall /\ "traverse" \in Calls
  /\ \E in, dest \in Objects, hops \in 0..MaxHops :
       LET d == drs[in]
           start == ToSet(SubSeq(d.data, d.idx + 1, Len(d.data)))
           read == [drs EXCEPT ![in].idx = 0]
       IN  /\ d.mode = "FIELDS"
           /\ IF hops > 0 /\ ~(start \subseteq Network) THEN drs' = read
              ELSE \E data \in SetToSeqs(Reached(start, hops)) :
                     drs' = [read EXCEPT ![dest] = New(data)]
  /\ calls' = calls + 1
  /\ UNCHANGED call

-----------------------------------------------------------------------------
(* Primitives: loops over one DRS *)

Primitives == {"similar_to", "schema_neighbors_of", "drs_expand_to_table"}

\* What one element of the input contributes.
Answers(op, f) ==
  IF op = "similar_to" THEN Similar[f] ELSE FieldsOf(TableOf[f])

\* The input is taken in the mode it is in; drs_expand_to_table never asks.
StartPrimitive(op) ==
  /\ CanCall /\ op \in Calls
  /\ \E in, dest \in Objects :
       LET expands == op # "drs_expand_to_table" /\ drs[in].mode = "TABLE"
       IN  /\ call' = [Idle EXCEPT !.op = op, !.in = in, !.dest = dest,
                         !.pc = IF expands THEN "expand" ELSE "loop",
                         !.asked = Hits(drs[in])]
           /\ drs' = IF expands THEN [drs EXCEPT ![in].mode = "FIELDS"]
                     ELSE drs
  /\ calls' = calls + 1

\* A TABLE input is first expanded to the fields of its tables, in place:
\* absorb hands the iterated DRS new data, and set_data resets its cursor.
Expand ==
  /\ call.pc = "expand"
  /\ \E s \in Step(drs[call.in]) :
       \/ /\ s.got = Nothing
          /\ drs' = [drs EXCEPT ![call.in] = s.after]
          /\ call' = [call EXCEPT !.pc = "loop"]
       \/ /\ s.got # Nothing
          /\ \E data \in SetToSeqs(Hits(s.after)
                                     \union FieldsOf(TableOf[s.got])) :
               drs' = [drs EXCEPT ![call.in] = SetData(s.after, data)]
          /\ UNCHANGED call
  /\ UNCHANGED calls

\* The body raises: neighbors_id of an unknown field, source_name of a table.
Raises(f) ==
  \/ f \in Tables
  \/ call.op = "similar_to" /\ f \notin Network

\* Mutant: the answer is the one for the last element.
LoopKeepsLast ==
  /\ call.pc = "loop"
  /\ \E s \in Step(drs[call.in]) :
       /\ s.got # Nothing /\ ~Raises(s.got)
       /\ drs' = [drs EXCEPT ![call.in] = s.after]
       /\ call' = [call EXCEPT !.out = Answers(call.op, s.got)]
  /\ UNCHANGED calls

Loop ==
  /\ call.pc = "loop"
  /\ \E s \in Step(drs[call.in]) :
       /\ s.got # Nothing /\ ~Raises(s.got)
       /\ drs' = [drs EXCEPT ![call.in] = s.after]
       /\ call' = [call EXCEPT !.out = @ \union Answers(call.op, s.got)]
  /\ UNCHANGED calls

\* The exception leaves the cursor behind the element that raised it.
LoopRaises ==
  /\ call.pc = "loop"
  /\ \E s \in Step(drs[call.in]) :
       /\ s.got # Nothing /\ Raises(s.got)
       /\ drs' = [drs EXCEPT ![call.in] = s.after]
  /\ call' = Idle
  /\ UNCHANGED calls

Finish(after) ==
  /\ \E data \in SetToSeqs(call.out) :
       drs' = [drs EXCEPT ![call.in] = after, ![call.dest] = New(data)]
  /\ call' = Idle
  /\ UNCHANGED calls

LoopEnds ==
  /\ call.pc = "loop"
  /\ \E s \in Step(drs[call.in]) : s.got = Nothing /\ Finish(s.after)

-----------------------------------------------------------------------------
(* Path queries: two nested loops *)

StartPaths(op) ==
  /\ CanCall /\ op \in Calls
  /\ \E a, b, dest \in Objects :
       /\ op = "paths" => a = b
       /\ drs[a].mode = drs[b].mode
       /\ call' = [Idle EXCEPT !.op = op, !.in = a, !.other = b, !.dest = dest,
                     !.pc = "outer", !.asked = Hits(drs[a])]
  /\ calls' = calls + 1
  /\ UNCHANGED drs

Outer ==
  /\ call.pc = "outer"
  /\ \E s \in Step(drs[call.in]) :
       \/ s.got = Nothing /\ Finish(s.after)
       \/ /\ s.got # Nothing
          /\ drs' = [drs EXCEPT ![call.in] = s.after]
          /\ call' = [call EXCEPT !.pc = "inner", !.source = s.got]
          /\ UNCHANGED calls

InnerEnds ==
  /\ call.pc = "inner"
  /\ \E s \in Step(drs[call.other]) :
       /\ s.got = Nothing
       /\ drs' = [drs EXCEPT ![call.other] = s.after]
  /\ call' = [call EXCEPT !.pc = "outer"]
  /\ UNCHANGED calls

\* Two equal elements: paths skips them, paths_between returns from both loops.
InnerSame ==
  /\ call.pc = "inner"
  /\ \E s \in Step(drs[call.other]) :
       /\ s.got = call.source
       /\ IF call.op = "paths"
          THEN drs' = [drs EXCEPT ![call.other] = s.after] /\ UNCHANGED call
          ELSE /\ \E data \in SetToSeqs(call.out) :
                    drs' = [drs EXCEPT ![call.other] = s.after,
                                       ![call.dest] = New(data)]
               /\ call' = Idle
  /\ UNCHANGED calls

Connected(f, g) ==
  \A S \in SUBSET Network :
    (f \in S /\ \A h \in S : Similar[h] \subseteq S) => g \in S

\* The data of find_path_hit: what its search has visited, or nothing.
PathHits(f, g) ==
  IF Connected(f, g) THEN {S \in SUBSET Network : Similar[f] \subseteq S}
  ELSE {{}}

\* find_path_table never answers; neighbors_id may not know a field.
InnerOther ==
  /\ call.pc = "inner"
  /\ \E s \in Step(drs[call.other]) :
       LET f == call.source  g == s.got
       IN  /\ g # Nothing /\ g # f
           /\ drs' = [drs EXCEPT ![call.other] = s.after]
           /\ \/ g \in Tables /\ UNCHANGED call
              \/ /\ {f, g} \subseteq Network
                 /\ \E S \in PathHits(f, g) :
                      call' = [call EXCEPT !.out = @ \union S]
              \/ /\ {f, g} \subseteq Fields /\ ~({f, g} \subseteq Network)
                 /\ call' = Idle
              \/ f \in Network /\ g \in Fields \ Network /\ UNCHANGED call
  /\ UNCHANGED calls

-----------------------------------------------------------------------------
\* The client stops when its session is over.
Rest == call = Idle /\ calls = MaxCalls /\ UNCHANGED vars

CallStep ==
  \/ Expand \/ Loop \/ LoopRaises \/ LoopEnds
  \/ Outer \/ InnerEnds \/ InnerSame \/ InnerOther

Next ==
  \/ Seed \/ SetMode \/ Rank \/ Show \/ Traverse
  \/ \E op \in {"union", "intersection", "difference"} : Combine(op)
  \/ \E op \in Primitives : StartPrimitive(op)
  \/ \E op \in {"paths_between", "paths"} : StartPaths(op)
  \/ CallStep
  \/ Rest

\* A call that runs goes on running.
Fairness == WF_vars(CallStep)

SafetySpec == Init /\ [][Next]_vars
Spec == SafetySpec /\ Fairness

-----------------------------------------------------------------------------
(* Properties *)

DrsType ==
  [data : Seq(Fields), idx : Nat, view : Seq(Tables), tidx : Nat,
   mode : Modes, ranked : BOOLEAN, scored : SUBSET Fields]

CallType ==
  [op : AllCalls \union {"none"},
   pc : {"idle", "expand", "loop", "outer", "inner"},
   in : Objects \union {Nothing}, other : Objects \union {Nothing},
   dest : Objects \union {Nothing},
   source : Fields \union Tables \union {Nothing},
   out : SUBSET Fields, asked : SUBSET Fields]

\* Every variable keeps its type.
TypeOK ==
  /\ drs \in [Objects -> DrsType]
  /\ call \in CallType
  /\ calls \in 0..MaxCalls

\* Between two calls every cursor is at the start, so that the next loop
\* over a DRS sees all of it.
CursorsAtRest ==
  call = Idle => \A o \in Objects : drs[o].idx = 0 /\ drs[o].tidx = 0

\* The kept table view is the one of the data.
TableViewFresh ==
  \A o \in Objects :
    drs[o].view # <<>> => ToSet(drs[o].view) = TablesOf(Hits(drs[o]))

\* A primitive that returns has used every field its input had when it was
\* called, and nothing else.
AnswersWholeInput ==
  [][LoopEnds => Hits(drs'[call.dest]) =
                   UNION {Answers(call.op, f) : f \in call.asked}]_vars

\* A ranking loses no result, whatever happened to the DRS before.
RankLosesNothing ==
  [][Rank => \A o \in Objects : Hits(drs[o]) \subseteq Hits(drs'[o])]_vars

\* The loops of a call that runs move a cursor that nothing else moves: two
\* loops over one object share its cursor, and the expansion of a table resets
\* the cursor of the loop it is in.
OwnsItsCursors ==
  call # Idle /\ call.pc # "expand"
    /\ (call.pc \in {"outer", "inner"} => call.in # call.other)

\* Every such call returns, with an answer or an exception, in whatever state
\* earlier calls, returns from inside a loop and exceptions left the cursors.
CallsWithOwnCursorsReturn == OwnsItsCursors ~> (call = Idle)
=============================================================================
