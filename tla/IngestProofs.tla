---------------------------- MODULE IngestProofs ----------------------------
(***************************************************************************)
(* What the store holds, for any sources, chunk sizes, request sizes and   *)
(* number of runs, with every failure of module Ingest.                    *)
(*                                                                         *)
(* A document is in the buffer, sent, in the index, or taken by a crash; it *)
(* leaves the index only when a newer profile of its column takes its      *)
(* place.  The text of a column is handed over before its profile, because *)
(* a source is pulled once in a job, and the buffer is sent or dropped as  *)
(* a whole.                                                                *)
(*                                                                         *)
(* A profile covers its column, because the pages of a file neither        *)
(* overlap nor leave rows out and the sizes of a table's pages add up, and *)
(* agrees with the column's text, because each chunk adds the same rows to *)
(* both.                                                                   *)
(***************************************************************************)
EXTENDS Ingest, FiniteSetTheorems, SequenceTheorems, TLAPS

Unsettled == inflight \union buffer \union unsent

Places ==
  /\ run \in Nat
  /\ pc \in {"read", "feed", "store"} => source \notin pending
  /\ pc \in {"closed", "exited"} => buffer = {}
  /\ pc # "exited" => unsent = {}

\* Documents that are not settled are of the current job.
Runs ==
  /\ \A d \in Everywhere : d.run \in Nat /\ d.run <= run
  /\ \A d \in Unsettled : d.run = run

\* A source with a profile in this job is not pulled again.
PulledOnce ==
  \A p \in ProfilesIn(Everywhere) :
    p.run = run =>
      /\ p.source \notin pending
      /\ pc \in {"read", "feed"} => p.source # source

\* The profile of a column was handed over in this job.
Given(s, c) ==
  \E p \in ProfilesIn(Everywhere) : p.run = run /\ p.source = s /\ p.column = c

HandedOver ==
  /\ \A s \in counted : \A c \in Cols : Given(s, c)
  /\ pc = "store" => \A c \in Cols \ results : Given(source, c)

Invariant == Places /\ Runs /\ PulledOnce /\ TextSentWithProfile /\ HandedOver

-----------------------------------------------------------------------------
LEMMA InvariantInit == Init => Invariant
  BY DEF Init, Invariant, Places, Runs, PulledOnce, TextSentWithProfile, HandedOver,
     Everywhere, Unsettled, ProfilesIn

\* A step that leaves the documents alone.
LEMMA Frame ==
  ASSUME Invariant, UNCHANGED <<run, bulk>>, Places',
         pending' \subseteq pending,
         pc' \in {"read", "feed"} =>
           (pc \in {"read", "feed"} /\ source' = source) \/ source' \in pending,
         HandedOver'
  PROVE  Invariant'
<1>1. Everywhere' = Everywhere /\ Unsettled' = Unsettled
      /\ UNCHANGED <<index, inflight, buffer, unsent>>
  BY DEF Everywhere, Unsettled, bulk
<1>2. Runs'
  BY <1>1 DEF Invariant, Runs
<1>3. PulledOnce'
  BY <1>1 DEF Invariant, PulledOnce, ProfilesIn
<1>4. TextSentWithProfile'
  BY <1>1 DEF Invariant, TextSentWithProfile, ProfilesIn, TextOf
<1> QED
  BY <1>2, <1>3, <1>4 DEF Invariant

\* Documents move on, and what was handed over remains so.
LEMMA Move ==
  ASSUME Invariant, UNCHANGED <<run, counted, pending>>, Places',
         Everywhere' \subseteq Everywhere, Unsettled' \subseteq Unsettled,
         TextSentWithProfile',
         \A s, c : Given(s, c) => Given(s, c)',
         pc' \in {"read", "feed"} => pc \in {"read", "feed"} /\ source' = source,
         pc' = "store" => pc = "store" /\ source' = source /\ results' = results
  PROVE  Invariant'
<1>1. Runs'
  BY DEF Invariant, Runs
<1>2. PulledOnce'
  BY DEF Invariant, PulledOnce, ProfilesIn
<1>3. HandedOver'
  BY DEF Invariant, HandedOver
<1> QED
  BY <1>1, <1>2, <1>3 DEF Invariant

\* A document more in the buffer.
LEMMA Add ==
  ASSUME Invariant,
         UNCHANGED <<run, counted, pending, source, inflight, index, unsent>>,
         Places',
         NEW docs, buffer' = buffer \union docs,
         \A d \in docs : d.run = run /\ d.source = source,
         \/ /\ pc = "feed" /\ pc' = "read"
            /\ \A d \in docs : d.kind = "text"
         \/ /\ pc = "store" /\ pc' = "store"
            /\ \A d \in docs : d.kind = "profile"
            /\ \A c \in (Cols \ results') \ (Cols \ results) :
                 \E d \in docs : d.column = c
  PROVE  Invariant'
<1>1. Everywhere' = Everywhere \union docs /\ Unsettled' = Unsettled \union docs
  BY DEF Everywhere, Unsettled
<1>2. Runs'
  BY <1>1 DEF Invariant, Runs, Places
<1>3. PulledOnce'
  <2>1. CASE pc = "feed"
    BY <1>1, <2>1 DEF Invariant, PulledOnce, ProfilesIn
  <2>2. CASE pc = "store"
    BY <1>1, <2>2 DEF Invariant, PulledOnce, ProfilesIn, Places
  <2> QED
    BY <2>1, <2>2
<1>4. ASSUME NEW p \in ProfilesIn(Everywhere)
      PROVE  TextOf(p, docs) = {}
  <2>1. CASE pc = "feed"
    BY <2>1 DEF Invariant, PulledOnce, TextOf
  <2>2. CASE pc = "store"
    BY <2>2 DEF TextOf
  <2> QED
    BY <2>1, <2>2
<1>5. TextSentWithProfile'
  <2>1. \A p \in ProfilesIn(index \union inflight) :
          TextOf(p, (buffer \union docs) \union unsent) = {}
    BY <1>4 DEF Invariant, TextSentWithProfile, TextOf, ProfilesIn, Everywhere
  <2> QED
    BY <2>1 DEF TextSentWithProfile, ProfilesIn, TextOf
<1>6. ASSUME NEW s, NEW c, Given(s, c)
      PROVE  Given(s, c)'
  BY <1>1, <1>6 DEF Given, ProfilesIn
<1>7. HandedOver'
  <2>1. \A s \in counted : \A c \in Cols : Given(s, c)'
    BY <1>6 DEF Invariant, HandedOver
  <2>2. ASSUME pc' = "store", NEW c \in Cols \ results'
        PROVE  Given(source, c)'
    <3>1. CASE c \in Cols \ results
      BY <2>2, <3>1, <1>6 DEF Invariant, HandedOver
    <3>2. CASE c \notin Cols \ results
      BY <2>2, <3>2, <1>1 DEF Given, ProfilesIn
    <3> QED
      BY <3>1, <3>2
  <2> QED
    BY <2>1, <2>2 DEF HandedOver
<1> QED
  BY <1>2, <1>3, <1>5, <1>7 DEF Invariant

-----------------------------------------------------------------------------
LEMMA InvariantNext == Invariant /\ [Next]_vars => Invariant'
<1> SUFFICES ASSUME Invariant, [Next]_vars
             PROVE  Invariant'
  OBVIOUS
<1> USE DEF lake, job, reading, bulk
<1>0. ASSUME UNCHANGED <<run, bulk, counted>>, NEW s, NEW c, Given(s, c)
      PROVE  Given(s, c)'
  BY <1>0 DEF Given, Everywhere, ProfilesIn
<1>1. CASE UNCHANGED vars
  <2>1. Places' /\ HandedOver'
    BY <1>1, <1>0 DEF vars, Invariant, Places, HandedOver
  <2> QED
    BY <1>1, <2>1, Frame DEF vars
<1>2. CASE PullTask
  <2>1. Places' /\ HandedOver'
    BY <1>2, <1>0 DEF PullTask, LocalsFor, Invariant, Places, HandedOver
  <2> QED
    BY <1>2, <2>1, Frame DEF PullTask, LocalsFor
<1>3. CASE ReadRows
  <2>1. Places' /\ HandedOver'
    BY <1>3, <1>0 DEF ReadRows, NoMoreRows, Invariant, Places, HandedOver
  <2>2. pc = "read" /\ source' = source
    BY <1>3 DEF ReadRows, NoMoreRows
  <2> QED
    BY <1>3, <2>1, <2>2, Frame DEF ReadRows
<1>4. CASE TaskFails
  <2>1. Places' /\ HandedOver'
    BY <1>4, <1>0 DEF TaskFails, LocalsFor, Invariant, Places, HandedOver
  <2> QED
    BY <1>4, <2>1, Frame DEF TaskFails
<1>5. ASSUME NEW ts, NEW docs, pc = "feed", Feed(ts), buffer' = buffer \union docs,
             \A d \in docs : d.run = run /\ d.source = source /\ d.kind = "text"
      PROVE  Invariant'
  <2>1. Places'
    BY <1>5 DEF Feed, Invariant, Places
  <2> QED
    BY <1>5, <2>1, Add DEF Feed
<1>6. ASSUME NEW ts, NEW d \in IndexData(ts)
      PROVE  d.run = run /\ d.source = source /\ d.kind = "text"
  BY DEF IndexData, TextDoc
<1>7. CASE ReadFirstRecords
  BY <1>7, <1>5, <1>6 DEF ReadFirstRecords
<1>8. CASE FeedValuesToAnalyzers
  BY <1>8, <1>5, <1>6 DEF FeedValuesToAnalyzers
<1>9. CASE StoreDocument
  <2>1. PICK c \in results : /\ buffer' = buffer \union {ProfileDoc(c)}
                             /\ results' = results \ {c}
    BY <1>9 DEF StoreDocument
  <2>2. /\ ProfileDoc(c).run = run /\ ProfileDoc(c).source = source
        /\ ProfileDoc(c).kind = "profile" /\ ProfileDoc(c).column = c
    BY DEF ProfileDoc
  <2>3. Places'
    BY <1>9 DEF StoreDocument, Invariant, Places
  <2>4. (Cols \ results') \ (Cols \ results) \subseteq {c}
    BY <2>1
  <2>5. /\ UNCHANGED <<run, counted, pending, source, inflight, index, unsent>>
        /\ pc = "store" /\ pc' = "store"
    BY <1>9 DEF StoreDocument
  <2> DEFINE docs == {ProfileDoc(c)}
  <2>6. /\ \A d \in docs : d.run = run /\ d.source = source /\ d.kind = "profile"
        /\ \A b \in (Cols \ results') \ (Cols \ results) : \E d \in docs : d.column = b
        /\ buffer' = buffer \union docs
    BY <2>1, <2>2, <2>4
  <2> HIDE DEF docs
  <2> QED
    BY <2>3, <2>5, <2>6, Add
<1>10. CASE NotifyProcessedTask
  <2>1. Places'
    BY <1>10 DEF NotifyProcessedTask, LocalsFor, Invariant, Places
  <2>2. \A c \in Cols : Given(source, c)
    BY <1>10 DEF NotifyProcessedTask, Invariant, HandedOver
  <2>3. ASSUME NEW s, NEW c, Given(s, c)
        PROVE  Given(s, c)'
    BY <1>10, <2>3 DEF NotifyProcessedTask, Given, Everywhere, ProfilesIn
  <2>4. HandedOver'
    BY <1>10, <2>2, <2>3 DEF NotifyProcessedTask, Invariant, HandedOver
  <2> QED
    BY <1>10, <2>1, <2>4, Frame DEF NotifyProcessedTask
\* The documents are elsewhere, and the same.
<1>11. ASSUME UNCHANGED <<run, counted, pending, index>>, Places',
              inflight \union buffer \union unsent
                = inflight' \union buffer' \union unsent',
              TextSentWithProfile', pc' \notin {"read", "feed", "store"} \/
                UNCHANGED <<pc, source, results>>
       PROVE  Invariant'
  <2>1. Unsettled' = Unsettled /\ Everywhere' = Everywhere
    BY <1>11 DEF Unsettled, Everywhere
  <2>2. \A s, c : Given(s, c) => Given(s, c)'
    BY <1>11, <2>1 DEF Given, ProfilesIn
  <2> QED
    BY <1>11, <2>1, <2>2, Move
<1>12. CASE TearDownStore \/ Flush
  <2>1. /\ UNCHANGED <<run, counted, pending, index, unsent, source, results>>
        /\ inflight' = inflight \union buffer /\ buffer' = {}
        /\ pc # "exited" /\ pc' \in {pc, "closed"}
    BY <1>12 DEF TearDownStore, Flush, Send
  <2>2. unsent = {}
    BY <2>1 DEF Invariant, Places
  <2>3. Places'
    BY <2>1, <2>2 DEF Invariant, Places
  <2>4. TextSentWithProfile'
    BY <2>1, <2>2 DEF TextSentWithProfile, ProfilesIn, TextOf
  <2> QED
    BY <2>1, <2>3, <2>4, <1>11
<1>13. CASE AfterBulk
  <2>1. UNCHANGED <<run, counted, pending, index, inflight, buffer, unsent, pc, source,
                    results>>
    BY <1>13 DEF AfterBulk
  <2>2. Places' /\ TextSentWithProfile'
    BY <2>1 DEF Invariant, Places, TextSentWithProfile, ProfilesIn, TextOf
  <2> QED
    BY <2>1, <2>2, <1>11
<1>14. ASSUME NEW docs, buffer \ docs = {}, docs \subseteq buffer, Exit(docs),
              pc # "exited"
       PROVE  Invariant'
  <2>1. /\ unsent' = buffer /\ buffer' = {} /\ pc' = "exited" /\ unsent = {}
        /\ UNCHANGED <<run, counted, pending, index, inflight>>
    BY <1>14 DEF Exit, Invariant, Places
  <2>2. Places'
    BY <2>1 DEF Invariant, Places
  <2>3. TextSentWithProfile'
    BY <2>1 DEF Invariant, TextSentWithProfile, ProfilesIn, TextOf
  <2> QED
    BY <2>1, <2>2, <2>3, <1>11
<1>15. CASE ProcessExits \/ ProcessDies
  BY <1>14, <1>15 DEF ProcessExits, ProcessDies, Invariant, Places
<1>16. CASE StoreApplies
  <2>1. PICK d \in inflight : index' = Applied({d}) /\ inflight' = inflight \ {d}
    BY <1>16 DEF StoreApplies
  <2>2. UNCHANGED <<run, counted, pending, buffer, unsent, pc, source, results>>
    BY <1>16 DEF StoreApplies
  <2>3. /\ index' \subseteq index \union {d} /\ d \in index'
        /\ \A p \in index \ index' : /\ p.kind = "profile" /\ d.kind = "profile"
                                   /\ d.source = p.source /\ d.column = p.column
    BY <2>1 DEF Applied
  <2>4. /\ Everywhere' \subseteq Everywhere /\ Unsettled' \subseteq Unsettled
        /\ \A p \in Everywhere \ Everywhere' : p \in index \ index'
    BY <2>1, <2>2, <2>3 DEF Everywhere, Unsettled
  <2>5. Places'
    BY <2>2 DEF Invariant, Places
  <2>6. TextSentWithProfile'
    <3>1. ProfilesIn(index' \union inflight') \subseteq ProfilesIn(index \union inflight)
      BY <2>1, <2>3 DEF ProfilesIn
    <3>2. \A p \in ProfilesIn(index' \union inflight') :
            TextOf(p, buffer' \union unsent') = {}
      BY <2>2, <3>1 DEF Invariant, TextSentWithProfile
    <3> QED
      BY <3>2 DEF TextSentWithProfile, ProfilesIn, TextOf
  <2>7. ASSUME NEW s, NEW c, Given(s, c)
        PROVE  Given(s, c)'
    <3>1. PICK p \in ProfilesIn(Everywhere) :
            p.run = run /\ p.source = s /\ p.column = c
      BY <2>7 DEF Given
    <3>2. CASE p \in Everywhere'
      BY <2>2, <3>1, <3>2 DEF Given, ProfilesIn
    <3>3. CASE p \notin Everywhere'
      <4>1. d.kind = "profile" /\ d.source = s /\ d.column = c
        BY <2>3, <2>4, <3>1, <3>3 DEF ProfilesIn
      <4>2. d \in Everywhere' /\ d.run = run
        BY <2>1, <2>3 DEF Everywhere, Invariant, Runs, Unsettled
      <4> QED
        BY <2>2, <4>1, <4>2 DEF Given, ProfilesIn
    <3> QED
      BY <3>2, <3>3
  <2> QED
    BY <2>2, <2>4, <2>5, <2>6, <2>7, Move
<1>17. CASE QueryFails
  <2>1. Places' /\ HandedOver'
    BY <1>17, <1>0 DEF QueryFails, NoMoreRows, Invariant, Places, HandedOver
  <2> QED
    BY <1>17, <2>1, Frame DEF QueryFails, NoMoreRows
<1>18. CASE ReadThrows
  <2>1. Places' /\ HandedOver'
    BY <1>18, <1>0 DEF ReadThrows, Invariant, Places, HandedOver
  <2> QED
    BY <1>18, <2>1, Frame DEF ReadThrows
<1>19. CASE RunAgain
  <2>1. Places'
    BY <1>19 DEF RunAgain, Invariant, Places
  <2>2. /\ Everywhere' \subseteq Everywhere /\ Unsettled' = {} /\ run' = run + 1
        /\ buffer' = {} /\ unsent' = {}
    BY <1>19 DEF RunAgain, Invariant, Places, Everywhere, Unsettled
  <2>3. \A d \in Everywhere' : d.run \in Nat /\ d.run <= run
    BY <2>2 DEF Invariant, Runs
  <2>4. Runs'
    BY <2>2, <2>3 DEF Runs, Invariant, Places
  <2>5. PulledOnce'
    BY <2>2, <2>3 DEF PulledOnce, ProfilesIn, Invariant, Places
  <2>6. TextSentWithProfile'
    BY <2>2 DEF TextSentWithProfile, TextOf
  <2>7. HandedOver'
    BY <1>19 DEF RunAgain, HandedOver
  <2> QED
    BY <2>1, <2>4, <2>5, <2>6, <2>7 DEF Invariant
<1>20. CASE RowDeleted
  <2>1. Places' /\ HandedOver'
    BY <1>20, <1>0 DEF RowDeleted, Invariant, Places, HandedOver
  <2> QED
    BY <1>20, <2>1, Frame DEF RowDeleted
<1> QED
  BY <1>1, <1>2, <1>3, <1>4, <1>7, <1>8, <1>9, <1>10, <1>12, <1>13, <1>15,
     <1>16, <1>17, <1>18, <1>19, <1>20 DEF Next, Worker

LEMMA InvariantHolds == Spec => []Invariant
  BY InvariantInit, InvariantNext, PTL DEF Spec

\* When the process is over, however it ended, each column of a source it
\* counted has its profile in the store or sent to it, or a crash took it from
\* the buffer: nothing stays behind in a bulk processor that is not closed.
THEOREM CountedColumnsAreStored == Spec => []CountedIsStored
<1>1. Invariant => CountedIsStored
  BY DEF Invariant, Places, HandedOver, Given, CountedIsStored, Everywhere,
     ProfilesIn
<1> QED
  BY <1>1, InvariantHolds, PTL

\* A profile that was sent never leaves text of its column behind, neither in
\* the buffer nor in a crash, although the store may take it first.
THEOREM TextIsSentWithProfile == Spec => []TextSentWithProfile
<1>1. Invariant => TextSentWithProfile
  BY DEF Invariant
<1> QED
  BY <1>1, InvariantHolds, PTL

-----------------------------------------------------------------------------
(* What a read returns *)

Rows == Seq(Seq(Cells))

LEMMA LesserOfTwo ==
  ASSUME NEW m \in Int, NEW n \in Int
  PROVE  Min({m, n}) = IF m < n THEN m ELSE n
BY DEF Min

LEMMA SliceRows ==
  ASSUME NEW t \in Rows, NEW first \in Nat \ {0}, NEW last \in Nat
  PROVE  LET end == IF last < Len(t) THEN last ELSE Len(t)
         IN  /\ Slice(t, first, last) \in Rows
             /\ Slice(t, first, last) = SubSeq(t, first, end)
             /\ Len(Slice(t, first, last)) =
                  IF first <= end THEN end - first + 1 ELSE 0
             /\ \A i \in 1..Len(Slice(t, first, last)) :
                  Slice(t, first, last)[i] = t[first + i - 1]
<1> DEFINE end == IF last < Len(t) THEN last ELSE Len(t)
<1>1. Len(t) \in Nat
  BY LenProperties DEF Rows
<1>2. Slice(t, first, last) = SubSeq(t, first, end)
  BY <1>1, LesserOfTwo DEF Slice
<1>3. \A i \in first..end : t[i] \in Seq(Cells)
  BY <1>1, ElementOfSeq DEF Rows
<1>4. end \in Int
  BY <1>1
<1> HIDE DEF end
<1>5. /\ SubSeq(t, first, end) \in Seq(Seq(Cells))
      /\ Len(SubSeq(t, first, end)) = IF first <= end THEN end - first + 1 ELSE 0
      /\ \A i \in 1..(end - first + 1) : SubSeq(t, first, end)[i] = t[first + i - 1]
  BY <1>3, <1>4, SubSeqProperties
<1>6. \A i \in 1..Len(SubSeq(t, first, end)) : i \in 1..(end - first + 1)
  BY <1>4, <1>5
<1> QED BY <1>2, <1>5, <1>6 DEF end, Rows

LEMMA RowsOfTable ==
  ASSUME NEW t \in Rows, NEW n \in Nat, NEW rows \in AnyRows(t, n)
  PROVE  /\ rows \in Rows /\ Len(rows) = n
         /\ \A i \in 1..n : \E j \in DOMAIN t : rows[i] = t[j]
<1>1. PICK f \in [1..n -> DOMAIN t] : rows = [i \in 1..n |-> t[f[i]]]
  BY DEF AnyRows
<1>2. \A j \in DOMAIN t : t[j] \in Seq(Cells)
  BY ElementOfSeq, LenProperties DEF Rows
<1>3. \A i \in 1..n : f[i] \in DOMAIN t /\ rows[i] = t[f[i]]
  BY <1>1
<1>4. rows \in [1..n -> Seq(Cells)]
  BY <1>1, <1>2
<1> QED BY <1>3, <1>4, IsASeq, LenProperties DEF Rows

LEMMA PageSizes ==
  ASSUME NEW t \in Rows, NEW from \in Nat
  PROVE  /\ PageSize(t, from) \in Nat /\ RowNumSize(t, from) \in Nat
         /\ from <= Len(t) => from + PageSize(t, from) <= Len(t)
         /\ from <= Len(t) /\ PageSize(t, from) = 0 => from = Len(t)
<1>1. Len(t) \in Nat /\ Chunk \in Nat \ {0}
  BY LenProperties, BoundsAssumption DEF Rows
<1>2. Min({from + Chunk, Len(t)}) = IF from + Chunk < Len(t) THEN from + Chunk ELSE Len(t)
  BY <1>1, LesserOfTwo
<1>3. Min({Chunk, Len(t) - from}) = IF Chunk < Len(t) - from THEN Chunk ELSE Len(t) - from
  BY <1>1, LesserOfTwo
<1> QED BY <1>1, <1>2, <1>3 DEF PageSize, RowNumSize

LEMMA RowsRead ==
  ASSUME NEW k \in AllKinds, NEW t \in Rows, NEW from \in Nat,
         NEW rows \in NextRows(k, t, from)
  PROVE  rows \in Rows /\ Len(rows) \in Nat
<1>1. <<>> \in Rows
  BY EmptySeq DEF Rows
<1>2. Page(t, from) \in Rows
  BY SliceRows, BoundsAssumption DEF Page
<1>3. rows \in Rows
  BY <1>1, <1>2, RowsOfTable, PageSizes DEF NextRows, AllKinds
<1> QED BY <1>3, LenProperties DEF Rows

\* A page of a file ends the reading only at the end of the file.
LEMMA PageOfFile ==
  ASSUME NEW t \in Rows, NEW from \in Nat, from <= Len(t)
  PROVE  LET n == Len(Page(t, from))
         IN  /\ n \in Nat /\ from + n <= Len(t)
             /\ \A i \in 1..n : Page(t, from)[i] = t[from + i]
             /\ Page(t, from) = <<>> => from = Len(t)
<1> DEFINE end == IF from + Chunk < Len(t) THEN from + Chunk ELSE Len(t)
<1>1. Len(t) \in Nat /\ Chunk \in Nat \ {0}
  BY LenProperties, BoundsAssumption DEF Rows
<1>2. /\ Len(Page(t, from)) = IF from + 1 <= end THEN end - (from + 1) + 1 ELSE 0
      /\ \A i \in 1..Len(Page(t, from)) : Page(t, from)[i] = t[(from + 1) + i - 1]
  BY <1>1, SliceRows DEF Page
<1>3. from <= end /\ end <= Len(t) /\ (end = from => from = Len(t)) /\ end \in Nat
  BY <1>1
<1> HIDE DEF end
<1>4. Len(Page(t, from)) = end - from
  BY <1>2, <1>3
<1>5. \A i \in 1..Len(Page(t, from)) : Page(t, from)[i] = t[from + i]
  BY <1>2, <1>3, <1>4
<1>6. Page(t, from) = <<>> => end = from
  BY <1>3, <1>4, EmptySeq
<1> QED BY <1>3, <1>4, <1>5, <1>6

LEMMA RowGone ==
  ASSUME NEW t \in Rows, NEW i \in DOMAIN t
  PROVE  /\ RemoveAt(t, i) \in Rows
         /\ \A j \in DOMAIN RemoveAt(t, i) : \E k \in DOMAIN t : RemoveAt(t, i)[j] = t[k]
<1> DEFINE u == SubSeq(t, 1, i - 1)
           v == SubSeq(t, i + 1, Len(t))
<1>1. i \in 1..Len(t) /\ Len(t) \in Nat /\ DOMAIN t = 1..Len(t)
      /\ \A j \in 1..Len(t) : t[j] \in Seq(Cells)
  BY LenProperties, ElementOfSeq DEF Rows
<1>2. /\ u \in Rows /\ Len(u) = i - 1
      /\ \A j \in 1..(i - 1) : u[j] = t[j]
  BY <1>1, SubSeqProperties DEF Rows
<1>3. /\ v \in Rows /\ Len(v) = Len(t) - i
      /\ \A j \in 1..(Len(t) - i) : v[j] = t[j + i]
  <2>1. \A j \in (i + 1)..Len(t) : t[j] \in Seq(Cells)
    BY <1>1
  <2>2. i + 1 \in Int /\ Len(t) \in Int
    BY <1>1
  <2>3. /\ v \in Rows
        /\ Len(v) = IF i + 1 <= Len(t) THEN Len(t) - (i + 1) + 1 ELSE 0
        /\ \A j \in 1..(Len(t) - (i + 1) + 1) : v[j] = t[(i + 1) + j - 1]
    BY <2>1, <2>2, SubSeqProperties DEF Rows
  <2> HIDE DEF v
  <2>4. Len(v) = Len(t) - i /\ 1..(Len(t) - (i + 1) + 1) = 1..(Len(t) - i)
    BY <1>1, <2>3
  <2>5. \A j \in 1..(Len(t) - i) : (i + 1) + j - 1 = j + i
    BY <1>1
  <2> QED BY <2>3, <2>4, <2>5
<1>4. RemoveAt(t, i) = u \o v
  BY DEF RemoveAt
<1> HIDE DEF u, v
<1>5. /\ u \o v \in Rows /\ DOMAIN (u \o v) = 1..(Len(u) + Len(v))
      /\ \A j \in 1..(Len(u) + Len(v)) :
           (u \o v)[j] = IF j <= Len(u) THEN u[j] ELSE v[j - Len(u)]
  <2>1. /\ u \o v \in Rows /\ Len(u \o v) = Len(u) + Len(v)
        /\ \A j \in 1..(Len(u) + Len(v)) :
             (u \o v)[j] = IF j <= Len(u) THEN u[j] ELSE v[j - Len(u)]
    BY <1>2, <1>3, ConcatProperties DEF Rows
  <2>2. DOMAIN (u \o v) = 1..Len(u \o v)
    BY <2>1, LenProperties DEF Rows
  <2> QED BY <2>1, <2>2
<1>6. ASSUME NEW j \in 1..(Len(u) + Len(v))
      PROVE  \E k \in 1..Len(t) : (u \o v)[j] = t[k]
  <2>1. CASE j <= i - 1
    <3>1. j \in 1..(i - 1) /\ (u \o v)[j] = t[j] /\ j \in 1..Len(t)
      BY <1>1, <1>2, <1>3, <1>5, <2>1
    <3> QED BY <3>1
  <2>2. CASE ~(j <= i - 1)
    <3>1. /\ j - Len(u) \in 1..(Len(t) - i) /\ (j - Len(u)) + i \in 1..Len(t)
          /\ (u \o v)[j] = v[j - Len(u)]
      BY <1>1, <1>2, <1>3, <1>5, <2>2
    <3> QED BY <1>3, <3>1
  <2> QED BY <2>1, <2>2
<1> QED BY <1>1, <1>4, <1>5, <1>6

-----------------------------------------------------------------------------
(* The type of the state *)

Known == {"INT", "FLOAT", "STRING"}

TypeInv ==
  /\ kind \in [Sources -> Kinds] /\ table \in [Sources -> Rows]
  /\ run \in 1..MaxRuns /\ pending \subseteq Sources
  /\ counted \subseteq Sources \ pending
  /\ pc \in {"idle", "read", "feed", "store", "failed", "closed", "exited"}
  /\ source \in Sources \union {NoSource}
  /\ pc \in {"read", "feed", "store"} => source \in Sources
  /\ offset \in Nat /\ chunk \in Nat /\ batch \in Rows /\ Len(batch) <= offset
  /\ types \in [Cols -> Known \union {"UNKNOWN"}]
  /\ chunk > 0 => types \in [Cols -> Known]
  /\ pc = "store" => chunk > 0
  /\ total \in [Cols -> Nat] /\ results \subseteq Cols
  /\ IsFiniteSet(buffer) /\ Cardinality(buffer) < BulkLimit + Columns
  /\ waiting \in BOOLEAN /\ Everywhere \subseteq Documents
  /\ disturbed \subseteq Sources

LEMMA CastFinite ==
  ASSUME NEW t \in Rows, NEW c, NEW type
  PROVE  /\ DOMAIN t = 1..Len(t) /\ Len(t) \in Nat
         /\ Cast(t, c, type) \subseteq 1..Len(t)
         /\ IsFiniteSet(Cast(t, c, type))
<1>1. DOMAIN t = 1..Len(t) /\ Len(t) \in Nat
  BY LenProperties DEF Rows
<1>2. Cast(t, c, type) \subseteq 1..Len(t)
  BY <1>1 DEF Cast, WellFormed
<1>3. IsFiniteSet(1..Len(t))
  BY <1>1, FS_Interval
<1> QED BY <1>1, <1>2, <1>3, FS_Subset

\* The values of a chunk are rows of the part just read.
LEMMA FedRows ==
  ASSUME TypeInv, NEW c, NEW type
  PROVE  /\ Fed(c, type) \subseteq (offset - Len(batch) + 1)..offset
         /\ Fed(c, type) \in SUBSET Nat
         /\ IsFiniteSet(Fed(c, type)) /\ Cardinality(Fed(c, type)) \in Nat
         /\ offset \in Nat /\ Len(batch) \in Nat /\ offset - Len(batch) \in Nat
<1>1. /\ offset \in Nat /\ Len(batch) \in Nat /\ Len(batch) <= offset
      /\ Cast(batch, c, type) \subseteq 1..Len(batch)
  BY CastFinite DEF TypeInv
<1>2. Fed(c, type) \subseteq (offset - Len(batch) + 1)..offset
  BY <1>1 DEF Fed
<1>3. IsFiniteSet((offset - Len(batch) + 1)..offset)
  BY <1>1, FS_Interval
<1>4. IsFiniteSet(Fed(c, type))
  BY <1>2, <1>3, FS_Subset
<1>5. Fed(c, type) \in SUBSET Nat
  BY <1>1, <1>2
<1> QED BY <1>1, <1>2, <1>4, <1>5, FS_CardinalityType

LEMMA ValueTyped == \A values : TypeOfValue(values) \in Known
BY DEF TypeOfValue, Known

LEMMA TypesFound ==
  ASSUME types \in [Cols -> Known \union {"UNKNOWN"}], NEW rows
  PROVE  /\ CalculateDataTypes(types, rows) \in [Cols -> Known]
         /\ types \in [Cols -> Known] => CalculateDataTypes(types, rows) = types
<1>1. CalculateDataTypes(types, rows) \in [Cols -> Known]
  BY ValueTyped DEF CalculateDataTypes
<1>2. ASSUME types \in [Cols -> Known] PROVE CalculateDataTypes(types, rows) = types
  <2>1. \A c \in Cols : types[c] # "UNKNOWN"
    BY <1>2 DEF Known
  <2> QED BY <1>2, <2>1 DEF CalculateDataTypes
<1> QED BY <1>1, <1>2

\* One document per text column.
LEMMA FewDocuments ==
  ASSUME NEW ts
  PROVE  IsFiniteSet(IndexData(ts)) /\ Cardinality(IndexData(ts)) <= Columns
<1> DEFINE cs == {c \in Cols : ts[c] = "STRING"}
           docs == [c \in cs |-> TextDoc(c, ts)]
<1>1. IsFiniteSet(Cols) /\ Cardinality(Cols) = Columns
  BY FS_Interval, ColumnsAssumption DEF Cols
<1>2. IsFiniteSet(cs) /\ Cardinality(cs) <= Columns
  BY <1>1, FS_Subset
<1>3. docs \in Surjection(cs, IndexData(ts))
  BY DEF Surjection, IndexData
<1> HIDE DEF docs, cs
<1>4. IsFiniteSet(IndexData(ts)) /\ Cardinality(IndexData(ts)) <= Cardinality(cs)
  BY <1>2, <1>3, FS_Surjection
<1>5. Cardinality(cs) \in Nat /\ Cardinality(IndexData(ts)) \in Nat
  BY <1>2, <1>4, FS_CardinalityType
<1> QED BY <1>2, <1>4, <1>5, ColumnsAssumption

LEMMA BufferGrows ==
  ASSUME IsFiniteSet(buffer), Room, NEW docs, IsFiniteSet(docs),
         Cardinality(docs) <= Columns
  PROVE  /\ IsFiniteSet(buffer \union docs)
         /\ Cardinality(buffer \union docs) < BulkLimit + Columns
<1>1. /\ IsFiniteSet(buffer \union docs)
      /\ Cardinality(buffer \union docs) =
           Cardinality(buffer) + Cardinality(docs) - Cardinality(buffer \intersect docs)
      /\ IsFiniteSet(buffer \intersect docs)
  BY FS_Union, FS_Intersection
<1>2. /\ Cardinality(buffer) \in Nat /\ Cardinality(docs) \in Nat
      /\ Cardinality(buffer \intersect docs) \in Nat
  BY <1>1, FS_CardinalityType
<1> QED BY <1>1, <1>2, ColumnsAssumption, BoundsAssumption DEF Room

\* Nothing is stored anew, and text is never replaced.
Settling ==
  Everywhere' \subseteq Everywhere /\ \A d \in Everywhere : d.kind = "text" => d \in Everywhere'

LEMMA Settles ==
  ASSUME Invariant,
         \/ Flush \/ StoreApplies \/ AfterBulk
         \/ TearDownStore \/ ProcessExits \/ ProcessDies
  PROVE  Settling /\ run' = run
<1>1. ASSUME index' = index, inflight' \union buffer' \union unsent'
                               = inflight \union buffer \union unsent
      PROVE  Settling
  BY <1>1 DEF Settling, Everywhere
<1>2. CASE Flush \/ TearDownStore
  BY <1>1, <1>2 DEF Flush, TearDownStore, Send, job
<1>3. CASE AfterBulk
  BY <1>1, <1>3 DEF AfterBulk, job
<1>4. CASE ProcessExits \/ ProcessDies
  BY <1>1, <1>4 DEF ProcessExits, ProcessDies, Exit, job, Invariant, Places
<1>5. CASE StoreApplies
  <2>1. PICK d \in inflight : index' = Applied({d}) /\ inflight' = inflight \ {d}
    BY <1>5 DEF StoreApplies
  <2>2. /\ UNCHANGED <<run, buffer, unsent>>
        /\ index' \subseteq index \union {d} /\ d \in index'
        /\ \A e \in index : e.kind = "text" => e \in index'
    BY <1>5, <2>1 DEF StoreApplies, Applied, job
  <2> QED BY <2>1, <2>2 DEF Settling, Everywhere
<1> QED BY <1>2, <1>3, <1>4, <1>5

LEMMA TypeInit == Init => TypeInv
<1> SUFFICES ASSUME Init PROVE TypeInv
  OBVIOUS
<1>1. table \in [Sources -> Rows]
  BY TablesAssumption DEF Init, Rows
<1>2. IsFiniteSet(buffer) /\ Cardinality(buffer) = 0 /\ Everywhere = {}
  BY FS_EmptySet DEF Init, Everywhere
<1>3. batch \in Rows /\ Len(batch) = 0
  BY EmptySeq DEF Init, Rows
<1>4. run \in 1..MaxRuns
  BY BoundsAssumption DEF Init
<1>5. waiting \in BOOLEAN
  BY DEF Init
<1> QED BY <1>1, <1>2, <1>3, <1>4, <1>5, BoundsAssumption, ColumnsAssumption DEF Init, TypeInv

LEMMA LocalsTyped ==
  ASSUME NEW s, LocalsFor(s)
  PROVE  /\ offset' \in Nat /\ chunk' = 0 /\ batch' \in Rows /\ Len(batch') <= offset'
         /\ types' \in [Cols -> Known \union {"UNKNOWN"}]
         /\ total' \in [Cols -> Nat] /\ results' \subseteq Cols
BY EmptySeq DEF LocalsFor, Rows

\* A step of the worker that reads.
LEMMA ReadTyped ==
  ASSUME TypeInv, ReadRows \/ QueryFails
  PROVE  TypeInv'
<1>1. /\ pc = "read" /\ source \in Sources
      /\ UNCHANGED <<kind, table, run, pending, counted, source, chunk, types, total,
                     buffer, waiting>>
      /\ Everywhere' = Everywhere
      /\ disturbed' \subseteq disturbed \union {source}
  BY DEF ReadRows, QueryFails, NoMoreRows, lake, job, bulk, Everywhere, TypeInv
<1>2. ASSUME NoMoreRows
      PROVE  /\ offset' \in Nat /\ batch' \in Rows /\ Len(batch') <= offset'
             /\ pc' \in {"failed", "store"} /\ (pc' = "store" => chunk > 0)
             /\ results' \subseteq Cols
  BY <1>2 DEF NoMoreRows, TypeInv
<1>3. ASSUME NEW rows \in NextRows(kind[source], table[source], offset),
             batch' = rows, offset' = offset + Len(rows), pc' = "feed",
             results' = results
      PROVE  /\ offset' \in Nat /\ batch' \in Rows /\ Len(batch') <= offset'
             /\ pc' \in {"feed"}
             /\ results' \subseteq Cols
  <2>1. /\ kind[source] \in AllKinds /\ table[source] \in Rows /\ offset \in Nat
    BY <1>1, KindsAssumption DEF TypeInv
  <2>2. rows \in Rows /\ Len(rows) \in Nat
    BY <1>3, <2>1, RowsRead
  <2> QED BY <1>3, <2>1, <2>2 DEF TypeInv
<1>4. /\ offset' \in Nat /\ batch' \in Rows /\ Len(batch') <= offset'
      /\ pc' \in {"failed", "store", "feed"} /\ (pc' = "store" => chunk > 0)
      /\ results' \subseteq Cols
  <2>1. CASE QueryFails
    BY <1>2, <2>1 DEF QueryFails
  <2>2. CASE ReadRows
    BY <1>2, <1>3, <2>2 DEF ReadRows
  <2> QED BY <2>1, <2>2
<1> QED BY <1>1, <1>4 DEF TypeInv

LEMMA FeedTyped ==
  ASSUME TypeInv, Invariant, ReadFirstRecords \/ FeedValuesToAnalyzers
  PROVE  TypeInv'
<1> DEFINE ts == CalculateDataTypes(types, batch)
<1>1. /\ Feed(ts) /\ buffer' = buffer \union IndexData(ts) /\ Room
      /\ pc = "feed" /\ source \in Sources
  BY DEF ReadFirstRecords, FeedValuesToAnalyzers, TypeInv
<1>2. ts \in [Cols -> Known]
  BY TypesFound DEF TypeInv
<1> HIDE DEF ts
<1>3. /\ types' = ts /\ chunk' = chunk + 1 /\ batch' = <<>> /\ pc' = "read"
      /\ total' = [c \in Cols |-> total[c] + Cardinality(Fed(c, ts[c]))]
      /\ UNCHANGED <<kind, table, run, pending, counted, source, offset, results,
                     waiting, inflight, index, unsent, disturbed>>
  BY <1>1 DEF Feed, lake, job
<1>4. total' \in [Cols -> Nat]
  <2>1. \A c \in Cols : total[c] \in Nat /\ Cardinality(Fed(c, ts[c])) \in Nat
    BY FedRows DEF TypeInv
  <2>2. \A c \in Cols : total[c] + Cardinality(Fed(c, ts[c])) \in Nat
    BY <2>1
  <2> QED BY <1>3, <2>2
<1>5. batch' \in Rows /\ Len(batch') = 0
  BY <1>3, EmptySeq DEF Rows
<1>6. IsFiniteSet(buffer') /\ Cardinality(buffer') < BulkLimit + Columns
  BY <1>1, FewDocuments, BufferGrows DEF TypeInv
<1>7. ASSUME NEW d \in IndexData(ts) PROVE d \in Documents
  <2>1. PICK c \in Cols : ts[c] = "STRING" /\ d = TextDoc(c, ts)
    BY DEF IndexData
  <2>2. Fed(c, ts[c]) \in SUBSET Nat
    BY FedRows
  <2>3. run \in 1..MaxRuns /\ chunk \in Nat
    BY DEF TypeInv
  <2> QED BY <1>1, <2>1, <2>2, <2>3 DEF TextDoc, Documents
<1>8. Everywhere' \subseteq Documents
  BY <1>1, <1>3, <1>7 DEF Everywhere, TypeInv
<1>9. chunk' \in Nat /\ offset' \in Nat /\ Len(batch') <= offset'
  BY <1>3, <1>5 DEF TypeInv
<1> QED BY <1>1, <1>2, <1>3, <1>4, <1>5, <1>6, <1>8, <1>9 DEF TypeInv, Known

LEMMA StoreTyped ==
  ASSUME TypeInv, StoreDocument
  PROVE  TypeInv'
<1>1. PICK c \in results : /\ buffer' = buffer \union {ProfileDoc(c)}
                           /\ results' = results \ {c}
  BY DEF StoreDocument
<1>2. /\ pc = "store" /\ Room /\ c \in Cols
      /\ UNCHANGED <<kind, table, run, pending, counted, pc, source, offset, chunk,
                     batch, types, total, waiting, inflight, index, unsent,
                     disturbed>>
  BY DEF StoreDocument, lake, job, TypeInv
<1>3. /\ source \in Sources /\ types[c] \in Known /\ total[c] \in Nat
      /\ run \in 1..MaxRuns
  BY <1>2 DEF TypeInv
<1>4. ProfileDoc(c) \in Documents
  BY <1>2, <1>3 DEF ProfileDoc, Documents, Known
<1>5. IsFiniteSet({ProfileDoc(c)}) /\ Cardinality({ProfileDoc(c)}) <= Columns
  <2>1. \A d : IsFiniteSet({d}) /\ Cardinality({d}) = 1
    BY FS_Singleton
  <2> QED BY <2>1, ColumnsAssumption
<1>6. IsFiniteSet(buffer') /\ Cardinality(buffer') < BulkLimit + Columns
  BY <1>1, <1>2, <1>5, BufferGrows DEF TypeInv
<1>7. Everywhere' \subseteq Documents
  BY <1>1, <1>2, <1>4 DEF Everywhere, TypeInv
<1> QED BY <1>1, <1>2, <1>6, <1>7 DEF TypeInv

LEMMA TypeStep == Invariant /\ TypeInv /\ [Next]_vars => TypeInv'
<1> SUFFICES ASSUME Invariant, TypeInv, [Next]_vars PROVE TypeInv'
  OBVIOUS
<1> USE DEF lake, job, bulk
<1>1. CASE UNCHANGED vars
  BY <1>1 DEF vars, reading, TypeInv, Everywhere
<1>2. CASE PullTask
  <2>1. PICK s \in pending : LocalsFor(s) /\ pending' = pending \ {s}
    BY <1>2 DEF PullTask
  <2>2. /\ pc' = "read" /\ source' = s /\ s \in Sources
        /\ UNCHANGED <<kind, table, run, counted, bulk, disturbed>>
    BY <1>2, <2>1 DEF PullTask, LocalsFor, TypeInv
  <2> QED BY <2>1, <2>2, LocalsTyped DEF TypeInv, Everywhere
<1>3. CASE ReadRows \/ QueryFails
  BY <1>3, ReadTyped
<1>4. CASE TaskFails
  BY <1>4, LocalsTyped DEF TaskFails, LocalsFor, TypeInv, Everywhere
<1>5. CASE ReadFirstRecords \/ FeedValuesToAnalyzers
  BY <1>5, FeedTyped
<1>6. CASE StoreDocument
  BY <1>6, StoreTyped
<1>7. CASE NotifyProcessedTask
  <2>1. source \notin pending /\ source \in Sources
    BY <1>7 DEF NotifyProcessedTask, Invariant, Places, TypeInv
  <2> QED BY <1>7, <2>1, LocalsTyped
          DEF NotifyProcessedTask, LocalsFor, TypeInv, Everywhere
<1>8. CASE TearDownStore \/ Flush
  <2>1. Everywhere' \subseteq Documents
    BY <1>8, Settles DEF Settling, TypeInv
  <2>2. buffer' = {} /\ pc' \in {pc, "closed"} /\ waiting' \in BOOLEAN
        /\ UNCHANGED <<kind, table, run, pending, counted, source, offset, chunk,
                       batch, types, total, results, disturbed>>
    BY <1>8 DEF TearDownStore, Flush, Send, TypeInv, reading
  <2>3. IsFiniteSet(buffer') /\ Cardinality(buffer') < BulkLimit + Columns
    BY <2>2, FS_EmptySet, BoundsAssumption, ColumnsAssumption
  <2> QED BY <2>1, <2>2, <2>3 DEF TypeInv
<1>9. CASE StoreApplies \/ AfterBulk
  <2>1. Everywhere' \subseteq Documents
    BY <1>9, Settles DEF Settling, TypeInv
  <2>2. waiting' \in BOOLEAN
        /\ UNCHANGED <<kind, table, run, pending, counted, pc, source, offset, chunk,
                       batch, types, total, results, buffer, disturbed>>
    BY <1>9 DEF StoreApplies, AfterBulk, reading, TypeInv
  <2> QED BY <2>1, <2>2 DEF TypeInv
<1>10. CASE ProcessExits \/ ProcessDies
  <2>1. Everywhere' \subseteq Documents
    BY <1>10, Settles DEF Settling, TypeInv
  <2>2. PICK docs : Exit(docs)
    BY <1>10 DEF ProcessExits, ProcessDies
  <2>3. /\ buffer' \subseteq buffer /\ LocalsFor(NoSource) /\ pc' = "exited"
        /\ waiting' = FALSE
        /\ UNCHANGED <<kind, table, run, pending, counted, disturbed>>
    BY <2>2 DEF Exit
  <2>4. IsFiniteSet(buffer') /\ Cardinality(buffer') < BulkLimit + Columns
    <3>1. IsFiniteSet(buffer') /\ Cardinality(buffer') <= Cardinality(buffer)
      BY <2>3, FS_Subset DEF TypeInv
    <3>2. Cardinality(buffer) \in Nat /\ Cardinality(buffer') \in Nat
      BY <3>1, FS_CardinalityType DEF TypeInv
    <3> QED BY <3>1, <3>2, BoundsAssumption, ColumnsAssumption DEF TypeInv
  <2>5. source' = NoSource
    BY <2>3 DEF LocalsFor
  <2>6. waiting' \in BOOLEAN
    BY <2>3
  <2> QED BY <2>1, <2>3, <2>4, <2>5, <2>6, LocalsTyped DEF TypeInv
<1>11. CASE ReadThrows
  BY <1>11 DEF ReadThrows, reading, TypeInv, Everywhere
<1>12. CASE RunAgain
  <2>1. run' \in 1..MaxRuns
    BY <1>12, BoundsAssumption DEF RunAgain, TypeInv
  <2>2. Everywhere' \subseteq Everywhere
    BY <1>12 DEF RunAgain, Everywhere
  <2> QED BY <1>12, <2>1, <2>2 DEF RunAgain, reading, TypeInv
<1>13. CASE RowDeleted
  <2>1. PICK i \in DOMAIN table[source] :
          table' = [table EXCEPT ![source] = RemoveAt(@, i)]
    BY <1>13 DEF RowDeleted
  <2>2. source \in Sources
    BY <1>13 DEF RowDeleted, TypeInv
  <2>3. table' \in [Sources -> Rows]
    BY <2>1, <2>2, RowGone DEF TypeInv
  <2> QED BY <1>13, <2>2, <2>3 DEF RowDeleted, reading, TypeInv, Everywhere
<1> QED BY <1>1, <1>2, <1>3, <1>4, <1>5, <1>6, <1>7, <1>8, <1>9, <1>10, <1>11, <1>12,
           <1>13 DEF Next, Worker

LEMMA TypeInvHolds == Spec => []TypeInv
BY InvariantInit, InvariantNext, TypeInit, TypeStep, PTL DEF Spec

\* Every variable stays in its range; a full request is not added to, so that
\* it never grows beyond its limit by more than the documents of one chunk.
THEOREM TypeCorrect == Spec => []TypeOK
<1>1. TypeInv => TypeOK
  BY DEF TypeInv, TypeOK, Known, Everywhere
<1> QED BY <1>1, TypeInvHolds, PTL

-----------------------------------------------------------------------------
(* The whole column is profiled *)

\* The rows of the chunks before the one just read.
Before == offset - Len(batch)

\* What the analyzers of column c have counted of the table t.
Counted(t, c) ==
  /\ types[c] = TypeOfValue(Values(Page(t, 0), c))
  /\ total[c] = Cardinality({i \in Cast(t, c, types[c]) : i <= Before})

Progress(t) ==
  /\ offset <= Len(t)
  /\ pc # "feed" => batch = <<>>
  /\ pc = "feed" => /\ \A i \in 1..Len(batch) : batch[i] = t[Before + i]
                    /\ chunk = 0 => batch = Page(t, 0)
  /\ chunk = 0 => /\ Before = 0 /\ types = [c \in Cols |-> "UNKNOWN"]
                  /\ total = [c \in Cols |-> 0]
  /\ chunk > 0 => \A c \in Cols : Counted(t, c)
  /\ pc = "store" => offset = Len(t)

WholeInv ==
  /\ (pc \in {"read", "feed", "store"} /\ kind[source] = "csv") => Progress(table[source])
  /\ WholeColumnProfiled

\* A step that makes no profile.
LEMMA WholeFrame ==
  ASSUME WholeInv, run' = run, kind' = kind,
         \A d \in Everywhere' : d \in Everywhere \/ d.kind = "text",
         \A s \in Sources : kind[s] = "csv" => table'[s] = table[s],
         Everywhere \subseteq Documents,
         (pc' \in {"read", "feed", "store"} /\ kind'[source'] = "csv")
           => Progress(table[source])'
  PROVE  WholeInv'
<1>1. ASSUME NEW p \in ProfilesIn(Everywhere'), p.run = run', kind'[p.source] = "csv"
      PROVE  LET t == table'[p.source]
                 type == TypeOfValue(Values(Page(t, 0), p.column))
             IN  p.type = type /\ p.values = Cardinality(Cast(t, p.column, type))
  <2>1. p \in ProfilesIn(Everywhere)
    BY DEF ProfilesIn
  <2>2. p.source \in Sources
    BY <2>1 DEF ProfilesIn, Documents
  <2>3. table'[p.source] = table[p.source]
    BY <1>1, <2>2
  <2> QED BY <1>1, <2>1, <2>3 DEF WholeInv, WholeColumnProfiled
<1>2. WholeColumnProfiled'
  BY <1>1 DEF WholeColumnProfiled, ProfilesIn
<1> QED BY <1>2 DEF WholeInv

LEMMA WholeInit == Init => WholeInv
BY DEF Init, WholeInv, WholeColumnProfiled, ProfilesIn, Everywhere

\* A task begins with nothing read.
LEMMA Begins ==
  ASSUME NEW s, LocalsFor(s), NEW t \in Rows, pc' = "read"
  PROVE  Progress(t)'
<1>1. /\ offset' = 0 /\ chunk' = 0 /\ batch' = <<>> /\ Len(batch') = 0
      /\ types' = [c \in Cols |-> "UNKNOWN"] /\ total' = [c \in Cols |-> 0]
  BY EmptySeq DEF LocalsFor
<1>2. Len(t) \in Nat
  BY LenProperties DEF Rows
<1>3. Before' = 0
  <2>1. offset' = 0 /\ Len(batch') = 0
    BY <1>1
  <2> QED BY <2>1 DEF Before
<1>4. ~(chunk' > 0) /\ offset' <= Len(t)
  BY <1>1, <1>2
<1> QED BY <1>1, <1>3, <1>4 DEF Progress

\* A read goes on where the last one ended, or finds the end of the table.
LEMMA ReadsOn ==
  ASSUME TypeInv, WholeInv, ReadRows, kind[source] = "csv"
  PROVE  pc' \in {"feed", "store"} => Progress(table[source])'
<1>0. PICK t : t = table[source]
  OBVIOUS
<1> DEFINE rows == Page(t, offset)
<1>1. /\ pc = "read" /\ source \in Sources /\ t \in Rows /\ offset \in Nat
      /\ Len(t) \in Nat /\ chunk \in Nat
      /\ UNCHANGED <<kind, table, source, chunk, types, total>>
  BY <1>0, LenProperties DEF ReadRows, NoMoreRows, TypeInv, lake, Rows
<1>2. Progress(t) /\ batch = <<>> /\ Len(batch) = 0
  BY <1>0, <1>1, EmptySeq DEF WholeInv, Progress
<1>3. NextRows(kind[source], t, offset) = {rows}
  BY DEF NextRows
<1>4. /\ Len(rows) \in Nat /\ offset + Len(rows) <= Len(t)
      /\ \A i \in 1..Len(rows) : rows[i] = t[offset + i]
      /\ rows = <<>> => offset = Len(t)
  BY <1>1, <1>2, <1>3, PageOfFile DEF Progress
<1>5. Before = offset
  BY <1>1, <1>2 DEF Before
<1>6. CASE rows = <<>>
  <2>1. UNCHANGED <<offset, batch>> /\ pc' \in {"failed", "store"}
    BY <1>0, <1>3, <1>6 DEF ReadRows, NoMoreRows
  <2>2. Before' = Before
    BY <2>1 DEF Before
  <2>3. \A c : Counted(t, c)' = Counted(t, c)
    BY <1>1, <2>2 DEF Counted
  <2>4. Progress(t)'
    BY <1>1, <1>2, <1>4, <1>6, <2>1, <2>2, <2>3 DEF Progress
  <2> QED BY <1>0, <1>1, <2>4 DEF Progress, Counted, Before
<1>7. CASE rows # <<>>
  <2>1. batch' = rows /\ offset' = offset + Len(rows) /\ pc' = "feed"
    BY <1>0, <1>3, <1>7 DEF ReadRows
  <2> HIDE DEF rows
  <2>2. Before' = Before
    BY <1>1, <1>4, <1>5, <2>1 DEF Before
  <2>3. chunk = 0 => rows = Page(t, 0)
    BY <1>2, <1>5 DEF Progress, rows
  <2>4. Progress(t)'
    BY <1>1, <1>2, <1>4, <1>5, <2>1, <2>2, <2>3 DEF Progress, Counted
  <2> QED BY <1>0, <1>1, <2>4 DEF Progress, Counted, Before
<1> QED BY <1>6, <1>7

\* The chunk adds the values of its rows, and no row twice.
LEMMA CountsOn ==
  ASSUME TypeInv, NEW t \in Rows, NEW c, NEW type, offset <= Len(t),
         \A i \in 1..Len(batch) : batch[i] = t[Before + i]
  PROVE  Cardinality({i \in Cast(t, c, type) : i <= Before}) + Cardinality(Fed(c, type))
           = Cardinality({i \in Cast(t, c, type) : i <= offset})
<1> DEFINE old == {i \in Cast(t, c, type) : i <= Before}
           all == {i \in Cast(t, c, type) : i <= offset}
           new == Fed(c, type)
<1>1. /\ offset \in Nat /\ Len(batch) \in Nat /\ Before \in Nat
      /\ offset = Before + Len(batch)
      /\ new \subseteq (Before + 1)..offset /\ IsFiniteSet(new)
  BY FedRows DEF Before
<1>2. /\ DOMAIN t = 1..Len(t) /\ Len(t) \in Nat /\ Cast(t, c, type) \subseteq 1..Len(t)
      /\ IsFiniteSet(Cast(t, c, type))
  BY CastFinite
<1>3. DOMAIN batch = 1..Len(batch)
  BY CastFinite DEF TypeInv
<1>4. \A j \in (Before + 1)..offset : j \in new <=> j \in Cast(t, c, type)
  <2>1. SUFFICES ASSUME NEW j \in (Before + 1)..offset
                 PROVE  j \in new <=> j \in Cast(t, c, type)
    OBVIOUS
  <2> DEFINE i == j - Before
  <2>2. i \in 1..Len(batch) /\ j = Before + i /\ j \in 1..Len(t)
    BY <1>1, <1>2
  <2>3. batch[i] = t[j]
    BY <2>2
  <2>4. i \in Cast(batch, c, type) <=> j \in Cast(t, c, type)
    BY <1>2, <1>3, <2>2, <2>3 DEF Cast, WellFormed
  <2>5. j \in new <=> i \in Cast(batch, c, type)
    <3>1. \A k \in Cast(batch, c, type) : k \in 1..Len(batch)
      BY <1>3 DEF Cast, WellFormed
    <3>2. \A k \in Cast(batch, c, type) : j = Before + k => k = i
      BY <1>1, <2>2, <3>1
    <3>3. new = {Before + k : k \in Cast(batch, c, type)}
      BY DEF Fed, Before
    <3> HIDE DEF i, new
    <3> QED BY <2>2, <3>2, <3>3
  <2> QED BY <2>4, <2>5
<1>5. old \union new = all /\ old \intersect new = {}
  <2>1. \A j \in Cast(t, c, type) :
          j \in Nat /\ j >= 1 /\ (j <= offset <=> j <= Before \/ j \in (Before + 1)..offset)
    BY <1>1, <1>2
  <2>2. \A j \in new : j \in (Before + 1)..offset /\ ~(j <= Before) /\ j <= offset
    BY <1>1
  <2> HIDE DEF new
  <2> QED BY <1>4, <2>1, <2>2
<1>6. IsFiniteSet(old)
  BY <1>2, FS_Subset
<1> HIDE DEF old, all, new
<1>7. Cardinality(all) = Cardinality(old) + Cardinality(new) - Cardinality({})
  BY <1>1, <1>5, <1>6, FS_Union
<1>8. /\ Cardinality({}) = 0 /\ Cardinality(old) \in Nat /\ Cardinality(new) \in Nat
  BY <1>1, <1>6, FS_EmptySet, FS_CardinalityType
<1> QED BY <1>7, <1>8 DEF old, all, new

LEMMA FeedsOn ==
  ASSUME TypeInv, WholeInv, ReadFirstRecords \/ FeedValuesToAnalyzers, kind[source] = "csv"
  PROVE  Progress(table[source])'
<1>0. PICK t : t = table[source]
  OBVIOUS
<1> DEFINE ts == CalculateDataTypes(types, batch)
<1>1. Feed(ts) /\ pc = "feed"
  BY DEF ReadFirstRecords, FeedValuesToAnalyzers
<1>2. /\ types' = ts /\ chunk' = chunk + 1 /\ batch' = <<>> /\ pc' = "read"
      /\ total' = [c \in Cols |-> total[c] + Cardinality(Fed(c, ts[c]))]
      /\ UNCHANGED <<table, source, offset>>
  BY <1>1 DEF Feed, lake
<1>3. /\ source \in Sources /\ t \in Rows /\ offset \in Nat /\ chunk \in Nat
      /\ ts \in [Cols -> Known]
  BY <1>0, <1>1, TypesFound DEF TypeInv
<1>4. Progress(t)
  BY <1>0, <1>1 DEF WholeInv
<1>5. Len(batch') = 0 /\ Before' = offset
  BY <1>2, <1>3, EmptySeq DEF Before
<1>6. ASSUME NEW c \in Cols
      PROVE  ts[c] = TypeOfValue(Values(Page(t, 0), c))
  <2>1. CASE chunk = 0
    <3>1. batch = Page(t, 0) /\ types[c] = "UNKNOWN"
      BY <1>1, <1>4, <2>1 DEF Progress
    <3> QED BY <3>1 DEF CalculateDataTypes
  <2>2. CASE chunk > 0
    <3>1. types[c] = TypeOfValue(Values(Page(t, 0), c))
      BY <1>4, <2>2 DEF Progress, Counted
    <3>2. types[c] # "UNKNOWN"
      BY <3>1, ValueTyped DEF Known
    <3> QED BY <3>1, <3>2 DEF CalculateDataTypes
  <2> QED BY <1>3, <2>1, <2>2
<1> HIDE DEF ts
<1>7. ASSUME NEW c \in Cols
      PROVE  total'[c] = Cardinality({i \in Cast(t, c, ts[c]) : i <= offset})
  <2>1. total'[c] = total[c] + Cardinality(Fed(c, ts[c]))
    BY <1>2
  <2>2. total[c] = Cardinality({i \in Cast(t, c, ts[c]) : i <= Before})
    <3>1. CASE chunk = 0
      <4>1. total[c] = 0 /\ Before = 0
        BY <1>4, <3>1 DEF Progress
      <4>2. \A i \in Cast(t, c, ts[c]) : i \in 1..Len(t) /\ Len(t) \in Nat
        BY <1>3, CastFinite
      <4>3. {i \in Cast(t, c, ts[c]) : i <= Before} = {}
        BY <4>1, <4>2
      <4> QED BY <4>1, <4>3, FS_EmptySet
    <3>2. CASE chunk > 0
      BY <1>4, <1>6, <3>2 DEF Progress, Counted
    <3> QED BY <1>3, <3>1, <3>2
  <2>3. /\ offset <= Len(t)
        /\ \A i \in 1..Len(batch) : batch[i] = t[Before + i]
    BY <1>1, <1>4 DEF Progress
  <2> QED BY <1>3, <2>1, <2>2, <2>3, CountsOn
<1>8. \A c \in Cols : Counted(t, c)'
  BY <1>2, <1>5, <1>6, <1>7 DEF Counted
<1>9. Progress(t)'
  BY <1>2, <1>3, <1>4, <1>5, <1>8 DEF Progress
<1> QED BY <1>0, <1>2, <1>9 DEF Progress, Counted, Before

LEMMA WholeStep == Invariant /\ TypeInv /\ WholeInv /\ [Next]_vars => WholeInv'
<1> SUFFICES ASSUME Invariant, TypeInv, WholeInv, [Next]_vars PROVE WholeInv'
  OBVIOUS
<1> USE DEF lake, job, bulk
<1>0. Everywhere \subseteq Documents
  BY DEF TypeInv
<1>1. ASSUME UNCHANGED <<lake, pc, reading>>, run' = run,
             Everywhere' \subseteq Everywhere
      PROVE  WholeInv'
  <2>1. (pc' \in {"read", "feed", "store"} /\ kind'[source'] = "csv") => Progress(table[source])'
    BY <1>1 DEF WholeInv, Progress, Counted, Before, reading
  <2> QED BY <1>0, <1>1, <2>1, WholeFrame
\* The worker is not at a file.
<1>2. ASSUME run' = run, kind' = kind,
             \A s \in Sources : kind[s] = "csv" => table'[s] = table[s],
             Everywhere' \subseteq Everywhere,
             pc' \notin {"read", "feed", "store"} \/ kind'[source'] # "csv"
      PROVE  WholeInv'
  BY <1>0, <1>2, WholeFrame
<1>3. CASE UNCHANGED vars
  BY <1>1, <1>3 DEF vars, Everywhere
<1>4. CASE PullTask
  <2>1. PICK s \in pending : LocalsFor(s)
    BY <1>4 DEF PullTask
  <2>2. /\ pc' = "read" /\ source' = s /\ s \in Sources /\ run' = run
        /\ kind' = kind /\ table' = table
        /\ Everywhere' = Everywhere
    BY <1>4, <2>1 DEF PullTask, LocalsFor, TypeInv, Everywhere
  <2>3. PICK t \in Rows : t = table[s]
    BY <2>2 DEF TypeInv
  <2>4. Progress(t)'
    BY <2>1, <2>2, Begins
  <2>5. Progress(table[source])'
    BY <2>2, <2>3, <2>4 DEF Progress, Counted, Before
  <2> QED BY <1>0, <2>2, <2>5, WholeFrame
<1>5. CASE ReadRows
  <2>1. /\ source' = source /\ kind' = kind /\ table' = table /\ run' = run
        /\ Everywhere' = Everywhere /\ pc' \in {"feed", "store", "failed"}
    BY <1>5 DEF ReadRows, NoMoreRows, Everywhere
  <2>2. (pc' \in {"read", "feed", "store"} /\ kind'[source'] = "csv") => Progress(table[source])'
    BY <1>5, <2>1, ReadsOn
  <2> QED BY <1>0, <2>1, <2>2, WholeFrame
<1>6. CASE QueryFails
  BY <1>2, <1>6 DEF QueryFails, NoMoreRows, Everywhere
<1>7. CASE ReadThrows \/ TaskFails \/ NotifyProcessedTask
  BY <1>2, <1>7 DEF ReadThrows, TaskFails, NotifyProcessedTask, Everywhere
<1>8. CASE ReadFirstRecords \/ FeedValuesToAnalyzers
  <2> DEFINE ts == CalculateDataTypes(types, batch)
  <2>1. /\ source' = source /\ kind' = kind /\ table' = table /\ run' = run
        /\ Everywhere' = Everywhere \union IndexData(ts)
    BY <1>8 DEF ReadFirstRecords, FeedValuesToAnalyzers, Feed, Everywhere
  <2>2. \A d \in IndexData(ts) : d.kind = "text"
    BY DEF IndexData, TextDoc
  <2>3. (pc' \in {"read", "feed", "store"} /\ kind'[source'] = "csv") => Progress(table[source])'
    BY <1>8, <2>1, FeedsOn
  <2> HIDE DEF ts
  <2> QED BY <1>0, <2>1, <2>2, <2>3, WholeFrame
<1>9. CASE StoreDocument
  <2>1. PICK c \in results : buffer' = buffer \union {ProfileDoc(c)}
    BY <1>9 DEF StoreDocument
  <2>2. /\ pc = "store" /\ c \in Cols
        /\ UNCHANGED <<kind, table, run, pc, source, offset, chunk, batch, types,
                       total, inflight, index, unsent, disturbed>>
    BY <1>9 DEF StoreDocument, TypeInv
  <2>3. Everywhere' = Everywhere \union {ProfileDoc(c)}
    BY <2>1, <2>2 DEF Everywhere
  <2>4. ASSUME kind[source] = "csv"
        PROVE  LET t == table[source]
                   type == TypeOfValue(Values(Page(t, 0), c))
               IN  types[c] = type /\ total[c] = Cardinality(Cast(t, c, type))
    <3>1. /\ source \in Sources /\ chunk > 0 /\ table[source] \in Rows
          /\ offset \in Nat
      BY <2>2 DEF TypeInv
    <3>2. Progress(table[source])
      BY <2>2, <2>4 DEF WholeInv
    <3>3. Counted(table[source], c) /\ offset = Len(table[source]) /\ batch = <<>>
      BY <2>2, <3>1, <3>2 DEF Progress
    <3>4. Before = Len(table[source])
      BY <3>1, <3>3, EmptySeq DEF Before
    <3>5. \A type : \A i \in Cast(table[source], c, type) : i <= Before
      <4>1. \A type : Cast(table[source], c, type) \subseteq 1..Len(table[source])
        BY <3>1, CastFinite
      <4>2. Len(table[source]) \in Nat
        BY <3>1, <3>3
      <4> QED BY <3>4, <4>1, <4>2
    <3>6. {i \in Cast(table[source], c, types[c]) : i <= Before}
            = Cast(table[source], c, types[c])
      BY <3>5
    <3> QED BY <3>3, <3>6 DEF Counted
  <2>5. WholeColumnProfiled'
    <3>1. \A p \in ProfilesIn(Everywhere') : p \in ProfilesIn(Everywhere) \/ p = ProfileDoc(c)
      BY <2>3 DEF ProfilesIn
    <3>2. /\ ProfileDoc(c).source = source /\ ProfileDoc(c).column = c
          /\ ProfileDoc(c).type = types[c] /\ ProfileDoc(c).values = total[c]
      BY DEF ProfileDoc
    <3>3. ASSUME NEW p \in ProfilesIn(Everywhere'), p.run = run,
                 kind[p.source] = "csv"
          PROVE  LET t == table[p.source]
                     type == TypeOfValue(Values(Page(t, 0), p.column))
                 IN  p.type = type /\ p.values = Cardinality(Cast(t, p.column, type))
      <4>1. CASE p \in ProfilesIn(Everywhere)
        BY <3>3, <4>1 DEF WholeInv, WholeColumnProfiled
      <4>2. CASE p = ProfileDoc(c)
        BY <2>4, <3>2, <3>3, <4>2
      <4> QED BY <3>1, <4>1, <4>2
    <3> QED BY <2>2, <3>3 DEF WholeColumnProfiled, ProfilesIn
  <2>6. kind'[source'] = "csv" => Progress(table[source])'
    BY <2>2 DEF WholeInv, Progress, Counted, Before
  <2> QED BY <2>5, <2>6 DEF WholeInv
<1>10. CASE TearDownStore \/ ProcessExits \/ ProcessDies
  <2>1. Everywhere' \subseteq Everywhere /\ run' = run
    BY <1>10, Settles DEF Settling
  <2> QED BY <1>2, <1>10, <2>1 DEF TearDownStore, ProcessExits, ProcessDies, Exit
<1>11. CASE Flush \/ StoreApplies \/ AfterBulk
  <2>1. Everywhere' \subseteq Everywhere /\ run' = run
    BY <1>11, Settles DEF Settling
  <2> QED BY <1>1, <1>11, <2>1 DEF Flush, StoreApplies, AfterBulk
<1>12. CASE RunAgain
  <2>1. Everywhere' \subseteq Everywhere /\ run' = run + 1 /\ pc' = "idle"
    BY <1>12 DEF RunAgain, Everywhere
  <2>2. \A p \in ProfilesIn(Everywhere') : p.run # run'
    BY <2>1 DEF Invariant, Runs, Places, ProfilesIn
  <2>3. WholeColumnProfiled'
    BY <2>2 DEF WholeColumnProfiled, ProfilesIn
  <2> QED BY <2>1, <2>3 DEF WholeInv
<1>13. CASE RowDeleted
  <2>1. /\ kind[source] # "csv" /\ source' = source
        /\ \E i \in DOMAIN table[source] :
             table' = [table EXCEPT ![source] = RemoveAt(@, i)]
        /\ run' = run /\ kind' = kind /\ Everywhere' = Everywhere
    BY <1>13 DEF RowDeleted, reading, Everywhere
  <2>2. \A s \in Sources : kind[s] = "csv" => table'[s] = table[s]
    BY <2>1 DEF TypeInv
  <2> QED BY <1>2, <2>1, <2>2
<1> QED BY <1>3, <1>4, <1>5, <1>6, <1>7, <1>8, <1>9, <1>10, <1>11, <1>12, <1>13
        DEF Next, Worker

\* A profile of a file, read in chunks of any size, has the type of the first
\* chunk and counts each well-formed row of the whole column once that this
\* type can hold (FileConnector.java 104-115, PreAnalyzer.java 67-128,
\* Worker.java 104-137).
THEOREM ColumnsAreProfiledWhole == Spec => []WholeColumnProfiled
<1>1. WholeInv => WholeColumnProfiled
  BY DEF WholeInv
<1> QED BY <1>1, InvariantInit, InvariantNext, TypeInit, TypeStep, WholeInit, WholeStep,
           PTL DEF Spec

-----------------------------------------------------------------------------
(* The size of a table is counted *)

\* A table that nobody disturbed in this job.
Steady(s) == s \notin disturbed /\ kind[s] = "postgres"

\* A table has rows of one width.
Regular ==
  \A s \in Sources : kind[s] # "csv" =>
    \A i \in DOMAIN table[s] : Len(table[s][i]) = Columns

\* How far the analyzers are with a table of n rows.
Sized(n) ==
  /\ offset <= n /\ (pc = "store" => offset = n)
  /\ pc # "feed" => batch = <<>>
  /\ \A i \in DOMAIN batch : Len(batch[i]) = Columns
  /\ \A c \in Cols :
       /\ total[c] <= Before
       /\ types[c] \in {"UNKNOWN", "STRING"} => total[c] = Before

SizeInv ==
  /\ Regular
  /\ (pc \in {"read", "feed", "store"} /\ Steady(source)) => Sized(Len(table[source]))
  /\ TableSizeCounted

\* A step that makes no profile and leaves the tables alone.
LEMMA SizeFrame ==
  ASSUME SizeInv, UNCHANGED <<run, kind, table>>, disturbed \subseteq disturbed',
         \A d \in Everywhere' : d \in Everywhere \/ d.kind = "text",
         (pc' \in {"read", "feed", "store"} /\ Steady(source)') => Sized(Len(table[source]))'
  PROVE  SizeInv'
<1>1. Regular'
  BY DEF SizeInv, Regular
<1>2. \A p \in ProfilesIn(Everywhere') : p \in ProfilesIn(Everywhere)
  BY DEF ProfilesIn
<1>3. TableSizeCounted'
  BY <1>2 DEF SizeInv, TableSizeCounted, ProfilesIn
<1> QED BY <1>1, <1>3 DEF SizeInv

LEMMA SizeInit == Init => SizeInv
<1> SUFFICES ASSUME Init PROVE SizeInv
  OBVIOUS
<1>1. Regular
  BY DEF Init, Regular, WellFormed
<1>2. TableSizeCounted
  BY DEF Init, TableSizeCounted, ProfilesIn, Everywhere
<1> QED BY <1>1, <1>2 DEF Init, SizeInv

\* A task begins with nothing read.
LEMMA BeginsSized ==
  ASSUME NEW s, LocalsFor(s), NEW n \in Nat, pc' = "read"
  PROVE  Sized(n)'
<1>1. /\ offset' = 0 /\ batch' = <<>> /\ Len(batch') = 0 /\ DOMAIN batch' = {}
      /\ \A c \in Cols : total'[c] = 0
  BY EmptySeq DEF LocalsFor
<1>2. Before' = 0
  <2>1. offset' = 0 /\ Len(batch') = 0
    BY <1>1
  <2> QED BY <2>1 DEF Before
<1>3. offset' <= n /\ pc' # "store"
  BY <1>1
<1> QED BY <1>1, <1>2, <1>3 DEF Sized

\* A page has the size it should have, whichever its rows are.
LEMMA ReadsSized ==
  ASSUME TypeInv, SizeInv, ReadRows, Steady(source)
  PROVE  pc' \in {"feed", "store"} => Sized(Len(table[source]))'
<1>0. PICK t : t = table[source]
  OBVIOUS
<1>1. /\ pc = "read" /\ source \in Sources /\ t \in Rows /\ offset \in Nat
      /\ Len(t) \in Nat
      /\ UNCHANGED <<kind, table, source, chunk, types, total>>
  BY <1>0, LenProperties DEF ReadRows, NoMoreRows, TypeInv, lake, Rows
<1>2. Sized(Len(t)) /\ batch = <<>> /\ Len(batch) = 0 /\ DOMAIN batch = {}
  BY <1>0, <1>1, EmptySeq DEF SizeInv, Sized
<1>3. PICK rows \in AnyRows(t, PageSize(t, offset)) :
        IF rows = <<>> THEN NoMoreRows
        ELSE /\ batch' = rows /\ offset' = offset + Len(rows) /\ pc' = "feed"
             /\ UNCHANGED <<source, chunk, types, total, results>>
  <2>1. NextRows(kind[source], table[source], offset) = AnyRows(t, PageSize(t, offset))
    BY <1>0 DEF NextRows, Steady
  <2> QED BY <2>1 DEF ReadRows
<1>4. /\ offset + PageSize(t, offset) <= Len(t) /\ PageSize(t, offset) \in Nat
      /\ PageSize(t, offset) = 0 => offset = Len(t)
  <2>1. offset <= Len(t)
    BY <1>2 DEF Sized
  <2>2. t \in Rows /\ offset \in Nat
    BY <1>1
  <2> QED BY <2>1, <2>2, PageSizes
<1>5. /\ rows \in Rows /\ Len(rows) = PageSize(t, offset)
      /\ \A i \in DOMAIN rows : \E j \in DOMAIN t : rows[i] = t[j]
  <2>1. /\ rows \in Rows /\ Len(rows) = PageSize(t, offset)
        /\ \A i \in 1..PageSize(t, offset) : \E j \in DOMAIN t : rows[i] = t[j]
    BY <1>1, <1>4, RowsOfTable
  <2>2. DOMAIN rows = 1..Len(rows)
    BY <2>1, LenProperties DEF Rows
  <2> QED BY <2>1, <2>2
<1>6. Before = offset
  BY <1>1, <1>2 DEF Before
<1>7. CASE rows = <<>>
  <2>1. UNCHANGED <<offset, batch>> /\ pc' \in {"failed", "store"}
    BY <1>3, <1>7 DEF NoMoreRows
  <2>2. Before' = Before /\ offset = Len(t)
    BY <1>4, <1>5, <1>7, <2>1, EmptySeq DEF Before
  <2>3. Sized(Len(t))'
    BY <1>1, <1>2, <2>1, <2>2 DEF Sized
  <2> QED BY <1>0, <1>1, <2>3 DEF Sized, Before
<1>8. CASE rows # <<>>
  <2>1. batch' = rows /\ offset' = offset + Len(rows) /\ pc' = "feed"
    BY <1>3, <1>8
  <2>2. Before' = Before /\ offset' <= Len(t)
    BY <1>1, <1>4, <1>5, <1>6, <2>1 DEF Before
  <2>3. \A i \in DOMAIN rows : Len(rows[i]) = Columns
    BY <1>0, <1>1, <1>5 DEF SizeInv, Regular, Steady
  <2>4. Sized(Len(t))'
    BY <1>1, <1>2, <2>1, <2>2, <2>3 DEF Sized
  <2> QED BY <1>0, <1>1, <2>4 DEF Sized, Before
<1> QED BY <1>7, <1>8

\* A chunk adds no more values than it has rows, and as many to text.
LEMMA FedSize ==
  ASSUME TypeInv, NEW c \in Cols, NEW type,
         \A i \in DOMAIN batch : Len(batch[i]) = Columns
  PROVE  /\ Cardinality(Fed(c, type)) <= Len(batch)
         /\ type = "STRING" => Cardinality(Fed(c, type)) = Len(batch)
<1>1. /\ offset \in Nat /\ Len(batch) \in Nat /\ Before \in Nat
      /\ offset = Before + Len(batch)
      /\ Fed(c, type) \subseteq (Before + 1)..offset
  BY FedRows DEF Before
<1>2. /\ IsFiniteSet((Before + 1)..offset)
      /\ Cardinality((Before + 1)..offset) = Len(batch)
  <2>1. Before + 1 \in Int /\ offset \in Int
    BY <1>1
  <2>2. /\ IsFiniteSet((Before + 1)..offset)
        /\ Cardinality((Before + 1)..offset) =
             IF Before + 1 > offset THEN 0 ELSE offset - (Before + 1) + 1
    BY <2>1, FS_Interval
  <2> QED BY <1>1, <2>2
<1>3. Cardinality(Fed(c, type)) <= Len(batch)
  BY <1>1, <1>2, FS_Subset
<1>4. ASSUME type = "STRING" PROVE Fed(c, type) = (Before + 1)..offset
  <2>1. DOMAIN batch = 1..Len(batch) /\ \A i \in 1..Len(batch) : batch[i] \in Seq(Cells)
    BY CastFinite, ElementOfSeq DEF TypeInv, Rows
  <2>2. ASSUME NEW i \in 1..Len(batch) PROVE i \in Cast(batch, c, type)
    <3>1. Len(batch[i]) = Columns /\ batch[i] \in Seq(Cells)
      BY <2>1, <2>2
    <3>2. batch[i][c] \in Cells
      BY <3>1, ElementOfSeq DEF Cols
    <3>3. Castable(type) = Cells
      BY <1>4 DEF Castable
    <3> QED BY <2>1, <3>1, <3>2, <3>3 DEF Cast, WellFormed
  <2>3. Fed(c, type) = {Before + i : i \in Cast(batch, c, type)}
    BY DEF Fed, Before
  <2>4. ASSUME NEW j \in (Before + 1)..offset PROVE j \in Fed(c, type)
    <3>1. j - Before \in 1..Len(batch) /\ j = Before + (j - Before)
      BY <1>1
    <3>2. j - Before \in Cast(batch, c, type)
      BY <2>2, <3>1
    <3> QED BY <2>3, <3>1, <3>2
  <2> QED BY <1>1, <2>4
<1> QED BY <1>2, <1>3, <1>4

LEMMA FeedsSized ==
  ASSUME TypeInv, SizeInv, ReadFirstRecords \/ FeedValuesToAnalyzers, Steady(source)
  PROVE  Sized(Len(table[source]))'
<1>0. PICK n : n = Len(table[source])
  OBVIOUS
<1> DEFINE ts == CalculateDataTypes(types, batch)
<1>1. Feed(ts) /\ pc = "feed"
  BY DEF ReadFirstRecords, FeedValuesToAnalyzers
<1>2. \A c \in Cols : ts[c] = "STRING" => types[c] \in {"UNKNOWN", "STRING"}
  BY DEF CalculateDataTypes
<1>3. ts \in [Cols -> Known]
  BY TypesFound DEF TypeInv
<1> HIDE DEF ts
<1>4. /\ types' = ts /\ batch' = <<>> /\ pc' = "read"
      /\ total' = [c \in Cols |-> total[c] + Cardinality(Fed(c, ts[c]))]
      /\ UNCHANGED <<table, source, offset>>
  BY <1>1 DEF Feed, lake
<1>5. Sized(n)
  BY <1>0, <1>1 DEF SizeInv
<1>6. /\ Before \in Nat /\ Len(batch) \in Nat /\ offset = Before + Len(batch)
  BY FedRows DEF Before
<1>7. DOMAIN batch' = {} /\ Before' = offset
  <2>1. Len(batch') = 0 /\ DOMAIN batch' = {} /\ offset' = offset
    BY <1>4, EmptySeq
  <2> QED BY <1>6, <2>1 DEF Before
<1>8. ASSUME NEW c \in Cols
      PROVE  /\ total'[c] <= Before'
             /\ types'[c] \in {"UNKNOWN", "STRING"} => total'[c] = Before'
  <2>1. total'[c] = total[c] + Cardinality(Fed(c, ts[c])) /\ types'[c] = ts[c]
    BY <1>4
  <2>2. /\ Cardinality(Fed(c, ts[c])) <= Len(batch)
        /\ ts[c] = "STRING" => Cardinality(Fed(c, ts[c])) = Len(batch)
    BY <1>5, FedSize DEF Sized
  <2>3. /\ total[c] <= Before /\ total[c] \in Nat /\ Cardinality(Fed(c, ts[c])) \in Nat
        /\ ts[c] = "STRING" => total[c] = Before
    BY <1>2, <1>5, FedRows DEF Sized, TypeInv
  <2>4. ts[c] # "UNKNOWN"
    BY <1>3 DEF Known
  <2> QED BY <1>6, <1>7, <2>1, <2>2, <2>3, <2>4
<1>9. Sized(n)'
  BY <1>4, <1>5, <1>7, <1>8 DEF Sized
<1> QED BY <1>0, <1>4, <1>9 DEF Sized, Before

LEMMA SizeStep == Invariant /\ TypeInv /\ SizeInv /\ [Next]_vars => SizeInv'
<1> SUFFICES ASSUME Invariant, TypeInv, SizeInv, [Next]_vars PROVE SizeInv'
  OBVIOUS
<1> USE DEF lake, job, bulk
<1>1. ASSUME UNCHANGED <<lake, pc, reading>>, run' = run, disturbed' = disturbed,
             Everywhere' \subseteq Everywhere
      PROVE  SizeInv'
  <2>1. (pc' \in {"read", "feed", "store"} /\ Steady(source)') => Sized(Len(table[source]))'
    BY <1>1 DEF SizeInv, Steady, Sized, Before, reading
  <2> QED BY <1>1, <2>1, SizeFrame
\* The worker is not at a table, or at one that is disturbed.
<1>2. ASSUME UNCHANGED <<run, kind, table>>, disturbed \subseteq disturbed',
             Everywhere' \subseteq Everywhere,
             pc' \notin {"read", "feed", "store"} \/ ~ Steady(source)'
      PROVE  SizeInv'
  BY <1>2, SizeFrame
<1>3. CASE UNCHANGED vars
  BY <1>1, <1>3 DEF vars, Everywhere
<1>4. CASE PullTask
  <2>1. PICK s \in pending : LocalsFor(s)
    BY <1>4 DEF PullTask
  <2>2. /\ pc' = "read" /\ source' = s /\ s \in Sources
        /\ UNCHANGED <<run, kind, table, disturbed>> /\ Everywhere' = Everywhere
    BY <1>4, <2>1 DEF PullTask, LocalsFor, TypeInv, Everywhere
  <2>3. PICK n \in Nat : n = Len(table[s])
    BY <2>2, LenProperties DEF TypeInv, Rows
  <2>4. Sized(n)'
    BY <2>1, <2>2, BeginsSized
  <2>5. Sized(Len(table[source]))'
    BY <2>2, <2>3, <2>4 DEF Sized, Before
  <2> QED BY <2>2, <2>5, SizeFrame
<1>5. CASE ReadRows
  <2>1. /\ UNCHANGED <<run, kind, table, source, disturbed>> /\ Everywhere' = Everywhere
        /\ pc' \in {"feed", "store", "failed"}
    BY <1>5 DEF ReadRows, NoMoreRows, Everywhere
  <2>2. (pc' \in {"read", "feed", "store"} /\ Steady(source)') => Sized(Len(table[source]))'
    BY <1>5, <2>1, ReadsSized DEF Steady
  <2> QED BY <2>1, <2>2, SizeFrame
<1>6. CASE QueryFails
  BY <1>2, <1>6 DEF QueryFails, NoMoreRows, Steady, Everywhere
<1>7. CASE ReadThrows \/ TaskFails \/ NotifyProcessedTask
  BY <1>2, <1>7 DEF ReadThrows, TaskFails, NotifyProcessedTask, Everywhere
<1>8. CASE ReadFirstRecords \/ FeedValuesToAnalyzers
  <2> DEFINE ts == CalculateDataTypes(types, batch)
  <2>1. /\ UNCHANGED <<run, kind, table, source, disturbed>>
        /\ Everywhere' = Everywhere \union IndexData(ts)
    BY <1>8 DEF ReadFirstRecords, FeedValuesToAnalyzers, Feed, Everywhere
  <2>2. \A d \in IndexData(ts) : d.kind = "text"
    BY DEF IndexData, TextDoc
  <2>3. (pc' \in {"read", "feed", "store"} /\ Steady(source)') => Sized(Len(table[source]))'
    BY <1>8, <2>1, FeedsSized DEF Steady
  <2> HIDE DEF ts
  <2> QED BY <2>1, <2>2, <2>3, SizeFrame
<1>9. CASE StoreDocument
  <2>1. PICK c \in results : buffer' = buffer \union {ProfileDoc(c)}
    BY <1>9 DEF StoreDocument
  <2>2. /\ pc = "store" /\ c \in Cols
        /\ UNCHANGED <<run, kind, table, pc, source, offset, batch, types, total,
                       inflight, index, unsent, disturbed>>
    BY <1>9 DEF StoreDocument, TypeInv
  <2>3. Everywhere' = Everywhere \union {ProfileDoc(c)}
    BY <2>1, <2>2 DEF Everywhere
  <2>4. ASSUME Steady(source)
        PROVE  LET n == Len(table[source])
               IN  IF types[c] = "STRING" THEN total[c] = n ELSE total[c] <= n
    <3>1. Sized(Len(table[source])) /\ offset \in Nat
      BY <2>2, <2>4 DEF SizeInv, TypeInv
    <3>2. batch = <<>> /\ offset = Len(table[source])
      BY <2>2, <3>1 DEF Sized
    <3>3. Before = Len(table[source])
      BY <3>1, <3>2, EmptySeq DEF Before
    <3> QED BY <2>2, <3>1, <3>3 DEF Sized
  <2>5. TableSizeCounted'
    <3>1. \A p \in ProfilesIn(Everywhere') : p \in ProfilesIn(Everywhere) \/ p = ProfileDoc(c)
      BY <2>3 DEF ProfilesIn
    <3>2. /\ ProfileDoc(c).source = source /\ ProfileDoc(c).type = types[c]
          /\ ProfileDoc(c).values = total[c]
      BY DEF ProfileDoc
    <3>3. ASSUME NEW p \in ProfilesIn(Everywhere'), p.run = run, Steady(p.source)
          PROVE  LET n == Len(table[p.source])
                 IN  IF p.type = "STRING" THEN p.values = n ELSE p.values <= n
      <4>1. CASE p \in ProfilesIn(Everywhere)
        BY <3>3, <4>1 DEF SizeInv, TableSizeCounted, Steady
      <4>2. CASE p = ProfileDoc(c)
        BY <2>4, <3>2, <3>3, <4>2
      <4> QED BY <3>1, <4>1, <4>2
    <3> QED BY <2>2, <3>3 DEF TableSizeCounted, ProfilesIn, Steady
  <2>6. Regular' /\ (Steady(source)' => Sized(Len(table[source]))')
    BY <2>2 DEF SizeInv, Steady, Sized, Before, Regular
  <2> QED BY <2>5, <2>6 DEF SizeInv
<1>10. CASE TearDownStore \/ ProcessExits \/ ProcessDies
  <2>1. Everywhere' \subseteq Everywhere /\ run' = run
    BY <1>10, Settles DEF Settling
  <2> QED BY <1>2, <1>10, <2>1 DEF TearDownStore, ProcessExits, ProcessDies, Exit
<1>11. CASE Flush \/ StoreApplies \/ AfterBulk
  <2>1. Everywhere' \subseteq Everywhere /\ run' = run
    BY <1>11, Settles DEF Settling
  <2> QED BY <1>1, <1>11, <2>1 DEF Flush, StoreApplies, AfterBulk
<1>12. CASE RunAgain
  <2>1. /\ Everywhere' \subseteq Everywhere /\ run' = run + 1 /\ pc' = "idle"
        /\ UNCHANGED <<kind, table>>
    BY <1>12 DEF RunAgain, Everywhere
  <2>2. \A p \in ProfilesIn(Everywhere') : p.run # run'
    BY <2>1 DEF Invariant, Runs, Places, ProfilesIn
  <2>3. TableSizeCounted' /\ Regular'
    BY <2>1, <2>2 DEF TableSizeCounted, ProfilesIn, SizeInv, Regular
  <2> QED BY <2>1, <2>3 DEF SizeInv
<1>13. CASE RowDeleted
  <2>1. /\ pc = "read" /\ source' = source /\ source \in Sources
        /\ disturbed' = disturbed \union {source}
        /\ run' = run /\ kind' = kind /\ Everywhere' = Everywhere
        /\ table \in [Sources -> Rows]
    BY <1>13 DEF RowDeleted, reading, Everywhere, TypeInv
  <2>2. PICK i \in DOMAIN table[source] :
          table' = [table EXCEPT ![source] = RemoveAt(@, i)]
    BY <1>13 DEF RowDeleted
  <2>3. Regular'
    <3>1. ASSUME NEW s \in Sources, kind[s] # "csv"
          PROVE  \A j \in DOMAIN table'[s] : Len(table'[s][j]) = Columns
      <4>1. CASE s # source
        BY <2>1, <2>2, <3>1, <4>1 DEF SizeInv, Regular
      <4>2. CASE s = source
        <5>1. table'[s] = RemoveAt(table[s], i) /\ table[s] \in Rows
          BY <2>1, <2>2, <4>2
        <5>2. \A j \in DOMAIN table'[s] : \E k \in DOMAIN table[s] : table'[s][j] = table[s][k]
          BY <2>2, <4>2, <5>1, RowGone
        <5> QED BY <3>1, <5>2 DEF SizeInv, Regular
      <4> QED BY <4>1, <4>2
    <3> QED BY <2>1, <3>1 DEF Regular
  <2>4. TableSizeCounted'
    <3>1. \A s : s \notin disturbed' => s \notin disturbed /\ s # source
      BY <2>1
    <3>2. \A s : s # source => table'[s] = table[s]
      BY <2>1, <2>2
    <3> QED BY <2>1, <3>1, <3>2 DEF SizeInv, TableSizeCounted, ProfilesIn
  <2> QED BY <2>1, <2>3, <2>4 DEF SizeInv, Steady
<1> QED BY <1>3, <1>4, <1>5, <1>6, <1>7, <1>8, <1>9, <1>10, <1>11, <1>12, <1>13
        DEF Next, Worker

\* The pages of a PostgreSQL table that nobody disturbs hold as many rows as
\* the table has, although they may repeat one and leave another out: a text
\* column counts that many values, any other column no more
\* (DBConnector.java 97-146, PreAnalyzer.java 67-128, Worker.java 104-137).
THEOREM TableSizesAreCounted == Spec => []TableSizeCounted
<1>1. SizeInv => TableSizeCounted
  BY DEF SizeInv
<1> QED BY <1>1, InvariantInit, InvariantNext, TypeInit, TypeStep, SizeInit, SizeStep,
           PTL DEF Spec

-----------------------------------------------------------------------------
(* The text documents and the profile of a column agree *)

Texts(s, c) ==
  {d \in Everywhere : d.kind = "text" /\ d.run = run /\ d.source = s /\ d.column = c}

RowsOf(docs) == UNION {d.rows : d \in docs}

Agreeing(docs, type, n) ==
  /\ \A d, e \in docs : d # e => d.rows \intersect e.rows = {}
  /\ Cardinality(RowsOf(docs)) = IF type = "STRING" THEN n ELSE 0

Matched ==
  \A p \in ProfilesIn(Everywhere) :
    p.run = run => Agreeing(Texts(p.source, p.column), p.type, p.values)

\* The text of the source that is being read holds what its analyzers have
\* counted so far; of a source that waits for its turn there is none.
TextInv ==
  /\ \A d \in Everywhere : (d.kind = "text" /\ d.run = run) => d.source \notin pending
  /\ pc \in {"read", "feed", "store"} =>
       \A c \in Cols :
         /\ chunk = 0 => Texts(source, c) = {} /\ total[c] = 0
         /\ \A d \in Texts(source, c) : d.rows \subseteq 1..Before
         /\ Agreeing(Texts(source, c), types[c], total[c])
  /\ Matched

LEMMA NoText ==
  ASSUME NEW type
  PROVE  Agreeing({}, type, 0)
<1>1. RowsOf({}) = {}
  BY DEF RowsOf
<1> QED BY <1>1, FS_EmptySet DEF Agreeing

LEMMA TextsOfProfile ==
  ASSUME NEW p, p.run = run
  PROVE  TextOf(p, Everywhere) = Texts(p.source, p.column)
BY DEF TextOf, Texts

LEMMA MatchesAgreeing == Matched => TextMatchesProfile
BY TextsOfProfile DEF Matched, TextMatchesProfile, Agreeing, RowsOf

\* A step that stores nothing anew.
LEMMA TextFrame ==
  ASSUME TextInv, TypeInv, TypeInv', Settling, run' = run, pending' \subseteq pending,
         pc' \in {"read", "feed", "store"} =>
           /\ pc \in {"read", "feed", "store"}
           /\ UNCHANGED <<source, chunk, types, total>>
           /\ Before <= Before'
  PROVE  TextInv'
<1>1. \A s, c : Texts(s, c)' = Texts(s, c)
  BY DEF Settling, Texts
<1>2. Matched'
  <2>1. \A p \in ProfilesIn(Everywhere') : p \in ProfilesIn(Everywhere)
    BY DEF Settling, ProfilesIn
  <2>2. \A p \in ProfilesIn(Everywhere') :
          p.run = run' => Agreeing(Texts(p.source, p.column)', p.type, p.values)
    BY <1>1, <2>1 DEF TextInv, Matched
  <2> QED BY <2>2 DEF Matched, Agreeing, RowsOf, ProfilesIn, Texts
<1>3. ASSUME pc' \in {"read", "feed", "store"}, NEW c \in Cols
      PROVE  /\ chunk' = 0 => Texts(source, c)' = {} /\ total'[c] = 0
             /\ \A d \in Texts(source, c)' : d.rows \subseteq 1..Before'
             /\ Agreeing(Texts(source, c)', types'[c], total'[c])
  <2>1. Texts(source, c)' = Texts(source, c)
    BY <1>1, <1>3 DEF Texts
  <2>2. \A r : r \subseteq 1..Before => r \subseteq 1..Before'
    <3>1. Before \in Int /\ Before' \in Int
      BY LenProperties DEF TypeInv, Before, Rows
    <3> QED BY <1>3, <3>1
  <2> QED BY <1>3, <2>1, <2>2 DEF TextInv
<1>4. \A d \in Everywhere' : (d.kind = "text" /\ d.run = run') => d.source \notin pending'
  BY DEF TextInv, Settling
<1> QED BY <1>2, <1>3, <1>4 DEF TextInv, Agreeing

LEMMA TextInit == Init => TextInv
BY DEF Init, TextInv, Matched, ProfilesIn, Everywhere

LEMMA PullsUnread ==
  ASSUME Invariant, TypeInv, TextInv, PullTask
  PROVE  TextInv'
<1>1. PICK s \in pending : LocalsFor(s) /\ pending' = pending \ {s}
  BY DEF PullTask
<1>2. /\ source' = s /\ chunk' = 0 /\ run' = run /\ Everywhere' = Everywhere
      /\ types' = [c \in Cols |-> "UNKNOWN"] /\ total' = [c \in Cols |-> 0]
  BY <1>1 DEF PullTask, LocalsFor, bulk, job, Everywhere
<1>3. \A r, c : Texts(r, c)' = Texts(r, c)
  BY <1>2 DEF Texts
<1>4. \A c : Texts(s, c) = {}
  BY DEF TextInv, Texts
<1>5. \A c \in Cols : /\ Texts(source, c)' = {}
                      /\ total'[c] = 0 /\ types'[c] = "UNKNOWN"
  BY <1>2, <1>4 DEF Texts
<1>6. Matched'
  BY <1>2 DEF TextInv, Matched, ProfilesIn, Agreeing, RowsOf, Texts
<1>7. \A c \in Cols : Agreeing(Texts(source, c)', types'[c], total'[c])
  BY <1>5, NoText
<1>8. \A d \in Everywhere' : (d.kind = "text" /\ d.run = run') => d.source \notin pending'
  BY <1>1, <1>2 DEF TextInv
<1> QED BY <1>5, <1>6, <1>7, <1>8 DEF TextInv, Agreeing

\* Each chunk adds its values to the text and to the count alike.
LEMMA OneMore ==
  ASSUME NEW docs, NEW n \in Nat, NEW m \in Nat, NEW d, NEW more \in Nat,
         \A e \in docs : e.rows \subseteq 1..m,
         Agreeing(docs, "STRING", n),
         d.rows \subseteq (m + 1)..(m + more)
  PROVE  /\ Agreeing(docs \union {d}, "STRING", n + Cardinality(d.rows))
         /\ \A e \in docs \union {d} : e.rows \subseteq 1..(m + more)
<1>1. RowsOf(docs) \subseteq 1..m /\ IsFiniteSet(1..m) /\ IsFiniteSet((m + 1)..(m + more))
  BY FS_Interval DEF RowsOf
<1>2. IsFiniteSet(RowsOf(docs)) /\ IsFiniteSet(d.rows)
  BY <1>1, FS_Subset
<1>3. RowsOf(docs \union {d}) = RowsOf(docs) \union d.rows
  BY DEF RowsOf
<1>4. RowsOf(docs) \intersect d.rows = {}
  BY <1>1
<1>5. Cardinality(RowsOf(docs \union {d})) = n + Cardinality(d.rows)
  <2>1. Cardinality(RowsOf(docs) \union d.rows) =
          Cardinality(RowsOf(docs)) + Cardinality(d.rows) - Cardinality({})
    BY <1>2, <1>4, FS_Union
  <2>2. Cardinality(RowsOf(docs)) = n /\ Cardinality({}) = 0
    BY FS_EmptySet DEF Agreeing
  <2>3. Cardinality(d.rows) \in Nat
    BY <1>2, FS_CardinalityType
  <2>4. Cardinality(RowsOf(docs) \union d.rows) = n + Cardinality(d.rows) - 0
    BY <2>1, <2>2
  <2>5. n + Cardinality(d.rows) - 0 = n + Cardinality(d.rows)
    BY <2>3
  <2> QED BY <1>3, <2>4, <2>5
<1>6. \A e \in docs : e.rows \intersect d.rows = {}
  BY <1>4 DEF RowsOf
<1>7. \A e, f \in docs \union {d} : e # f => e.rows \intersect f.rows = {}
  BY <1>6 DEF Agreeing
<1>8. \A e \in docs \union {d} : e.rows \subseteq 1..(m + more)
  <2>1. 1..m \subseteq 1..(m + more) /\ (m + 1)..(m + more) \subseteq 1..(m + more)
    OBVIOUS
  <2> QED BY <2>1
<1> QED BY <1>5, <1>7, <1>8 DEF Agreeing

LEMMA FeedsText ==
  ASSUME Invariant, TypeInv, TextInv, ReadFirstRecords \/ FeedValuesToAnalyzers
  PROVE  TextInv'
<1> DEFINE ts == CalculateDataTypes(types, batch)
<1>1. Feed(ts) /\ pc = "feed" /\ buffer' = buffer \union IndexData(ts)
  BY DEF ReadFirstRecords, FeedValuesToAnalyzers
<1>2. /\ types' = ts /\ chunk' = chunk + 1 /\ batch' = <<>> /\ pc' = "read"
      /\ total' = [c \in Cols |-> total[c] + Cardinality(Fed(c, ts[c]))]
      /\ UNCHANGED <<run, pending, source, offset, inflight, index, unsent>>
  BY <1>1 DEF Feed, job
<1>3. chunk \in Nat /\ (chunk > 0 => ts = types)
  BY TypesFound DEF TypeInv
<1> HIDE DEF ts
<1>4. Everywhere' = Everywhere \union IndexData(ts)
  BY <1>1, <1>2 DEF Everywhere
<1>5. \A d \in IndexData(ts) : d.kind = "text" /\ d.run = run /\ d.source = source
  BY DEF IndexData, TextDoc
<1>6. ASSUME NEW c \in Cols
      PROVE  Texts(source, c)' =
               Texts(source, c) \union (IF ts[c] = "STRING" THEN {TextDoc(c, ts)} ELSE {})
  <2>1. \A d : d \in IndexData(ts) /\ d.column = c <=>
                 ts[c] = "STRING" /\ d = TextDoc(c, ts)
    BY DEF IndexData, TextDoc
  <2>2. Texts(source, c)' = Texts(source, c) \union {d \in IndexData(ts) : d.column = c}
    BY <1>2, <1>4, <1>5 DEF Texts
  <2> QED BY <2>1, <2>2
<1>7. /\ Before \in Nat /\ Len(batch) \in Nat /\ offset = Before + Len(batch)
      /\ Before' = offset
  <2>1. /\ offset \in Nat /\ Len(batch) \in Nat /\ offset - Len(batch) \in Nat
    BY FedRows
  <2>2. offset' = offset /\ Len(batch') = 0
    BY <1>2, EmptySeq
  <2> QED BY <2>1, <2>2 DEF Before
<1>8. ASSUME NEW c \in Cols
      PROVE  /\ \A d \in Texts(source, c)' : d.rows \subseteq 1..Before'
             /\ Agreeing(Texts(source, c)', types'[c], total'[c])
  <2> DEFINE docs == Texts(source, c)
  <2>1. /\ \A d \in docs : d.rows \subseteq 1..Before
        /\ Agreeing(docs, types[c], total[c]) /\ total[c] \in Nat
        /\ chunk = 0 => docs = {} /\ total[c] = 0
    BY <1>1 DEF TextInv, TypeInv
  <2>2. types'[c] = ts[c] /\ total'[c] = total[c] + Cardinality(Fed(c, ts[c]))
    BY <1>2
  <2>3. Agreeing(docs, ts[c], total[c])
    BY <1>3, <2>1, NoText
  <2>4. \A r : r \subseteq 1..Before => r \subseteq 1..Before'
    BY <1>7
  <2> HIDE DEF docs
  <2>5. CASE ts[c] = "STRING"
    <3> DEFINE d == TextDoc(c, ts)
    <3>1. d.rows = Fed(c, ts[c])
      BY DEF TextDoc
    <3>2. d.rows \subseteq (Before + 1)..(Before + Len(batch))
      BY <1>7, <3>1, FedRows DEF Before
    <3> HIDE DEF d
    <3>3. Agreeing(docs, "STRING", total[c])
      BY <2>3, <2>5
    <3>4. /\ Agreeing(docs \union {d}, "STRING", total[c] + Cardinality(d.rows))
          /\ \A e \in docs \union {d} : e.rows \subseteq 1..(Before + Len(batch))
      BY <1>7, <2>1, <3>2, <3>3, OneMore
    <3>5. Texts(source, c)' = docs \union {d}
      BY <1>6, <2>5 DEF docs, d
    <3> QED BY <1>7, <2>2, <2>5, <3>1, <3>4, <3>5
  <2>6. CASE ts[c] # "STRING"
    <3>1. Texts(source, c)' = docs
      BY <1>6, <2>6 DEF docs
    <3>2. Agreeing(docs, types'[c], total'[c])
      BY <2>2, <2>3, <2>6 DEF Agreeing
    <3> QED BY <2>1, <2>4, <3>1, <3>2
  <2> QED BY <2>5, <2>6
<1>9. Matched'
  <2>1. \A p \in ProfilesIn(Everywhere') : p \in ProfilesIn(Everywhere)
    BY <1>4, <1>5 DEF ProfilesIn
  <2>2. ASSUME NEW p \in ProfilesIn(Everywhere'), p.run = run'
        PROVE  Agreeing(Texts(p.source, p.column)', p.type, p.values)
    <3>1. p \in ProfilesIn(Everywhere) /\ p.run = run
      BY <1>2, <2>1, <2>2
    <3>2. p.source # source
      BY <1>1, <3>1 DEF Invariant, PulledOnce
    <3>3. Texts(p.source, p.column)' = Texts(p.source, p.column)
      BY <1>2, <1>4, <1>5, <3>2 DEF Texts
    <3> QED BY <3>1, <3>3 DEF TextInv, Matched
  <2> QED BY <2>2 DEF Matched, ProfilesIn, Texts, Agreeing, RowsOf
<1>10. \A d \in Everywhere' : (d.kind = "text" /\ d.run = run') => d.source \notin pending'
  <2>1. source \notin pending
    BY <1>1 DEF Invariant, Places
  <2> QED BY <1>2, <1>4, <1>5, <2>1 DEF TextInv
<1>11. chunk' # 0
  BY <1>2, <1>3
<1> QED BY <1>8, <1>9, <1>10, <1>11 DEF TextInv, Agreeing

LEMMA StoresCount ==
  ASSUME Invariant, TypeInv, TextInv, StoreDocument
  PROVE  TextInv'
<1>1. PICK c \in results : buffer' = buffer \union {ProfileDoc(c)}
  BY DEF StoreDocument
<1>2. /\ pc = "store" /\ c \in Cols
      /\ UNCHANGED <<run, pending, pc, source, offset, chunk, batch, types, total,
                     inflight, index, unsent>>
  BY DEF StoreDocument, job, TypeInv
<1>3. Everywhere' = Everywhere \union {ProfileDoc(c)}
  BY <1>1, <1>2 DEF Everywhere
<1>4. /\ ProfileDoc(c).kind = "profile" /\ ProfileDoc(c).source = source
      /\ ProfileDoc(c).column = c /\ ProfileDoc(c).type = types[c]
      /\ ProfileDoc(c).values = total[c]
  BY DEF ProfileDoc
<1>5. \A s, k : Texts(s, k)' = Texts(s, k)
  BY <1>2, <1>3, <1>4 DEF Texts
<1>6. ASSUME NEW p \in ProfilesIn(Everywhere'), p.run = run'
      PROVE  Agreeing(Texts(p.source, p.column)', p.type, p.values)
  <2>1. p \in ProfilesIn(Everywhere) \/ p = ProfileDoc(c)
    BY <1>3 DEF ProfilesIn
  <2>2. CASE p \in ProfilesIn(Everywhere)
    BY <1>2, <1>5, <1>6, <2>2 DEF TextInv, Matched
  <2>3. CASE p = ProfileDoc(c)
    BY <1>2, <1>4, <1>5, <2>3 DEF TextInv
  <2> QED BY <2>1, <2>2, <2>3
<1>7. Matched'
  BY <1>6 DEF Matched, ProfilesIn, Agreeing, RowsOf, Texts
<1>8. \A k : Texts(source, k)' = Texts(source, k)
  BY <1>2, <1>5 DEF Texts
<1>9. Before' = Before
  BY <1>2 DEF Before
<1>10. \A d \in Everywhere' : (d.kind = "text" /\ d.run = run') => d.source \notin pending'
  BY <1>2, <1>3, <1>4 DEF TextInv
<1> QED BY <1>2, <1>7, <1>8, <1>9, <1>10 DEF TextInv, Agreeing

LEMMA TextStep == Invariant /\ TypeInv /\ TypeInv' /\ TextInv /\ [Next]_vars => TextInv'
<1> SUFFICES ASSUME Invariant, TypeInv, TypeInv', TextInv, [Next]_vars PROVE TextInv'
  OBVIOUS
<1> USE DEF lake, job, bulk
<1>0. Len(batch) \in Nat /\ offset \in Nat
  BY FedRows
<1>1. ASSUME Everywhere' = Everywhere PROVE Settling
  BY <1>1 DEF Settling
<1>2. CASE UNCHANGED vars
  BY <1>0, <1>1, <1>2, TextFrame DEF vars, reading, Everywhere, Before
<1>3. CASE PullTask
  BY <1>3, PullsUnread
<1>4. CASE ReadRows \/ QueryFails
  <2>1. /\ pc = "read" /\ run' = run /\ pending' = pending /\ Everywhere' = Everywhere
        /\ UNCHANGED <<source, chunk, types, total>>
    BY <1>4 DEF ReadRows, QueryFails, NoMoreRows, Everywhere
  <2>2. Before <= Before'
    <3>1. CASE UNCHANGED <<offset, batch>>
      BY <1>0, <3>1 DEF Before
    <3>2. CASE offset' = offset + Len(batch')
      <4>1. Len(batch') \in Nat
        BY LenProperties DEF TypeInv, Rows
      <4> QED BY <1>0, <3>2, <4>1 DEF Before
    <3> QED BY <1>4, <3>1, <3>2 DEF ReadRows, QueryFails, NoMoreRows
  <2> QED BY <1>1, <2>1, <2>2, TextFrame
<1>5. CASE ReadThrows \/ TaskFails \/ NotifyProcessedTask \/ RowDeleted
  <2>1. /\ run' = run /\ pending' = pending /\ Everywhere' = Everywhere
        /\ pc' \notin {"read", "feed", "store"} \/
             (pc = "read" /\ UNCHANGED <<source, chunk, types, total, offset, batch>>)
    BY <1>5 DEF ReadThrows, TaskFails, NotifyProcessedTask, RowDeleted, reading, Everywhere
  <2>2. UNCHANGED <<offset, batch>> => Before <= Before'
    BY <1>0 DEF Before
  <2> QED BY <1>1, <2>1, <2>2, TextFrame
<1>6. CASE ReadFirstRecords \/ FeedValuesToAnalyzers
  BY <1>6, FeedsText
<1>7. CASE StoreDocument
  BY <1>7, StoresCount
<1>8. CASE Flush \/ StoreApplies \/ AfterBulk \/ TearDownStore \/ ProcessExits \/ ProcessDies
  <2>1. Settling /\ run' = run
    BY <1>8, Settles
  <2>2. /\ pending' = pending
        /\ pc' \notin {"read", "feed", "store"} \/
             (pc' = pc /\ UNCHANGED <<source, chunk, types, total, offset, batch>>)
    BY <1>8 DEF Flush, StoreApplies, AfterBulk, TearDownStore, ProcessExits, ProcessDies, Exit, reading
  <2>3. UNCHANGED <<offset, batch>> => Before <= Before'
    BY <1>0 DEF Before
  <2> QED BY <2>1, <2>2, <2>3, TextFrame
<1>9. CASE RunAgain
  <2>1. Everywhere' \subseteq Everywhere /\ run' = run + 1 /\ pc' = "idle"
    BY <1>9 DEF RunAgain, Everywhere
  <2>2. \A d \in Everywhere' : d.run # run'
    BY <2>1 DEF Invariant, Runs, Places
  <2>3. Matched'
    BY <2>2 DEF Matched, ProfilesIn
  <2> QED BY <2>1, <2>2, <2>3 DEF TextInv
<1> QED BY <1>2, <1>3, <1>4, <1>5, <1>6, <1>7, <1>8, <1>9 DEF Next, Worker

\* The values the analyzers count are the values the text documents hold,
\* chunk by chunk, whatever the reading runs into and wherever the documents
\* are (PreAnalyzer.java 67-112, FilterAndBatchDataIndexer.java 58-83,
\* Worker.java 171-210).
THEOREM TextAgreesWithProfile == Spec => []TextMatchesProfile
<1>1. TextInv => TextMatchesProfile
  BY MatchesAgreeing DEF TextInv
<1> QED BY <1>1, InvariantInit, InvariantNext, TypeInit, TypeStep, TextInit, TextStep,
           PTL DEF Spec
=============================================================================
