------------------------------- MODULE Export -------------------------------
(***************************************************************************)
(* The export of an org (services/export): collect reads areas, slices,    *)
(* steps and events with one query each, on a board that goes on being     *)
(* written; then the files are made of what was read.  Members, names,     *)
(* ranks, tags and the wording of the files are left out; steps count as   *)
(* done or not.                                                            *)
(***************************************************************************)
EXTENDS Naturals, SequencesExt

CONSTANTS
  AreaIds, SliceIds, BiteIds,
  NoArea,         \* area_id of a slice in the Inbox
  MaxLog,         \* bound on events, the two of the beginning among them
  MaxWrites       \* bound on what is written while an export reads

VARIABLES
  areaRows,       \* Area
  sliceRows,      \* Slice: from the ids that exist to area_id
  biteRows,       \* Bite: from the ids that exist to their slice and status
  log,            \* ActivityEvent
  out,            \* Snapshot, and the query that comes next
  writes,         \* how often the board was written since the export began
  lasting         \* what was there when it began, and still is

evars == <<areaRows, sliceRows, biteRows, log, out, writes, lasting>>

BiteRow == [slice : SliceIds, done : BOOLEAN]
\* created_at is a process's clock: it may tie, and disagree with the order of ids.
LoggedEvent == [id : 1..MaxLog, at : 1..2, on : AreaIds \cup SliceIds \cup BiteIds]

\* Rows of different tables are told apart, whatever their ids.
ASSUME ExportAssumption ==
  /\ NoArea \notin AreaIds /\ MaxLog \in Nat \ {0, 1} /\ MaxWrites \in Nat
  /\ AreaIds \cap SliceIds = {} /\ AreaIds \cap BiteIds = {} /\ SliceIds \cap BiteIds = {}
  /\ LoggedEvent \cap (AreaIds \cup SliceIds \cup BiteIds) = {}
  /\ IsFiniteSet(AreaIds) /\ IsFiniteSet(SliceIds)

\* The queries of collect, and the one after each; then the files are made.
QueryAfter == [areas |-> "slices", slices |-> "bites", bites |-> "activity", activity |-> "made"]

BitesOf(s) == {b \in DOMAIN biteRows : biteRows[b].slice = s}
\* annotate_stage_counts: what stage_of derives the stage from.
Counts(s) == [done |-> Cardinality({b \in BitesOf(s) : biteRows[b].done}),
              total |-> Cardinality(BitesOf(s))]
RowsOfSlices ==
  [s \in DOMAIN sliceRows |-> [area |-> sliceRows[s], counts |-> Counts(s)]]

ExportTypeOK ==
  /\ areaRows \subseteq AreaIds
  /\ DOMAIN sliceRows \subseteq SliceIds /\ Range(sliceRows) \subseteq areaRows \cup {NoArea}
  /\ DOMAIN biteRows \subseteq BiteIds /\ Range(biteRows) \subseteq BiteRow
  /\ \A b \in DOMAIN biteRows : biteRows[b].slice \in DOMAIN sliceRows
  /\ log \subseteq LoggedEvent
  /\ out.query \in DOMAIN QueryAfter \cup {"made"} /\ out.areas \subseteq AreaIds
  /\ DOMAIN out.slices \subseteq SliceIds /\ DOMAIN out.bites \subseteq BiteIds
  /\ out.log \subseteq LoggedEvent /\ writes \in 0..MaxWrites
  /\ lasting \subseteq AreaIds \cup SliceIds \cup BiteIds \cup log

-----------------------------------------------------------------------------
(***************************************************************************)
(* collect.                                                                *)
(***************************************************************************)
Asks(query, snapshot) ==
  /\ out.query = query
  /\ out' = [snapshot EXCEPT !.query = QueryAfter[query]]
  /\ UNCHANGED <<areaRows, sliceRows, biteRows, log, writes, lasting>>

CollectAreas == Asks("areas", [out EXCEPT !.areas = areaRows])
CollectSlices == Asks("slices", [out EXCEPT !.slices = RowsOfSlices])
CollectBites == Asks("bites", [out EXCEPT !.bites = biteRows])
CollectActivity == Asks("activity", [out EXCEPT !.log = log])

\* A list of the set, by a key that no two of its elements share.
Sorted(set, Before(_, _)) ==
  CHOOSE seq \in SetToSeqs(set) : \A i, j \in DOMAIN seq : i < j => Before(seq[i], seq[j])

QueriedLog ==
  Sorted(out.log, LAMBDA e, f : e.at > f.at \/ (e.at = f.at /\ e.id < f.id))

\* slice_of_bite folds the events of a step into its slice.
Concerns(e, s) == e.on = s \/ (e.on \in DOMAIN out.bites /\ out.bites[e.on].slice = s)

\* events.sort(key=created_at): stable over the order of the query.
ActivityOf(s) ==
  LET queried == QueriedLog
      places == Sorted({i \in DOMAIN queried : Concerns(queried[i], s)}, LAMBDA i, j :
                  queried[i].at < queried[j].at \/ (queried[i].at = queried[j].at /\ i < j))
  IN [k \in DOMAIN places |-> queried[places[k]]]

-----------------------------------------------------------------------------
(***************************************************************************)
(* The files.                                                              *)
(***************************************************************************)
InFolder(a) == {s \in DOMAIN out.slices : out.slices[s].area = a}

\* Mutant: the folder of the Inbox holds what has no area.
InboxFolder_Unfiled == InFolder(NoArea)

\* Also what is in an area that the snapshot has not.
InboxFolder == {s \in DOMAIN out.slices : out.slices[s].area \notin out.areas}

\* render_markdown_zip.
Tree == [a \in out.areas \cup {NoArea} |-> IF a = NoArea THEN InboxFolder ELSE InFolder(a)]

\* _readme.
Readme == [areas |-> Cardinality(out.areas), slices |-> Cardinality(DOMAIN out.slices),
           bites |-> Cardinality(DOMAIN out.bites), activity |-> Cardinality(out.log)]

\* _slice_document over the snapshot; rows writes the same of a slice as JSON and CSV.
Document(s) ==
  [area |-> out.slices[s].area, counts |-> out.slices[s].counts,
   steps |-> {<<b, out.bites[b].done>> : b \in {c \in DOMAIN out.bites : out.bites[c].slice = s}},
   thread |-> ActivityOf(s)]

\* What get_slice renders with queries of its own: bite_progress, list_bites, slice_activity.
GetSlice(s) ==
  [area |-> sliceRows[s], counts |-> Counts(s),
   steps |-> {<<b, biteRows[b].done>> : b \in BitesOf(s)},
   thread |-> Sorted({e \in log : e.on \in {s} \cup BitesOf(s)},
                LAMBDA e, f : e.at < f.at \/ (e.at = f.at /\ e.id < f.id))]

-----------------------------------------------------------------------------
(***************************************************************************)
(* What else happens to the board.  A write and its event are two steps,   *)
(* in any order: some handlers commit them apart.                          *)
(***************************************************************************)
Meanwhile(areas, slices, bites, events) ==
  /\ out.query /= "made" /\ writes < MaxWrites
  /\ areaRows' = areas /\ sliceRows' = slices /\ biteRows' = bites /\ log' = events
  /\ writes' = writes + 1
  /\ lasting' = lasting \ ((AreaIds \ areas) \cup (SliceIds \ DOMAIN slices)
                                             \cup (BiteIds \ DOMAIN bites))
  /\ UNCHANGED out

With(f, x, v) == [y \in DOMAIN f \cup {x} |-> IF y = x THEN v ELSE f[y]]
Without(f, x) == [y \in DOMAIN f \ {x} |-> f[y]]

\* An id is not used again, and what was recorded of it may outlive it.
Unused(id) == \A e \in log : e.on /= id

NewArea(a) ==
  /\ a \notin areaRows /\ Unused(a)
  /\ Meanwhile(areaRows \cup {a}, sliceRows, biteRows, log)

\* Slice.area is SET_NULL.
DropArea(a) ==
  /\ a \in areaRows
  /\ Meanwhile(areaRows \ {a},
               [s \in DOMAIN sliceRows |-> IF sliceRows[s] = a THEN NoArea ELSE sliceRows[s]],
               biteRows, log)

NewOrFiled(s, a) ==
  /\ a \in areaRows \cup {NoArea}
  /\ Meanwhile(areaRows, With(sliceRows, s, a), biteRows, log)

NewBite(b, s) ==
  /\ b \notin DOMAIN biteRows /\ Unused(b) /\ s \in DOMAIN sliceRows
  /\ Meanwhile(areaRows, sliceRows, With(biteRows, b, [slice |-> s, done |-> FALSE]), log)

Tick(b) ==
  /\ b \in DOMAIN biteRows
  /\ Meanwhile(areaRows, sliceRows, [biteRows EXCEPT ![b].done = ~@], log)

DropBite(b) ==
  /\ b \in DOMAIN biteRows
  /\ Meanwhile(areaRows, sliceRows, Without(biteRows, b), log)

Log(on, at) ==
  /\ on \in areaRows \cup DOMAIN sliceRows \cup DOMAIN biteRows /\ Cardinality(log) < MaxLog
  /\ Meanwhile(areaRows, sliceRows, biteRows,
               log \cup {[id |-> Cardinality(log) + 1, at |-> at, on |-> on]})

\* An export begins on any board, with what was recorded of its slices and steps.
ExportInit ==
  /\ areaRows \in SUBSET AreaIds
  /\ sliceRows \in UNION {[set -> areaRows \cup {NoArea}] : set \in SUBSET SliceIds}
  /\ biteRows \in UNION {{f \in [set -> BiteRow] : \A b \in set : f[b].slice \in DOMAIN sliceRows} :
                         set \in SUBSET BiteIds}
  /\ \E n \in {0, 2} :
       LET there == DOMAIN sliceRows \cup BiteIds IN
       \E on \in [1..n -> there], at \in [1..n -> 1..2] :
         log = {[id |-> i, at |-> at[i], on |-> on[i]] : i \in 1..n}
  /\ out = [query |-> "areas", areas |-> {}, slices |-> << >>, bites |-> << >>, log |-> {}]
  /\ writes = 0
  /\ lasting = areaRows \cup DOMAIN sliceRows \cup DOMAIN biteRows \cup log

ExportNext ==
  \/ CollectAreas \/ CollectSlices \/ CollectBites \/ CollectActivity
  \/ \E a \in AreaIds : NewArea(a) \/ DropArea(a)
  \/ \E s \in SliceIds, a \in AreaIds \cup {NoArea} : NewOrFiled(s, a)
  \/ \E b \in BiteIds : (\E s \in SliceIds : NewBite(b, s)) \/ Tick(b) \/ DropBite(b)
  \/ \E on \in AreaIds \cup SliceIds \cup BiteIds, at \in 1..2 : Log(on, at)

ExportSpec == ExportInit /\ [][ExportNext]_evars

-----------------------------------------------------------------------------
\* The zip's own count of its slices is right: each is in one folder, its area's if
\* the snapshot has that area.
EachSliceInOneFile ==
  /\ SumFunction([a \in DOMAIN Tree |-> Cardinality(Tree[a])]) = Readme.slices
  /\ \A a \in out.areas : \A s \in Tree[a] : Document(s).area = a

\* What was there from the first query to the last has been read, and each step is in
\* the document of a slice.
LastingIsRead ==
  /\ lasting \cap AreaIds \subseteq out.areas
  /\ lasting \cap SliceIds \subseteq DOMAIN out.slices
  /\ \A b \in lasting \cap BiteIds :
       \E s \in DOMAIN out.slices : \E step \in Document(s).steps : step[1] = b
  /\ lasting \cap log \subseteq out.log

\* ... and each event is in its slice's thread, or its step's slice's.
LastingIsTold ==
  \A e \in lasting \cap log :
    /\ e.on \in SliceIds => e \in ToSet(Document(e.on).thread)
    /\ e.on \in lasting \cap BiteIds => e \in ToSet(Document(out.bites[e.on].slice).thread)

\* Of a board nobody writes, the export says what get_slice says, slice by slice, and
\* no row refers to one that is missing.
RowsAsOnTheBoard ==
  /\ Readme = [areas |-> Cardinality(areaRows), slices |-> Cardinality(DOMAIN sliceRows),
               bites |-> Cardinality(DOMAIN biteRows), activity |-> Cardinality(log)]
  /\ \A s \in DOMAIN sliceRows :
       /\ Document(s).area = GetSlice(s).area /\ Document(s).counts = GetSlice(s).counts
       /\ Document(s).steps = GetSlice(s).steps
  /\ InboxFolder = {s \in DOMAIN sliceRows : sliceRows[s] = NoArea}

\* ... and what happened to the slice in the same order.
ThreadsAsOnTheBoard == \A s \in DOMAIN sliceRows : Document(s).thread = GetSlice(s).thread

\* An export misses nothing, although its queries see the board at different moments
\* (collect.py:30-94, renderers.py:95-203, state.py:247-266).
ExportIsWhole ==
  out.query = "made" =>
    /\ EachSliceInOneFile /\ LastingIsRead /\ LastingIsTold
    /\ writes = 0 => RowsAsOnTheBoard /\ ThreadsAsOnTheBoard
=============================================================================
