----------------------------- MODULE CanvasSpine -----------------------------
(***************************************************************************)
(* How a decision record is read: by a person down the page (spine_for)    *)
(* and on the map (reparented, layout), by an agent as text                *)
(* (_render_decisions).  The reading must bear records of any age: before  *)
(* _assert_parent_accepts existed, what followed an answer hung off the    *)
(* question, and losing candidates had branches of their own.  A node is   *)
(* its position in the record.                                             *)
(***************************************************************************)
EXTENDS DecisionRecord, SequencesExt

CONSTANTS
  Heights,      \* heights the cards may have, by id, in units that halve often enough
  RowGap        \* ROW_GAP

ASSUME SpineAssumption == Heights \subseteq [NodeIds -> Nat] /\ RowGap \in Nat

Kids(ns, p) == {i \in DOMAIN ns : ns[i].parent = p}
Roots(ns) == Kids(ns, NoNode)
PlaceOf(ns, id) == SelectInSeq(ns, LAMBDA n : n.id = id)

\* A set as a list: as many are before the k-th as there are places before it.
InOrder(set, Before(_, _)) ==
  [k \in 1..Cardinality(set) |->
     CHOOSE i \in set : Cardinality({j \in set : Before(j, i)}) = k - 1]
Listed(set) == InOrder(set, LAMBDA i, j : i < j)

\* What comes of the members of a list, one after the other.
Each(read, list) == FlattenSeq([k \in DOMAIN list |-> read[list[k]]])

\* The sequence itself; TLC evaluates its elements once and for all.
Tabled(seq) == << >> \o seq

-----------------------------------------------------------------------------
(***************************************************************************)
(* The spine: rows in reading order.  A candidate is its position; the     *)
(* rows that it carries are those of the nodes under it.                   *)
(***************************************************************************)
\* ordered: all but candidates, by time and then by place.
Ordered(ns, set) ==
  InOrder({i \in set : ns[i].kind /= "option"},
          LAMBDA i, j : ns[i].at < ns[j].at \/ (ns[i].at = ns[j].at /\ i < j))

Candidates(ns, set) == Listed({i \in set : ns[i].kind = "option"})

\* The position of a question's answer, 0 when it has none.
Winner(ns, q) == PlaceOf(ns, ns[q].chosen)

\* Mutant: only the winner's branch is walked.
BranchUnder_Nothing(ns, o) == << >>

\* branch_under: what the rows under a candidate begin with.
BranchUnder(ns, o) == Ordered(ns, Kids(ns, ns[o].id))

NoteRow(i) == [node |-> i, row |-> "note", state |-> "", locked |-> FALSE,
               options |-> << >>, rejected |-> << >>]

\* The rows that walk appends of a node ...
RowsOf(ns, closed, i) ==
  LET
    children == Kids(ns, ns[i].id)
    state == QuestionState(ns, i, closed)
    winner == Winner(ns, i)
    inline == IF state = "waiting" THEN Candidates(ns, children) ELSE << >>
    losers == IF state = "waiting" THEN << >> ELSE Candidates(ns, children \ {winner})
    questionRow ==
      [node |-> i, row |-> "question", state |-> state, locked |-> IsLocked(ns, ns[i]),
       options |-> inline, rejected |-> IF winner = 0 THEN losers ELSE << >>]
    chosenRow == [NoteRow(winner) EXCEPT !.row = "chosen", !.rejected = losers]
  IN
  IF ns[i].kind /= "question" THEN <<NoteRow(i)>>
  ELSE IF winner = 0 THEN <<questionRow>> ELSE <<questionRow, chosenRow>>

\* ... and the nodes that it goes on to.
GoesOn(ns, i) ==
  LET after == Ordered(ns, Kids(ns, ns[i].id)) IN
  IF ns[i].kind = "question" /\ Winner(ns, i) /= 0
  THEN BranchUnder(ns, Winner(ns, i)) \o after ELSE after

SpineFor(ns, closed) ==
  LET Walk[i \in DOMAIN ns] == RowsOf(ns, closed, i) \o Each(Walk, GoesOn(ns, i))
  IN Each(Walk, Listed(Roots(ns)))

\* _row_bodies goes through a candidate's rows as well: what is read from a node on.
ReadFrom(ns, closed, read, i) ==
  LET rows == RowsOf(ns, closed, i)
      ReadRow(row) == <<row.node>> \o Each(read, row.options) \o Each(read, row.rejected)
  IN IF ns[i].kind = "option" THEN <<i>> \o Each(read, BranchUnder(ns, i))
     ELSE FlattenSeq([r \in DOMAIN rows |-> ReadRow(rows[r])]) \o Each(read, GoesOn(ns, i))

\* The nodes on the page, from top to bottom.
PageOf(ns, closed) ==
  LET Read[i \in DOMAIN ns] == ReadFrom(ns, closed, Read, i)
  IN Each(Read, Listed(Roots(ns)))

\* _render_decisions: the nodes an agent is told of; of candidates only the names.
NodesTold(rows) ==
  UNION {{rows[k].node} \cup ToSet(rows[k].options) \cup ToSet(rows[k].rejected) :
         k \in DOMAIN rows}

-----------------------------------------------------------------------------
(***************************************************************************)
(* The map: a tree whose edges run from a question over its winner to what *)
(* followed.                                                               *)
(***************************************************************************)
\* reparented.
Reparented(ns) ==
  [i \in DOMAIN ns |->
     LET q == SelectInSeq(ns, LAMBDA n : n.id = ns[i].parent /\ n.kind = "question"
                                         /\ n.chosen /= NoNode)
     IN IF q /= 0 /\ ns[i].kind /= "option" /\ ns[i].id /= ns[q].chosen
        THEN [ns[i] EXCEPT !.parent = ns[q].chosen] ELSE ns[i]]

\* walk: the cards in the order they are come upon, the columns left out.
Walked(ns) ==
  LET Under[i \in DOMAIN ns] == <<i>> \o Each(Under, Listed(Kids(ns, ns[i].id)))
  IN Each(Under, Listed(Roots(ns)))

Leaves(ns, walked) ==
  FlattenSeq([k \in DOMAIN walked |->
    IF Kids(ns, ns[walked[k]].id) = {} THEN <<walked[k]>> ELSE << >>])

\* layout: leaves are stacked in the order of the walk; the top of each.
Stacked(leaves, height) ==
  LET Top[k \in DOMAIN leaves] ==
        IF k = 1 THEN 0 ELSE Top[k - 1] + height[leaves[k - 1]] + RowGap
  IN Tabled(Top)

\* ... and a parent is centred on its children, which are a column to its right.
Centred(ns, height, leaves, top) ==
  LET
    Middle[i \in DOMAIN ns] ==
      LET centres == {Middle[k] : k \in Kids(ns, ns[i].id)} IN
      IF centres = {} THEN top[SelectInSeq(leaves, LAMBDA j : j = i)] + height[i] \div 2
      ELSE (Min(centres) + Max(centres)) \div 2
    Column[i \in DOMAIN ns] ==
      IF ns[i].parent = NoNode THEN 0 ELSE 1 + Column[PlaceOf(ns, ns[i].parent)]
  IN Tabled([i \in DOMAIN ns |-> [column |-> Column[i], y |-> Middle[i] - height[i] \div 2,
                                  h |-> height[i]]])

Placed(ns, height, leaves) == Centred(ns, height, leaves, Stacked(leaves, height))

Floor(card) == card.y + card.h + RowGap

\* The cards of a column from the top down; sort is stable over the walk.
DownTheColumn(at, walked, c) ==
  InOrder({i \in DOMAIN at : at[i].column = c}, LAMBDA i, j :
    \/ at[i].y < at[j].y
    \/ at[i].y = at[j].y /\ SelectInSeq(walked, LAMBDA k : k = i) < SelectInSeq(walked, LAMBDA k : k = j))

\* _push_apart_within_columns puts each card at or below the floor of the one above.
PushedApart(at, walked) ==
  LET
    column == [c \in {at[i].column : i \in DOMAIN at} |-> DownTheColumn(at, walked, c)]
    Above(i) == LET cards == column[at[i].column]
                    k == SelectInSeq(cards, LAMBDA j : j = i)
                IN IF k = 1 THEN 0 ELSE cards[k - 1]
    Pushed[i \in DOMAIN at] ==
      LET above == Above(i) IN
      IF above = 0 THEN at[i]
      ELSE LET floor == Floor(Pushed[above]) IN [at[i] EXCEPT !.y = IF @ < floor THEN floor ELSE @]
  IN Tabled(Pushed)

LaidOut(ns, height, walked) == PushedApart(Placed(ns, height, Leaves(ns, walked)), walked)
Layout(ns, height) == LaidOut(ns, height, Walked(ns))

-----------------------------------------------------------------------------
(***************************************************************************)
(* What a reading owes its record.                                         *)
(***************************************************************************)
\* A record of any age: what held of it before the rules about parents did.
Readable(ns) == UniqueIds(ns) /\ ParentEarlier(ns) /\ AnswerIsCandidate(ns)

AnyAge ==
  /\ nodes \in Records /\ Readable(nodes)
  /\ written \in BOOLEAN /\ clock = 0

AnyAgeSpec == AnyAge /\ [][RecordNext]_record

\* A candidate that is nobody's (its parent is a note or a candidate) and all under it
\* is on no page: ordered passes candidates over.
Astray(ns) ==
  LET Lost[i \in DOMAIN ns] ==
        LET p == PlaceOf(ns, ns[i].parent) IN
        p /= 0 /\ (Lost[p] \/ (ns[i].kind = "option" /\ ns[p].kind /= "question"))
  IN {i \in DOMAIN ns : Lost[i]}

\* Every other node is on the page, once.
EachNodeOnce(ns, closed) ==
  LET page == PageOf(ns, closed) IN
  /\ ToSet(page) = DOMAIN ns \ Astray(ns)
  /\ IsInjective(page)

\* The page and the map tell one story: what the map draws an edge to is read later.
ReadAfterItsParent(ns, closed) ==
  LET page == PageOf(ns, closed)
      map == Reparented(ns)
  IN \A j, k \in DOMAIN page : map[page[k]].parent = ns[page[j]].id => j < k

\* The agent's text leaves out no node of the page as long as no losing candidate
\* has a branch, which today's rules see to.
AgentIsTold(ns, closed) ==
  OnlyWinnersGrow(ns) => NodesTold(SpineFor(ns, closed)) = ToSet(PageOf(ns, closed))

\* All cards are on the map, a column to the right of their parents, no two of a
\* column nearer than the gap.
MapIsReadable(map, at) ==
  \A i, j \in DOMAIN map :
    /\ map[j].parent = map[i].id => at[j].column = at[i].column + 1
    /\ i /= j /\ at[i].column = at[j].column =>
         at[i].y + at[i].h + RowGap <= at[j].y \/ at[j].y + at[j].h + RowGap <= at[i].y

MapDrawn(map, height) == MapIsReadable(map, Layout(map, [i \in DOMAIN map |-> height[map[i].id]]))
CardsApart(ns, height) == MapDrawn(Tabled(Reparented(ns)), height)

\* However a record came to be what it is, all that can be read of it is read once and
\* in order, on the page, on the map and by the agent, and no card hides another
\* (canvas.py:150-262, detail.py:29-82, state.py:149-194).
RecordReadsWhole ==
  /\ EachNodeOnce(nodes, written)
  /\ ReadAfterItsParent(nodes, written)
  /\ AgentIsTold(nodes, written)
  /\ \A height \in Heights : CardsApart(nodes, height)
=============================================================================
