----------------------------- MODULE BoardViews -----------------------------
(***************************************************************************)
(* What each screen and each MCP read shows of an org's slices: the Inbox, *)
(* the org's and the areas' boards, the lists behind them, Home, the       *)
(* project state and the slice's own page.  Each is a query of its own     *)
(* (services/state.py, slices.py, web/views/pages.py, slices.py); rows     *)
(* change as modules SliceBoard and Checklist let them.  Ranks and names,  *)
(* the last of the sort keys, are left out.                                *)
(***************************************************************************)
EXTENDS Naturals, FiniteSetsExt, Functions

CONSTANTS
  Slices, Areas,
  Inbox,          \* the area of a slice that has none; "any" is none of them
  Priorities,     \* 1 (most urgent) to 5
  Unranked,       \* the priority of a slice nobody ranked
  Steps,          \* bound on the steps of a slice in each status
  RoadmapLimit,   \* ROADMAP_LIMIT
  BoardLimit      \* Org.shipped_board_limit in "count" mode

ASSUME ViewsAssumption ==
  /\ Inbox \notin Areas /\ "any" \notin Areas \cup {Inbox} /\ IsFiniteSet(Areas)
  /\ Priorities \subseteq Nat /\ Unranked \notin Priorities
  /\ Steps \in Nat /\ RoadmapLimit \in Nat /\ BoardLimit \in Nat

VARIABLES
  rows,       \* Slice: a function from the slices that exist
  archived,   \* areas the site's admin put away
  mode        \* Org.shipped_board_mode

viewvars == <<rows, archived, mode>>

Places == Areas \cup {Inbox}
\* `todo`: steps todo or doing; `fresh`: completed within the days of the board's window.
Row == [area : Places, status : {"open", "shipped", "dropped"}, spec : BOOLEAN,
        todo : 0..Steps, done : 0..Steps, gone : 0..Steps,
        priority : Priorities \cup {Unranked}, fresh : BOOLEAN]

StepStatuses == {"todo", "done", "gone"}

ViewsTypeOK ==
  /\ DOMAIN rows \subseteq Slices /\ rows \in [DOMAIN rows -> Row]
  /\ archived \subseteq Areas /\ mode \in {"count", "days"}

ViewsInit ==
  /\ rows = [s \in {} |-> Inbox]
  /\ archived = {} /\ mode \in {"count", "days"}

-----------------------------------------------------------------------------
(***************************************************************************)
(* How far a slice is.  The counts exist twice: as annotations of a query  *)
(* (annotate_stage_counts) and as queries of one slice (bite_progress).    *)
(***************************************************************************)
All == DOMAIN rows
Under(status) == {s \in All : rows[s].status = status}

\* Mutant: dropped steps count in the total of the annotation.
Annotated_Dropped(s) ==
  [done |-> rows[s].done, total |-> rows[s].todo + rows[s].done + rows[s].gone]

Annotated(s) == [done |-> rows[s].done, total |-> rows[s].todo + rows[s].done]

BiteProgress(s) == [done |-> rows[s].done, total |-> rows[s].todo + rows[s].done]

SliceStage(status, spec, counts) ==
  CASE status \in {"shipped", "dropped"} -> status
    [] OTHER -> CASE ~spec -> "needs_design"
                  [] spec /\ counts.total = 0 -> "needs_steps"
                  [] spec /\ counts.done < counts.total -> "executing"
                  [] OTHER -> "ready_to_ship"

StageOf(s) == SliceStage(rows[s].status, rows[s].spec, Annotated(s))
StageOnItsPage(s) == SliceStage(rows[s].status, rows[s].spec, BiteProgress(s))

BoardColumns == {"needs_design", "needs_steps", "executing", "ready_to_ship", "shipped"}
OpenColumns == BoardColumns \ {"shipped"}

\* delegation_prompt: an instruction exists for a stage with a next step.
CanDelegate(s) == StageOnItsPage(s) \in OpenColumns

InboxFilter(set) == {s \in set : rows[s].area = Inbox /\ rows[s].status = "open"}
FiledSlices(set) == {s \in set : rows[s].area # Inbox}
InArea(a) == {s \in All : rows[s].area = a}

\* query_slices: of an area, of the Inbox, of what is filed, or of everything.
QuerySlices(area, status, includeInbox, inboxOnly) ==
  LET scope == IF inboxOnly THEN InboxFilter(All)
               ELSE IF ~includeInbox /\ area \notin Areas THEN FiledSlices(All) ELSE All
  IN {s \in scope : /\ area \in Areas => rows[s].area = area
                    /\ status \in {"open", "shipped", "dropped"} => rows[s].status = status}

\* The list_slices tool: no area_id ("any"), '' (the Inbox) or an area's.
ListTool(area, status) == QuerySlices(area, status, area = "any", area = Inbox)

-----------------------------------------------------------------------------
(***************************************************************************)
(* Boards.                                                                 *)
(***************************************************************************)
Fewest(n, set) == IF n < Cardinality(set) THEN n ELSE Cardinality(set)

\* The first n of a list sorted by Above.
FirstOf(n, set, Above(_, _)) ==
  CHOOSE some \in SUBSET set :
    /\ Cardinality(some) = Fewest(n, set)
    /\ \A s \in some, t \in set \ some : ~Above(t, s)

Fresher(s, t) == rows[s].fresh /\ ~rows[t].fresh

\* cap_shipped: the window of days, or the latest few.
CapShipped(set) ==
  IF mode = "days" THEN {s \in set : rows[s].fresh} ELSE FirstOf(BoardLimit, set, Fresher)

\* roadmap_board_view and area_board_view, over the slices of their query.
BoardOf(set) ==
  LET shipped == {s \in set : StageOf(s) = "shipped"} IN
  [groups |-> [column \in BoardColumns |->
                 IF column = "shipped" THEN CapShipped(shipped)
                 ELSE {s \in set : StageOf(s) = column}],
   shippedTotal |-> Cardinality(shipped),
   shippedHidden |-> Cardinality(shipped) - Cardinality(CapShipped(shipped)),
   dropped |-> Cardinality({s \in set : StageOf(s) = "dropped"})]

OrgBoard == BoardOf(FiledSlices(All))
AreaBoard(a) == BoardOf(InArea(a))

\* roadmap_state.
RoadmapState(status) == {s \in FiledSlices(All) : rows[s].status = status}

\* Mutant: the archives are lists of filed slices like all others.
FocusedList_Filed(status) == RoadmapState(status)

\* ?status= of the Board: the archives list what nobody filed, too.
FocusedList(status) ==
  IF status \in {"shipped", "dropped"} THEN Under(status) ELSE RoadmapState(status)

AreaList(a, status) == {s \in InArea(a) : rows[s].status = status}

\* The cards of the areas page.
AreaCard(a) ==
  LET kept == {s \in InArea(a) : rows[s].status # "dropped"} IN
  [total |-> Cardinality(kept),
   executing |-> Cardinality({s \in kept : StageOf(s) = "executing"}),
   shipped |-> Cardinality({s \in kept : rows[s].status = "shipped"})]

\* sidebar_areas, and area_rename for one of them: how many slices a deletion of the
\* area is said to send back to the Inbox.
SliceCount(a) == Cardinality({s \in All : rows[s].area = a /\ rows[s].status # "dropped"})
SidebarAreas == [a \in Areas \ archived |-> SliceCount(a)]

-----------------------------------------------------------------------------
(***************************************************************************)
(* Home and the project state.                                             *)
(***************************************************************************)
HomeState ==
  LET filed == FiledSlices(All) IN
  [inProgress |-> {s \in filed : StageOf(s) = "executing"},
   shipped |-> {s \in filed : rows[s].status = "shipped"},
   open |-> Cardinality({s \in filed : rows[s].status = "open"})]

\* The slices that wait for a person, and one row for all of the Inbox.
YourTurn ==
  [slices |-> {s \in FiledSlices(Under("open")) : StageOf(s) \in {"needs_design", "ready_to_ship"}},
   inbox |-> Cardinality(InboxFilter(All))]

\* priority_sort_key.
MoreUrgent(s, t) ==
  /\ rows[s].priority # Unranked
  /\ rows[t].priority = Unranked \/ rows[s].priority < rows[t].priority

Roadmap(open) == FirstOf(RoadmapLimit, open, MoreUrgent)

AreaState(a) ==
  LET open == AreaList(a, "open") IN
  [roadmap |-> Roadmap(open),
   open |-> Cardinality(open),
   shipped |-> Cardinality(AreaList(a, "shipped")),
   dropped |-> Cardinality(AreaList(a, "dropped")),
   omitted |-> Cardinality(open) - Cardinality(Roadmap(open))]

\* get_project_state: every area that is not archived, the Inbox, the org's totals.
ProjectState ==
  [totals |-> [status \in {"open", "shipped", "dropped"} |-> Cardinality(Under(status))],
   inbox |-> Cardinality(InboxFilter(All)),
   areas |-> [a \in Areas \ archived |-> AreaState(a)]]

-----------------------------------------------------------------------------
(***************************************************************************)
(* What other modules let happen to the rows.                              *)
(***************************************************************************)
Captured(area) == [area |-> area, status |-> "open", spec |-> FALSE, todo |-> 0, done |-> 0,
                   gone |-> 0, priority |-> Unranked, fresh |-> FALSE]

Capture(s, area) ==
  /\ s \notin All
  /\ rows' = [t \in All \cup {s} |-> IF t = s THEN Captured(area) ELSE rows[t]]
  /\ UNCHANGED <<archived, mode>>

\* A write that leaves the row as it is changes no screen.
Becomes(s, row) ==
  /\ row # rows[s]
  /\ rows' = [rows EXCEPT ![s] = row] /\ UNCHANGED <<archived, mode>>

File(s, area) == Becomes(s, [rows[s] EXCEPT !.area = area])

Decide(s, status) ==
  Becomes(s, [rows[s] EXCEPT !.status = status, !.fresh = (status = "shipped")])

Rank(s, priority) == Becomes(s, [rows[s] EXCEPT !.priority = priority])

WriteSpec(s, spec) == Becomes(s, [rows[s] EXCEPT !.spec = spec])

AddStep(s, status) ==
  rows[s][status] < Steps /\ Becomes(s, [rows[s] EXCEPT ![status] = @ + 1])

SetStep(s, from, to) ==
  /\ rows[s][from] > 0 /\ rows[s][to] < Steps
  /\ Becomes(s, [rows[s] EXCEPT ![from] = @ - 1, ![to] = @ + 1])

DeleteStep(s, from) == rows[s][from] > 0 /\ Becomes(s, [rows[s] EXCEPT ![from] = @ - 1])

WindowPasses(s) == rows[s].fresh /\ Becomes(s, [rows[s] EXCEPT !.fresh = FALSE])

DeleteArea(a) ==
  /\ rows' = [s \in All |-> IF rows[s].area = a THEN [rows[s] EXCEPT !.area = Inbox] ELSE rows[s]]
  /\ UNCHANGED <<archived, mode>>

Archive(a) ==
  /\ archived' = IF a \in archived THEN archived \ {a} ELSE archived \cup {a}
  /\ UNCHANGED <<rows, mode>>

ViewsNext ==
  \/ \E s \in Slices, area \in Places : Capture(s, area)
  \/ \E s \in All :
       \/ \E area \in Places : File(s, area)
       \/ \E status \in {"open", "shipped", "dropped"} : Decide(s, status)
       \/ \E priority \in Priorities \cup {Unranked} : Rank(s, priority)
       \/ \E spec \in BOOLEAN : WriteSpec(s, spec)
       \/ \E from \in StepStatuses :
            \/ AddStep(s, from) \/ DeleteStep(s, from)
            \/ \E to \in StepStatuses \ {from} : SetStep(s, from, to)
       \/ WindowPasses(s)
  \/ \E a \in Areas : DeleteArea(a) \/ Archive(a)

ViewsSpec == ViewsInit /\ [][ViewsNext]_viewvars

-----------------------------------------------------------------------------
\* Every slice can be read on some screen: in the Inbox, on the org's board or in the
\* list behind it, however it came to have no area and whatever was decided of it
\* (pages.py:18-28, slices.py:352-395).
EverySliceIsOnAScreen ==
  \A s \in All :
    \/ s \in InboxFilter(All)
    \/ \E column \in BoardColumns : s \in OrgBoard.groups[column]
    \/ s \in FocusedList(rows[s].status)

\* The same slices wherever a slice is listed: Home's bands are the board's columns, the
\* org's board is the union of its areas' boards, and a slice's page names the column it
\* is in and has an instruction for an agent.
SameSlices ==
  /\ HomeState.inProgress = OrgBoard.groups["executing"]
  /\ YourTurn.slices = OrgBoard.groups["needs_design"] \cup OrgBoard.groups["ready_to_ship"]
  /\ \A c \in OpenColumns :
       /\ OrgBoard.groups[c] = UNION {AreaBoard(a).groups[c] : a \in Areas}
       /\ \A s \in OrgBoard.groups[c] : StageOnItsPage(s) = c /\ CanDelegate(s)

\* The same numbers wherever slices are counted: Home, the boards, the areas page, the
\* sidebar, and what an agent lists of what the project state counted.
SameCounts ==
  /\ HomeState.open = Cardinality(UNION {OrgBoard.groups[c] : c \in OpenColumns})
  /\ Cardinality(HomeState.shipped) = OrgBoard.shippedTotal
  /\ \A a \in Areas :
       /\ AreaCard(a).executing = Cardinality(AreaBoard(a).groups["executing"])
       /\ AreaCard(a).total = Cardinality(InArea(a)) - AreaBoard(a).dropped
       /\ AreaCard(a).shipped = AreaBoard(a).shippedTotal
  /\ \A a \in DOMAIN SidebarAreas :
       SidebarAreas[a] = AreaState(a).open + Cardinality(FocusedList("shipped") \cap InArea(a))
  /\ YourTurn.inbox = ProjectState.inbox
  /\ ProjectState.inbox = Cardinality(ListTool(Inbox, "any"))
  /\ \A status \in {"open", "shipped", "dropped"} :
       /\ ProjectState.totals[status] = Cardinality(ListTool("any", status))
       /\ \A a \in Areas \ archived :
            ProjectState.areas[a][status] = Cardinality(ListTool(a, status))

\* What the org's board counts is what its areas' boards count together.
AreasAddUp ==
  /\ OrgBoard.shippedTotal = SumFunction([a \in Areas |-> AreaBoard(a).shippedTotal])
  /\ OrgBoard.dropped = SumFunction([a \in Areas |-> AreaBoard(a).dropped])

\* The screens and the MCP reads agree, though each asks the database in its own way
\* (state.py, pages.py, slices.py:50-100).
ScreensAgree == SameSlices /\ SameCounts /\ AreasAddUp
=============================================================================
