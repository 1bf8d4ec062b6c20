----------------------------- MODULE Checklist -----------------------------
(***************************************************************************)
(* The steps (bites) of one slice: added by an agent in a batch or by a    *)
(* person one at a time, ticked off, edited, moved and deleted             *)
(* (services/bites.py and its callers in web/views/mutations.py and        *)
(* mcp/server.py).  Each request loads the row, changes its copy and saves *)
(* it: update_bite every column of it, set_bite_status the status alone.   *)
(* Requests of people and agents interleave between the statements.        *)
(***************************************************************************)
EXTENDS Ranks

CONSTANTS
  Bites,      \* ids the database will give out
  Requests,   \* requests that may overlap
  Statuses,   \* Bite.STATUS_CHOICES: "todo", "doing", "done", "dropped"
  MaxBatch,   \* bound on the steps of one add_bites
  Keep,       \* a field the request leaves alone
  Gone        \* what a deletion means the step to be

ASSUME ChecklistAssumption ==
  /\ MaxBatch \in Nat /\ None \notin Bites
  /\ {"todo", "done"} \subseteq Statuses /\ Keep \notin Statuses /\ Gone \notin Statuses

VARIABLES
  bites,      \* Bite rows of the slice: id -> [rank, status]
  used,       \* ids given out so far
  req,        \* the requests, see Request
  raced,      \* history: steps whose rank was computed while another request wrote one
  meant,      \* history: what the last request that said so meant each step to be
  clobbered   \* history: steps overwritten whole by a copy older than the row

vars == <<bites, used, req, raced, meant, clobbered>>

Bite == [rank : Keys, status : Statuses]
Idle == [at |-> "idle"]
\* create_bite: before the look at the last rank and before the insert.
Adds == [at : {"add", "insert"}, left : 1..MaxBatch, rank : Keys \cup {None}, stale : BOOLEAN]
\* update_bite: before the neighbour is loaded, before its own neighbour is, before
\* the save.  `stale`: a rank was written since the request began; `old`: this row.
Edits ==
  [at : {"near", "place", "save"}, bite : Bites, copy : Bite, status : Statuses \cup {Keep},
   side : {"before", "after", "stay"}, near : Bites \cup {None}, key : Keys \cup {None},
   stale : BOOLEAN, old : BOOLEAN]
\* set_bite_status and delete_bite.
Ticks == [at : {"toggle", "delete"}, bite : Bites, status : Statuses]
Request == {Idle} \cup Adds \cup Edits \cup Ticks

TypeOK ==
  /\ used \subseteq Bites /\ DOMAIN bites \subseteq used
  /\ bites \in [DOMAIN bites -> Bite]
  /\ req \in [Requests -> Request]
  /\ raced \subseteq used /\ clobbered \subseteq used
  /\ meant \in [used -> Statuses \cup {Gone}]

\* A slice without steps.
Init ==
  /\ bites = [b \in {} |-> None] /\ used = {} /\ req = [r \in Requests |-> Idle]
  /\ raced = {} /\ meant = [b \in {} |-> None] /\ clobbered = {}

-----------------------------------------------------------------------------
RanksOf(rows) == {rows[b].rank : b \in DOMAIN rows}
With(f, b, v) == [c \in DOMAIN f \cup {b} |-> IF c = b THEN v ELSE f[c]]
Without(f, b) == [c \in DOMAIN f \ {b} |-> f[c]]
Mark(set, b, yes) == IF yes THEN set \cup {b} ELSE set \ {b}

\* A row b that is written ages what the other requests hold: ranks if its rank
\* changes (`moved`), a copy of b if it appears, goes or changes status.
Turned(b) == ~(b \in DOMAIN bites \cap DOMAIN bites' /\ bites[b].status = bites'[b].status)

Aged(q, b, moved) ==
  IF q.at \in {"add", "insert"} THEN [q EXCEPT !.stale = @ \/ moved]
  ELSE IF q.at \in {"near", "place", "save"}
  THEN [q EXCEPT !.stale = @ \/ moved, !.old = @ \/ (q.bite = b /\ Turned(b))] ELSE q

\* Request r goes on as q while row b is written.
Writes(r, q, b, moved) ==
  req' = [o \in Requests |-> IF o = r THEN q ELSE Aged(req[o], b, moved)]
Goes(r, q) == req' = [req EXCEPT ![r] = q]

-----------------------------------------------------------------------------
(***************************************************************************)
(* Adding: add_bites is a loop of create_bite, each in a transaction of    *)
(* its own, and may end anywhere in it.                                    *)
(***************************************************************************)
AskAdd(r, n) ==
  /\ req[r] = Idle
  /\ Goes(r, [at |-> "add", left |-> n, rank |-> None, stale |-> FALSE])
  /\ UNCHANGED <<bites, used, raced, meant, clobbered>>

AddLook(r) ==
  /\ req[r].at = "add"
  /\ LET key == RankFor(RanksOf(bites), None, None) IN
     /\ Fits(key)
     /\ Goes(r, [req[r] EXCEPT !.at = "insert", !.rank = key, !.stale = FALSE])
  /\ UNCHANGED <<bites, used, raced, meant, clobbered>>

AddInsert(r, b, status) ==
  /\ req[r].at = "insert" /\ b \notin used
  /\ bites' = With(bites, b, [rank |-> req[r].rank, status |-> status])
  /\ used' = used \cup {b}
  /\ Writes(r, IF req[r].left = 1 THEN Idle
               ELSE [req[r] EXCEPT !.at = "add", !.left = @ - 1, !.rank = None], b, TRUE)
  /\ raced' = Mark(raced, b, req[r].stale)
  /\ meant' = With(meant, b, status)
  /\ UNCHANGED clobbered

-----------------------------------------------------------------------------
(***************************************************************************)
(* update_bite.                                                            *)
(***************************************************************************)
\* The copy's rank is replaced before the save when the step moves.
AskEdit(r, b, status, side, near) ==
  /\ req[r] = Idle /\ b \in DOMAIN bites
  /\ (side = "stay") = (near = None)
  /\ Goes(r, [at |-> IF side = "stay" THEN "save" ELSE "near", bite |-> b,
              copy |-> IF side = "stay" THEN bites[b] ELSE [bites[b] EXCEPT !.rank = 0],
              status |-> status, side |-> side, near |-> near, key |-> None,
              stale |-> FALSE, old |-> FALSE])
  /\ UNCHANGED <<bites, used, raced, meant, clobbered>>

\* The neighbour is looked up; it may not exist.
EditNear(r) ==
  /\ req[r].at = "near"
  /\ IF req[r].near \in DOMAIN bites
     THEN Goes(r, [req[r] EXCEPT !.at = "place", !.key = bites[req[r].near].rank])
     ELSE Goes(r, Idle)
  /\ UNCHANGED <<bites, used, raced, meant, clobbered>>

EditPlace(r) ==
  /\ req[r].at = "place"
  /\ LET before == IF req[r].side = "before" THEN req[r].key ELSE None
         after == IF req[r].side = "after" THEN req[r].key ELSE None
         key == RankFor(RanksOf(bites), before, after)
     IN
     /\ Fits(key)
     /\ Goes(r, [req[r] EXCEPT !.at = "save", !.copy.rank = key, !.key = None])
  /\ UNCHANGED <<bites, used, raced, meant, clobbered>>

Edited(q) == [q.copy EXCEPT !.status = IF q.status = Keep THEN @ ELSE q.status]

\* bite.save(): every column, and an insert when the row is gone.
EditSave(r) ==
  /\ req[r].at = "save"
  /\ LET q == req[r]
         b == q.bite
         moved == b \notin DOMAIN bites \/ bites[b].rank # q.copy.rank
     IN
     /\ bites' = With(bites, b, Edited(q))
     /\ Writes(r, Idle, b, moved)
     /\ raced' = IF moved THEN Mark(raced, b, q.stale) ELSE raced
     /\ meant' = IF q.status = Keep THEN meant ELSE With(meant, b, q.status)
     /\ clobbered' = Mark(clobbered, b, q.old \/ (b \in clobbered /\ q.status = Keep))
  /\ UNCHANGED used

-----------------------------------------------------------------------------
(***************************************************************************)
(* set_bite_status, from the checkbox, and delete_bite.                    *)
(***************************************************************************)
AskToggle(r, b) ==
  /\ req[r] = Idle /\ b \in DOMAIN bites
  /\ Goes(r, [at |-> "toggle", bite |-> b,
              status |-> IF bites[b].status = "done" THEN "todo" ELSE "done"])
  /\ UNCHANGED <<bites, used, raced, meant, clobbered>>

\* Mutant: the whole row is saved, and comes back if it was deleted.
Ticked_Whole(b, status) ==
  With(bites, b, [rank |-> IF b \in DOMAIN bites THEN bites[b].rank ELSE 0, status |-> status])

\* save(update_fields=...): raises when the row is gone.
Ticked(b, status) ==
  IF b \in DOMAIN bites THEN [bites EXCEPT ![b].status = status] ELSE bites

ToggleSave(r) ==
  /\ req[r].at = "toggle"
  /\ LET b == req[r].bite IN
     /\ bites' = Ticked(b, req[r].status)
     /\ Writes(r, Idle, b, FALSE)
     /\ IF b \in DOMAIN bites
        THEN /\ meant' = With(meant, b, req[r].status)
             /\ clobbered' = clobbered \ {b}
        ELSE UNCHANGED <<meant, clobbered>>
  /\ UNCHANGED <<used, raced>>

AskDelete(r, b) ==
  /\ req[r] = Idle /\ b \in DOMAIN bites
  /\ Goes(r, [at |-> "delete", bite |-> b, status |-> bites[b].status])
  /\ UNCHANGED <<bites, used, raced, meant, clobbered>>

Delete(r) ==
  /\ req[r].at = "delete"
  /\ LET b == req[r].bite IN
     /\ bites' = Without(bites, b)
     /\ Writes(r, Idle, b, TRUE)
     /\ meant' = With(meant, b, Gone)
     /\ clobbered' = clobbered \ {b} /\ raced' = raced \ {b}
  /\ UNCHANGED used

\* The write gate closes, a value is refused, the process dies: what was saved stays.
Ends(r) ==
  /\ req[r] # Idle
  /\ Goes(r, Idle)
  /\ UNCHANGED <<bites, used, raced, meant, clobbered>>

Next ==
  \E r \in Requests :
    \/ \E n \in 1..MaxBatch : AskAdd(r, n)
    \/ AddLook(r) \/ EditNear(r) \/ EditPlace(r) \/ EditSave(r)
    \/ ToggleSave(r) \/ Delete(r) \/ Ends(r)
    \/ \E b \in Bites, status \in Statuses : AddInsert(r, b, status)
    \/ \E b \in Bites : AskToggle(r, b) \/ AskDelete(r, b)
    \/ \E b \in Bites, status \in Statuses \cup {Keep}, side \in {"before", "after", "stay"},
          near \in Bites \cup {None} : AskEdit(r, b, status, side, near)

Spec == Init /\ [][Next]_vars

-----------------------------------------------------------------------------
\* Two steps share a rank, and so have no order, only if one of them was placed while
\* another request wrote a rank (ranking_helpers.py:4-21).
TiesAreRaces ==
  \A b, c \in DOMAIN bites :
    b # c /\ bites[b].rank = bites[c].rank => b \in raced \/ c \in raced

InFront(rows, b, c) == rows[b].rank < rows[c].rank

\* Request r adds step b, and no rank was written since it looked: behind all others.
LandsLast(r, b) ==
  /\ req[r].at = "insert" /\ ~req[r].stale /\ b \in used' \ used /\ req'[r].at # "insert"
  => \A c \in DOMAIN bites : InFront(bites', c, b)

\* Request r saves step b, and no rank was written since it began: nothing is between
\* the step and the neighbour it named.
LandsBeside(r, b) ==
  /\ req[r].at = "save" /\ ~req[r].stale /\ req[r].bite = b /\ req'[r] = Idle /\ bites' # bites
  /\ req[r].near \in DOMAIN bites \ {b}
  => LET a == req[r].near IN
     /\ req[r].side = "after" =>
          /\ InFront(bites', a, b)
          /\ ~\E c \in DOMAIN bites' : InFront(bites', a, c) /\ InFront(bites', c, b)
     /\ req[r].side = "before" =>
          /\ InFront(bites', b, a)
          /\ ~\E c \in DOMAIN bites' : InFront(bites', b, c) /\ InFront(bites', c, a)

\* A step lands where the request put it, unless a rank was written meanwhile
\* (ranking_helpers.py:4-21, bites.py:38-87).
LandsWhereAsked == [][\A r \in Requests, b \in Bites : LandsLast(r, b) /\ LandsBeside(r, b)]_vars

\* A step is what the last request that said so meant it to be, ticked, deleted or
\* added, and only the full save of an update_bite whose copy is older than the row
\* can undo that: it takes a tick back and revives a deleted step (bites.py:68-87).
AsLastMeant ==
  \A b \in used \ clobbered :
    IF meant[b] = Gone THEN b \notin DOMAIN bites
    ELSE b \in DOMAIN bites /\ bites[b].status = meant[b]
=============================================================================
