----------------------------- MODULE LiveCursor -----------------------------
(***************************************************************************)
(* How an open tab learns what others changed.  Every write appends an     *)
(* activity row whose id the database's sequence hands out when the row is  *)
(* inserted and whose readers see it when the transaction commits.  The tab *)
(* polls /live with the highest id it knows (live.js, views/live.py), and   *)
(* every answer to one of its own writes carries the org's newest id, which *)
(* it adopts so as not to be told of its own work (LiveCursorMiddleware).   *)
(***************************************************************************)
EXTENDS Naturals, FiniteSets

CONSTANTS
  Mine,      \* writes this tab may have in flight together
  Theirs,    \* writes of other tabs and of agents
  MaxId,     \* bound on the sequence
  MaxLost    \* bound on the polls the network loses

Writes == Mine \cup Theirs

ASSUME CursorAssumption == MaxId \in Nat /\ MaxLost \in Nat /\ Mine \cap Theirs = {}

VARIABLES
  lastId,    \* the id sequence of core_activityevent
  events,    \* ids of the committed rows of the org
  disordered,  \* history: a row was committed below the id of a committed one
  pc,        \* per write: "idle", "open", "done" (view returned), "stamped"
  rowId,     \* per write: the id of its uncommitted row
  stamp,     \* per write of the tab: the X-Live-Cursor of its answer
  cursor,    \* live.js cursor
  adopted,   \* history: the highest cursor ever adopted
  visible,   \* the tab is not hidden
  timer,     \* a poll is scheduled
  poll,      \* the poll in flight: "none", "asked", "counted", "answered"
  since, reply,  \* its parameter and the ids of its answer ({}: a 204)
  shown,     \* ids the tab has announced and refreshed for
  lost

db == <<lastId, events, disordered, pc, rowId, stamp>>
tabvars == <<cursor, adopted, visible, timer, poll, since, reply, shown, lost>>
vars == <<lastId, events, disordered, pc, rowId, stamp,
          cursor, adopted, visible, timer, poll, since, reply, shown, lost>>

Ids == 1..MaxId

TypeOK ==
  /\ lastId \in 0..MaxId
  /\ events \subseteq Ids /\ disordered \in BOOLEAN
  /\ pc \in [Writes -> {"idle", "open", "done", "stamped"}]
  /\ rowId \in [Writes -> 0..MaxId] /\ \A w \in Writes : pc[w] = "open" => rowId[w] \in Ids
  /\ stamp \in [Writes -> 0..MaxId]
  /\ cursor \in 0..MaxId /\ adopted \in 0..MaxId
  /\ visible \in BOOLEAN /\ timer \in BOOLEAN
  /\ poll \in {"none", "asked", "counted", "answered"}
  /\ since \in 0..MaxId /\ reply \subseteq Ids /\ shown \subseteq Ids
  /\ lost \in 0..MaxLost

\* A page loaded while nothing was being written.
Init == /\ lastId = 0 /\ events = {} /\ disordered = FALSE
        /\ pc = [w \in Writes |-> "idle"]
        /\ rowId = [w \in Writes |-> 0] /\ stamp = [w \in Writes |-> 0]
        /\ cursor = 0 /\ adopted = 0
        /\ visible = TRUE /\ timer = TRUE
        /\ poll = "none" /\ since = 0 /\ reply = {}
        /\ shown = {} /\ lost = 0

-----------------------------------------------------------------------------
\* latest_activity_id: the greatest id of E, 0 when there is none.
IsLatest(n, E) == n \in E \cup {0} /\ \A e \in E : e <= n

\* events_since.  Mutant: the row at the cursor is delivered again.
Since_Inclusive(E, n) == {e \in E : e >= n}

Since(E, n) == {e \in E : e > n}

(***************************************************************************)
(* Writes.  A write of the tab is answered with the newest id whether it   *)
(* wrote a row, was rejected or wrote nothing.                             *)
(***************************************************************************)
After(w) == IF w \in Mine THEN "done" ELSE "idle"

Insert(w) ==
  /\ pc[w] = "idle"
  /\ lastId < MaxId
  /\ lastId' = lastId + 1
  /\ rowId' = [rowId EXCEPT ![w] = lastId + 1]
  /\ pc' = [pc EXCEPT ![w] = "open"]
  /\ UNCHANGED <<events, disordered, stamp, tabvars>>

Commit(w) ==
  /\ pc[w] = "open"
  /\ events' = events \cup {rowId[w]}
  /\ disordered' = (disordered \/ \E e \in events : e > rowId[w])
  /\ pc' = [pc EXCEPT ![w] = After(w)]
  /\ rowId' = [rowId EXCEPT ![w] = 0]
  /\ UNCHANGED <<lastId, stamp, tabvars>>

RollBack(w) ==
  /\ pc[w] = "open"
  /\ pc' = [pc EXCEPT ![w] = After(w)]
  /\ rowId' = [rowId EXCEPT ![w] = 0]
  /\ UNCHANGED <<lastId, events, disordered, stamp, tabvars>>

WriteNothing(w) ==
  /\ pc[w] = "idle"
  /\ pc' = [pc EXCEPT ![w] = "done"]
  /\ UNCHANGED <<lastId, events, disordered, rowId, stamp, tabvars>>

Stamp(w) ==
  /\ pc[w] = "done"
  /\ \E n \in 0..MaxId : /\ IsLatest(n, events)
                         /\ stamp' = [stamp EXCEPT ![w] = n]
  /\ pc' = [pc EXCEPT ![w] = "stamped"]
  /\ UNCHANGED <<lastId, events, disordered, rowId, tabvars>>

Higher(a, b) == IF a > b THEN a ELSE b

\* __liveAdoptCursor, from htmx:afterRequest or the canvas's fetch.
Adopt(w) ==
  /\ pc[w] = "stamped"
  /\ cursor' = Higher(stamp[w], cursor)
  /\ adopted' = Higher(stamp[w], adopted)
  /\ pc' = [pc EXCEPT ![w] = "idle"]
  /\ stamp' = [stamp EXCEPT ![w] = 0]
  /\ UNCHANGED <<lastId, events, disordered, rowId,
                 visible, timer, poll, since, reply, shown, lost>>

LoseAnswer(w) ==
  /\ pc[w] = "stamped"
  /\ pc' = [pc EXCEPT ![w] = "idle"]
  /\ stamp' = [stamp EXCEPT ![w] = 0]
  /\ UNCHANGED <<lastId, events, disordered, rowId, tabvars>>

(***************************************************************************)
(* The poll loop.  schedule() arms the timer unless the tab is hidden.     *)
(***************************************************************************)
Schedule == timer' = visible

\* The timer fires.
Poll ==
  /\ timer
  /\ IF poll /= "none" \/ ~ visible
     THEN Schedule /\ UNCHANGED <<poll, since>>
     ELSE timer' = FALSE /\ poll' = "asked" /\ since' = cursor
  /\ UNCHANGED <<db, cursor, adopted, visible, reply, shown, lost>>

\* views/live.py reads the newest id, and then the rows.
Count ==
  /\ poll = "asked"
  /\ IF \A e \in events : e <= since
     THEN poll' = "answered" /\ reply' = {}
     ELSE poll' = "counted" /\ UNCHANGED reply
  /\ UNCHANGED <<db, cursor, adopted, visible, timer, since, shown, lost>>

Fetch ==
  /\ poll = "counted"
  /\ reply' = Since(events, since)
  /\ poll' = "answered"
  /\ UNCHANGED <<db, cursor, adopted, visible, timer, since, shown, lost>>

\* Mutants: the newest id is taken after the rows were read; a 204 does not
\* schedule the next poll.
Receive_Latest ==
  /\ poll = "answered"
  /\ IF reply = {} THEN UNCHANGED cursor
     ELSE \E n \in 0..MaxId : IsLatest(n, events) /\ cursor' = n
  /\ shown' = shown \cup reply
  /\ poll' = "none" /\ reply' = {} /\ since' = 0
  /\ Schedule
  /\ UNCHANGED <<db, adopted, visible, lost>>

Receive_204Stops ==
  /\ poll = "answered"
  /\ IF reply = {} THEN UNCHANGED <<cursor, timer>>
     ELSE Schedule /\ \E n \in 0..MaxId : IsLatest(n, reply) /\ cursor' = n
  /\ shown' = shown \cup reply
  /\ poll' = "none" /\ reply' = {} /\ since' = 0
  /\ UNCHANGED <<db, adopted, visible, lost>>

\* The tab gets the answer; its cursor is the last id delivered.
Receive ==
  /\ poll = "answered"
  /\ IF reply = {} THEN UNCHANGED cursor
     ELSE \E n \in 0..MaxId : IsLatest(n, reply) /\ cursor' = n
  /\ shown' = shown \cup reply
  /\ poll' = "none" /\ reply' = {} /\ since' = 0
  /\ Schedule
  /\ UNCHANGED <<db, adopted, visible, lost>>

LosePoll ==
  /\ poll /= "none"
  /\ lost < MaxLost
  /\ lost' = lost + 1
  /\ poll' = "none" /\ reply' = {} /\ since' = 0
  /\ Schedule
  /\ UNCHANGED <<db, cursor, adopted, visible, shown>>

Hide == /\ visible
        /\ visible' = FALSE
        /\ UNCHANGED <<db, cursor, adopted, timer, poll, since, reply, shown, lost>>

Show == /\ ~ visible
        /\ visible' = TRUE /\ timer' = TRUE
        /\ UNCHANGED <<db, cursor, adopted, poll, since, reply, shown, lost>>

Next == \/ \E w \in Writes : Insert(w) \/ Commit(w) \/ RollBack(w)
        \/ \E w \in Mine : WriteNothing(w) \/ Stamp(w) \/ Adopt(w) \/ LoseAnswer(w)
        \/ Poll \/ Count \/ Fetch \/ Receive \/ LosePoll \/ Hide \/ Show

Spec == Init /\ [][Next]_vars

(***************************************************************************)
(* Fairness: an armed timer fires, the server answers a poll and the tab   *)
(* handles the answer.  Nothing is assumed of writers, of the user or of   *)
(* the network, save that it loses finitely many polls.                    *)
(***************************************************************************)
FairSpec == Spec /\ WF_vars(Poll) /\ WF_vars(Count) /\ WF_vars(Fetch) /\ WF_vars(Receive)

-----------------------------------------------------------------------------
\* live.py: no event is delivered twice, neither as a toast nor as a refresh,
\* however writes, own answers and polls overlap.
NeverTwice == reply \cap shown = {}

\* The cursor stands for what the tab was told.  As long as rows are committed
\* in the order of their ids, whatever lies at or below it was shown, unless the
\* answer to a write of the tab's own moved the tab past it.
NothingMissed ==
  ~ disordered => \A e \in events : e <= cursor => e \in shown \/ e <= adopted

\* Under the same condition a tab that stays visible is told of every event that
\* no answer to its own writes covers.
EventuallySeen ==
  <>[]visible /\ []~disordered =>
    \A e \in Ids : (e \in events) ~> (e \in shown \/ e <= adopted)

=============================================================================
