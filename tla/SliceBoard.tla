----------------------------- MODULE SliceBoard -----------------------------
(***************************************************************************)
(* The slices of an org: created (or, under an external key they already   *)
(* have, updated in place), edited, marked shipped or dropped, filed into  *)
(* areas and left behind when an area is deleted.                          *)
(*                                                                         *)
(* Every service of slices.py is handed a row that was loaded before,      *)
(* changes the copy and saves it: update_slice saves every column,         *)
(* set_slice_status and set_slice_area save a few.  The activity row is    *)
(* written in the transaction of the save; `event` is the one the last     *)
(* step wrote.  Titles, ranks, priorities and tags are left out.           *)
(***************************************************************************)
EXTENDS Integers, FiniteSets

CONSTANTS
  Slices,     \* rows there is room for
  Areas,      \* areas that may exist
  Keys,       \* external keys callers use
  Users,      \* members who capture slices
  Statuses,   \* Slice.STATUS_CHOICES: "open", "shipped", "dropped"
  Requests,   \* handlers running at once
  Kinds,      \* what they are asked to do
  Inbox,      \* the area of a slice that has none
  NoKey,      \* the empty external key
  Nobody,     \* created_by of a slice no member captured
  Keep,       \* an argument left out
  NoEvent     \* a step that wrote no activity row

ASSUME StatusChoices == {"open", "shipped"} \subseteq Statuses

ASSUME NamesApart ==
  /\ Inbox \notin Areas /\ NoKey \notin Keys /\ Nobody \notin Users
  /\ Keep \notin Statuses \cup Areas \cup {Inbox}
  /\ NoEvent \notin [target : Slices, verb : {"created", "marked", "moved"},
                     from : Statuses \cup Areas \cup {Inbox, Keep},
                     to : Statuses \cup Areas \cup {Inbox, Keep}]

VARIABLES
  rows,    \* Slice: a function from the rows that exist
  areas,   \* Area: the ones that exist
  next,    \* Org.next_slice_number
  event,   \* the ActivityEvent the last step wrote
  req      \* each handler: where it is and what it holds

vars == <<rows, areas, next, event, req>>

Places == Areas \cup {Inbox}
Row == [area : Places, status : Statuses, completed : BOOLEAN, key : Keys \cup {NoKey},
        creator : Users \cup {Nobody}, number : Nat]
Event == [target : Slices, verb : {"created", "marked", "moved"},
          from : Statuses \cup Places \cup {Keep}, to : Statuses \cup Places \cup {Keep}]

Idle == [at |-> "idle"]
\* create_slice before its insert, and with the number it was given.
CreateRequest == [at : {"minting"}, area : Places, status : Statuses,
                  key : Keys \cup {NoKey}, by : Users \cup {Nobody}]
MintedRequest == [at : {"minted"}, area : Places, status : Statuses,
                  key : Keys \cup {NoKey}, by : Users \cup {Nobody}, number : Nat]
\* A handler with the row it loaded: an update in place or a move.
CopyRequest == [at : {"upserting", "moving", "crediting"}, slice : Slices, copy : Row,
                area : Places, by : Users \cup {Nobody}]
UpdateRequest == [at : {"updating"}, slice : Slices, copy : Row,
                  status : Statuses \cup {Keep}, area : Places \cup {Keep}]
MarkRequest == [at : {"marking"}, slice : Slices, copy : Row, status : Statuses]
DeleteRequest == [at : {"deleting"}, area : Areas]
Request == {Idle} \cup CreateRequest \cup MintedRequest \cup CopyRequest
           \cup UpdateRequest \cup MarkRequest \cup DeleteRequest

TypeOK ==
  /\ DOMAIN rows \subseteq Slices /\ rows \in [DOMAIN rows -> Row]
  /\ areas \subseteq Areas
  /\ next \in Nat
  /\ event \in Event \cup {NoEvent}
  /\ req \in [Requests -> Request]

\* An org with its areas and no slice yet.
Init ==
  /\ rows = [s \in {} |-> Nobody]
  /\ areas = Areas
  /\ next = 1
  /\ event = NoEvent
  /\ req = [r \in Requests |-> Idle]

-----------------------------------------------------------------------------
Goes(r, there) == req' = [req EXCEPT ![r] = there]
Live == areas \cup {Inbox}
At(r, there) == req[r].at = there

\* The activity rows the services write.
Created(s) == [target |-> s, verb |-> "created", from |-> Keep, to |-> Keep]
Marked(s, from, to) == [target |-> s, verb |-> "marked", from |-> from, to |-> to]
Moved(s, from, to) == [target |-> s, verb |-> "moved", from |-> from, to |-> to]

\* _apply_status: completed_at is set while the slice is shipped.
WithStatus(row, status) ==
  [row EXCEPT !.status = status, !.completed = (status = "shipped")]

-----------------------------------------------------------------------------
(***************************************************************************)
(* create_slice.  A key that exists turns it into an update of that slice. *)
(***************************************************************************)
AskCreate(r, key, area, status, by) ==
  /\ "create" \in Kinds /\ req[r] = Idle
  /\ area \in Live
  /\ \A s \in DOMAIN rows : key = NoKey \/ rows[s].key /= key
  /\ Goes(r, [at |-> "minting", area |-> area, status |-> status, key |-> key, by |-> by])
  /\ event' = NoEvent
  /\ UNCHANGED <<rows, areas, next>>

AskUpsert(r, s, area, by) ==
  /\ "create" \in Kinds /\ req[r] = Idle
  /\ area \in Live
  /\ s \in DOMAIN rows /\ rows[s].key /= NoKey
  /\ Goes(r, [at |-> "upserting", slice |-> s, copy |-> rows[s], area |-> area, by |-> by])
  /\ event' = NoEvent
  /\ UNCHANGED <<rows, areas, next>>

Minted(q, n) == [at |-> "minted", area |-> q.area, status |-> q.status, key |-> q.key,
                 by |-> q.by, number |-> n]

\* Mutant: the counter is committed on its own, before the slice.
MintNumber_Apart(r) ==
  /\ At(r, "minting")
  /\ next' = next + 1
  /\ Goes(r, Minted(req[r], next))
  /\ event' = NoEvent
  /\ UNCHANGED <<rows, areas>>

\* allocate_number locks the org's row until the transaction ends: nobody else
\* reads the counter before the slice is in.
MintNumber(r) ==
  /\ At(r, "minting")
  /\ \A q \in Requests : ~ At(q, "minted")
  /\ Goes(r, Minted(req[r], next))
  /\ event' = NoEvent
  /\ UNCHANGED <<rows, areas, next>>

KeyIsFree(key) == key = NoKey \/ \A s \in DOMAIN rows : rows[s].key /= key
NumberIsFree(n) == \A s \in DOMAIN rows : rows[s].number /= n

NewRow(q) == [area |-> q.area, status |-> q.status, completed |-> (q.status = "shipped"),
              key |-> q.key, creator |-> q.by, number |-> q.number]

WithRow(s, row) == [t \in DOMAIN rows \cup {s} |-> IF t = s THEN row ELSE rows[t]]

\* The insert commits with its number, unless a constraint refuses it (the
\* key or the number is taken, the area is gone) and everything rolls back.
Insert(r, s) ==
  /\ At(r, "minted") /\ s \notin DOMAIN rows
  /\ req[r].area \in Live /\ KeyIsFree(req[r].key) /\ NumberIsFree(req[r].number)
  /\ rows' = WithRow(s, NewRow(req[r]))
  /\ next' = req[r].number + 1
  /\ event' = Created(s)
  /\ Goes(r, Idle)
  /\ UNCHANGED areas

Uncredited(q) == q.by /= Nobody /\ q.copy.creator = Nobody

\* After the update in place: filed if an area was given and is another, then
\* credited if the slice has no capturer.
AfterUpsert(q) ==
  IF q.area \notin {Inbox, q.copy.area} THEN [q EXCEPT !.at = "moving"]
  ELSE IF Uncredited(q) THEN [q EXCEPT !.at = "crediting"]
  ELSE Idle

AfterMove(q) ==
  IF Uncredited(q) THEN [q EXCEPT !.at = "crediting", !.copy.area = q.area] ELSE Idle

\* Mutant: the update in place takes create's default status along.
SaveUpsert_Regress(r) ==
  /\ At(r, "upserting")
  /\ req[r].copy.area \in Live
  /\ rows' = [rows EXCEPT ![req[r].slice] = WithStatus(req[r].copy, "open")]
  /\ Goes(r, AfterUpsert(req[r]))
  /\ event' = NoEvent
  /\ UNCHANGED <<areas, next>>

SaveUpsert(r) ==
  /\ At(r, "upserting")
  /\ req[r].copy.area \in Live
  /\ rows' = [rows EXCEPT ![req[r].slice] = req[r].copy]
  /\ Goes(r, AfterUpsert(req[r]))
  /\ event' = NoEvent
  /\ UNCHANGED <<areas, next>>

Credit(r) ==
  /\ At(r, "crediting")
  /\ rows' = [rows EXCEPT ![req[r].slice].creator = req[r].by]
  /\ Goes(r, Idle)
  /\ event' = NoEvent
  /\ UNCHANGED <<areas, next>>

-----------------------------------------------------------------------------
(***************************************************************************)
(* update_slice, of the MCP tool and of the panel's inline edits (which    *)
(* leave the status out), followed by the tool's move when it names one.   *)
(***************************************************************************)
AskUpdate(r, s, status, area) ==
  /\ "update" \in Kinds /\ req[r] = Idle
  /\ s \in DOMAIN rows /\ area \in Live \cup {Keep}
  /\ Goes(r, [at |-> "updating", slice |-> s, copy |-> rows[s], status |-> status,
              area |-> area])
  /\ event' = NoEvent
  /\ UNCHANGED <<rows, areas, next>>

\* What the copy becomes.
Edited(q) == IF q.status = Keep THEN q.copy ELSE WithStatus(q.copy, q.status)

AfterUpdate(q, row) ==
  IF q.area = Keep THEN Idle
  ELSE [at |-> "moving", slice |-> q.slice, copy |-> row, area |-> q.area, by |-> Nobody]

SaveUpdate(r) ==
  /\ At(r, "updating")
  /\ req[r].copy.area \in Live
  /\ LET row == Edited(req[r]) IN
       /\ rows' = [rows EXCEPT ![req[r].slice] = row]
       /\ event' = IF row.status = req[r].copy.status THEN NoEvent
                   ELSE Marked(req[r].slice, req[r].copy.status, row.status)
       /\ Goes(r, AfterUpdate(req[r], row))
  /\ UNCHANGED <<areas, next>>

-----------------------------------------------------------------------------
(***************************************************************************)
(* set_slice_status (Ship, Drop, Restore, Reopen and the board's drag) and *)
(* set_slice_area (filing and un-filing).                                  *)
(***************************************************************************)
AskMark(r, s, status) ==
  /\ "mark" \in Kinds /\ req[r] = Idle
  /\ s \in DOMAIN rows
  /\ Goes(r, [at |-> "marking", slice |-> s, copy |-> rows[s], status |-> status])
  /\ event' = NoEvent
  /\ UNCHANGED <<rows, areas, next>>

SaveMark(r) ==
  /\ At(r, "marking")
  /\ rows' = [rows EXCEPT ![req[r].slice] = WithStatus(@, req[r].status)]
  /\ event' = IF req[r].status = req[r].copy.status THEN NoEvent
              ELSE Marked(req[r].slice, req[r].copy.status, req[r].status)
  /\ Goes(r, Idle)
  /\ UNCHANGED <<areas, next>>

AskMove(r, s, area) ==
  /\ "move" \in Kinds /\ req[r] = Idle
  /\ s \in DOMAIN rows /\ area \in Live
  /\ Goes(r, [at |-> "moving", slice |-> s, copy |-> rows[s], area |-> area, by |-> Nobody])
  /\ event' = NoEvent
  /\ UNCHANGED <<rows, areas, next>>

SaveMove(r) ==
  /\ At(r, "moving")
  /\ req[r].area \in Live
  /\ rows' = [rows EXCEPT ![req[r].slice].area = req[r].area]
  /\ event' = IF req[r].area = req[r].copy.area THEN NoEvent
              ELSE Moved(req[r].slice, req[r].copy.area, req[r].area)
  /\ Goes(r, AfterMove(req[r]))
  /\ UNCHANGED <<areas, next>>

-----------------------------------------------------------------------------
(***************************************************************************)
(* delete_area: the activity row first, then the area, whose slices stay   *)
(* without one (on_delete=SET_NULL).  create_area may bring it back.       *)
(***************************************************************************)
AskDeleteArea(r, a) ==
  /\ "delete" \in Kinds /\ req[r] = Idle
  /\ a \in areas
  /\ Goes(r, [at |-> "deleting", area |-> a])
  /\ event' = NoEvent
  /\ UNCHANGED <<rows, areas, next>>

DeleteArea(r) ==
  /\ At(r, "deleting")
  /\ areas' = areas \ {req[r].area}
  /\ rows' = [s \in DOMAIN rows |->
                IF rows[s].area = req[r].area THEN [rows[s] EXCEPT !.area = Inbox]
                ELSE rows[s]]
  /\ Goes(r, Idle)
  /\ event' = NoEvent
  /\ UNCHANGED next

CreateArea(a) ==
  /\ "delete" \in Kinds /\ a \notin areas
  /\ areas' = areas \cup {a}
  /\ event' = NoEvent
  /\ UNCHANGED <<rows, next, req>>

\* A request ends early: a constraint or a refusal raises, or the process dies.
Stop(r) ==
  /\ req[r] /= Idle
  /\ Goes(r, Idle)
  /\ event' = NoEvent
  /\ UNCHANGED <<rows, areas, next>>

-----------------------------------------------------------------------------
Ask(r) ==
  \/ \E area \in Places, by \in Users \cup {Nobody} :
       \/ \E key \in Keys \cup {NoKey}, status \in Statuses : AskCreate(r, key, area, status, by)
       \/ \E s \in Slices : AskUpsert(r, s, area, by)
  \/ \E s \in Slices :
       \/ \E status \in Statuses \cup {Keep}, area \in Places \cup {Keep} :
            AskUpdate(r, s, status, area)
       \/ \E status \in Statuses : AskMark(r, s, status)
       \/ \E area \in Places : AskMove(r, s, area)
  \/ \E a \in Areas : AskDeleteArea(r, a)

Save(r) ==
  \/ MintNumber(r) \/ (\E s \in Slices : Insert(r, s))
  \/ SaveUpsert(r) \/ Credit(r) \/ SaveUpdate(r) \/ SaveMark(r) \/ SaveMove(r)
  \/ DeleteArea(r)

Next == \/ \E r \in Requests : Ask(r) \/ Save(r) \/ Stop(r)
        \/ \E a \in Areas : CreateArea(a)

Spec == Init /\ [][Next]_vars

-----------------------------------------------------------------------------
\* Numbers are given out in order, without a hole and never twice, whatever
\* creations overlap, fail or die (refs are resolved by number).
NumbersGapless ==
  /\ {rows[s].number : s \in DOMAIN rows} = 1 .. next - 1
  /\ \A s, t \in DOMAIN rows : rows[s].number = rows[t].number => s = t

\* An external key names one slice, however many callers race to create it.
OneSlicePerKey ==
  \A s, t \in DOMAIN rows : rows[s].key = rows[t].key /\ rows[s].key /= NoKey => s = t

\* The screens sort and count shipped work by completed_at: it is there exactly
\* while the slice is shipped, whichever of the saves came last.
CompletedWhileShipped ==
  \A s \in DOMAIN rows : rows[s].completed <=> rows[s].status = "shipped"

\* This step is the save of a request whose copy of s is out of date.
SavesStaleCopy(s) ==
  \E r \in Requests : /\ req'[r] /= req[r]
                      /\ "copy" \in DOMAIN req[r]
                      /\ req[r].slice = s /\ req[r].copy /= rows[s]

\* A slice's thread tells its story: a status or an area changes with the
\* activity row that says from what to what, and a move is told only if it moved
\* the slice.  A deleted area's slices fall back to the Inbox untold, and a
\* stale copy may bring old columns back or tell a move again.
ThreadTellsTheStory ==
  [][\A s \in DOMAIN rows : SavesStaleCopy(s) \/
       /\ rows'[s].status /= rows[s].status
            => event' = Marked(s, rows[s].status, rows'[s].status)
       /\ rows'[s].area /= rows[s].area /\ rows[s].area \in areas' \cup {Inbox}
            => event' = Moved(s, rows[s].area, rows'[s].area)
       /\ \A from, to \in Places :
            event' = Moved(s, from, to) => rows'[s].area /= rows[s].area]_vars

\* "The first capturer is a fact about the capture": only a request that still
\* saw the slice without one may write another's name over it.
CapturerKept ==
  [][\A s \in DOMAIN rows : rows[s].creator /= Nobody
       => rows'[s].creator = rows[s].creator \/ SavesStaleCopy(s)]_vars

=============================================================================
