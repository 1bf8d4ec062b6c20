-------------------------- MODULE SliceBoard_proofs --------------------------
(***************************************************************************)
(* Proved for any number of slices, areas, keys and overlapping requests:  *)
(* the types, and what the constraints and the org's lock keep true of the *)
(* rows.                                                                   *)
(***************************************************************************)
EXTENDS SliceBoard, TLAPS

\* What a request is follows from where it is.
LEMMA AtDecides ==
  ASSUME TypeOK, NEW r \in Requests
  PROVE  /\ req[r].at = "minting" => req[r] \in CreateRequest
         /\ req[r].at = "minted" => req[r] \in MintedRequest
         /\ req[r].at \in {"upserting", "moving", "crediting"} => req[r] \in CopyRequest
         /\ req[r].at = "updating" => req[r] \in UpdateRequest
         /\ req[r].at = "marking" => req[r] \in MarkRequest
         /\ req[r].at = "deleting" => req[r] \in DeleteRequest
<1>1. req[r] \in Request
  BY DEF TypeOK
<1> QED
  BY <1>1 DEF Request, Idle, CreateRequest, MintedRequest, CopyRequest, UpdateRequest,
              MarkRequest, DeleteRequest

\* The steps that only load or give up.
Reads(r) == Ask(r) \/ Stop(r)

\* A handler starts with a copy of the row it names.
Holding == {"upserting", "moving", "crediting", "updating", "marking"}
Loaded(q) == q.at \in Holding => q.slice \in DOMAIN rows /\ q.copy = rows[q.slice]

Quiet(r, q) ==
  /\ q \in Request /\ q.at /= "minted" /\ Loaded(q)
  /\ Goes(r, q)
  /\ UNCHANGED <<rows, areas, next>> /\ event' = NoEvent

LEMMA ReadsOnly ==
  ASSUME TypeOK, NEW r \in Requests, Reads(r)
  PROVE  \E q : Quiet(r, q)
<1>0. DOMAIN rows \subseteq Slices /\ \A s \in DOMAIN rows : rows[s] \in Row
  BY DEF TypeOK
<1>2. ASSUME NEW key \in Keys \cup {NoKey}, NEW area \in Places, NEW status \in Statuses,
             NEW by \in Users \cup {Nobody}, AskCreate(r, key, area, status, by)
      PROVE  \E q : Quiet(r, q)
  <2> DEFINE q == [at |-> "minting", area |-> area, status |-> status, key |-> key,
                   by |-> by]
  <2>1. q \in Request
    BY <1>0, <1>2 DEF Request, AskCreate, CreateRequest
  <2>2. Quiet(r, q)
    BY <1>2, <2>1 DEF Quiet, AskCreate, Goes, Loaded, Holding
  <2> QED
    BY <2>2
<1>3. ASSUME NEW s \in Slices, NEW area \in Places, NEW by \in Users \cup {Nobody},
             AskUpsert(r, s, area, by)
      PROVE  \E q : Quiet(r, q)
  <2> DEFINE q == [at |-> "upserting", slice |-> s, copy |-> rows[s], area |-> area,
                   by |-> by]
  <2>1. q \in Request
    BY <1>0, <1>3 DEF Request, AskUpsert, CopyRequest
  <2>2. Quiet(r, q)
    BY <1>3, <2>1 DEF Quiet, AskUpsert, Goes, Loaded, Holding
  <2> QED
    BY <2>2
<1>4. ASSUME NEW s \in Slices, NEW status \in Statuses \cup {Keep}, NEW area \in Places \cup {Keep},
             AskUpdate(r, s, status, area)
      PROVE  \E q : Quiet(r, q)
  <2> DEFINE q == [at |-> "updating", slice |-> s, copy |-> rows[s], status |-> status,
                   area |-> area]
  <2>1. q \in Request
    BY <1>0, <1>4 DEF Request, AskUpdate, UpdateRequest
  <2>2. Quiet(r, q)
    BY <1>4, <2>1 DEF Quiet, AskUpdate, Goes, Loaded, Holding
  <2> QED
    BY <2>2
<1>5. ASSUME NEW s \in Slices, NEW status \in Statuses, AskMark(r, s, status)
      PROVE  \E q : Quiet(r, q)
  <2> DEFINE q == [at |-> "marking", slice |-> s, copy |-> rows[s], status |-> status]
  <2>1. q \in Request
    BY <1>0, <1>5 DEF Request, AskMark, MarkRequest
  <2>2. Quiet(r, q)
    BY <1>5, <2>1 DEF Quiet, AskMark, Goes, Loaded, Holding
  <2> QED
    BY <2>2
<1>6. ASSUME NEW s \in Slices, NEW area \in Places, AskMove(r, s, area)
      PROVE  \E q : Quiet(r, q)
  <2> DEFINE q == [at |-> "moving", slice |-> s, copy |-> rows[s], area |-> area,
                   by |-> Nobody]
  <2>1. q \in Request
    BY <1>0, <1>6 DEF Request, AskMove, CopyRequest
  <2>2. Quiet(r, q)
    BY <1>6, <2>1 DEF Quiet, AskMove, Goes, Loaded, Holding
  <2> QED
    BY <2>2
<1>7. ASSUME NEW a \in Areas, AskDeleteArea(r, a)
      PROVE  \E q : Quiet(r, q)
  <2> DEFINE q == [at |-> "deleting", area |-> a]
  <2>1. q \in Request
    BY <1>0, <1>7 DEF Request, DeleteRequest
  <2>2. Quiet(r, q)
    BY <1>7, <2>1 DEF Quiet, AskDeleteArea, Goes, Loaded, Holding
  <2> QED
    BY <2>2
<1>8. ASSUME Stop(r)
      PROVE  \E q : Quiet(r, q)
  <2> DEFINE q == Idle
  <2>1. q \in Request
    BY <1>0, <1>8 DEF Request, Idle
  <2>2. Quiet(r, q)
    BY <1>8, <2>1 DEF Quiet, Stop, Idle, Goes, Loaded, Holding
  <2> QED
    BY <2>2
<1> QED
  BY <1>2, <1>3, <1>4, <1>5, <1>6, <1>7, <1>8 DEF Reads, Ask

\* What the saves write is a row.
LEMMA Rows ==
  ASSUME NEW row \in Row, NEW status \in Statuses
  PROVE  WithStatus(row, status) \in Row
BY DEF WithStatus, Row

\* An update in place or a move leaves the request one it can be.
LEMMA CopyGoesOn ==
  ASSUME NEW q \in CopyRequest
  PROVE  AfterUpsert(q) \in Request /\ AfterMove(q) \in Request
<1>1. [q EXCEPT !.at = "moving"] \in CopyRequest /\ [q EXCEPT !.at = "crediting"] \in CopyRequest
  BY DEF CopyRequest
<1>2. [q EXCEPT !.at = "crediting", !.copy.area = q.area] \in CopyRequest
  <2>1. [q.copy EXCEPT !.area = q.area] \in Row
    BY DEF CopyRequest, Row
  <2> QED
    BY <2>1 DEF CopyRequest
<1>3. Idle \in Request
  BY DEF Request
<1> QED
  BY <1>1, <1>2, <1>3 DEF AfterUpsert, AfterMove, Request

(***************************************************************************)
(* The inductive invariant.  The four promises are not inductive by        *)
(* themselves: a full save writes key, number and completed_at back from a *)
(* copy, so the copies in flight must fit their rows, and an insert counts *)
(* on with the number it was given, so only one request may hold one.      *)
(***************************************************************************)
CopyFits(q) ==
  q.at \in Holding =>
    /\ q.slice \in DOMAIN rows
    /\ q.copy.key = rows[q.slice].key /\ q.copy.number = rows[q.slice].number
    /\ q.copy.completed <=> q.copy.status = "shipped"

Counted ==
  \A r \in Requests : At(r, "minted") =>
    req[r].number = next /\ \A q \in Requests : At(q, "minted") => q = r

\* No slice points at an area that is gone.
AreasAreLive == \A s \in DOMAIN rows : rows[s].area \in Live

Sound == /\ NumbersGapless /\ OneSlicePerKey
         /\ CompletedWhileShipped /\ AreasAreLive
         /\ \A r \in Requests : CopyFits(req[r])
         /\ Counted /\ next /= 0

Inv == TypeOK /\ Sound

LEMMA QuietKeeps ==
  ASSUME Inv, NEW r \in Requests, NEW q, Quiet(r, q) PROVE Inv'
<1> USE DEF Inv
<1>1. TypeOK'
  BY DEF Quiet, Goes, TypeOK
<1>2. req' \in [Requests -> Request] /\ req' = [req EXCEPT ![r] = q]
  BY <1>1 DEF Quiet, Goes, TypeOK
<1>3. \A p \in Requests : CopyFits(req[p])'
  <2>1. CopyFits(q)
    BY DEF Quiet, Loaded, CopyFits, Sound, CompletedWhileShipped
  <2>2. \A p \in Requests : CopyFits(req'[p])
    BY <1>2, <2>1 DEF TypeOK, Sound
  <2> QED
    BY <2>2 DEF CopyFits, Quiet
<1>4. Counted'
  BY <1>2 DEF Sound, Counted, At, Quiet, TypeOK
<1> QED
  BY <1>1, <1>3, <1>4 DEF Quiet, Sound, NumbersGapless, OneSlicePerKey,
                          CompletedWhileShipped, AreasAreLive, Live

\* A save writes one row that keeps its key and number.
Saved(r, x, row, q) ==
  /\ x \in DOMAIN rows /\ row \in Row
  /\ row.key = rows[x].key /\ row.number = rows[x].number
  /\ row.completed <=> row.status = "shipped"
  /\ row.area \in Live
  /\ rows' = [rows EXCEPT ![x] = row]
  /\ q \in Request /\ q.at /= "minted" /\ CopyFits(q)
  /\ Goes(r, q)
  /\ event' \in Event \cup {NoEvent}
  /\ UNCHANGED <<areas, next>>

LEMMA SavedKeeps ==
  ASSUME Inv, NEW r \in Requests, NEW x, NEW row, NEW q, Saved(r, x, row, q)
  PROVE  Inv'
<1> USE DEF Inv
<1>0. DOMAIN rows' = DOMAIN rows /\ x \in DOMAIN rows /\ row \in Row
      /\ \A s \in DOMAIN rows : rows'[s] = IF s = x THEN row ELSE rows[s]
  BY DEF Saved, TypeOK
<1>1. TypeOK'
  BY <1>0 DEF Saved, Goes, TypeOK
<1>2. \A s \in DOMAIN rows : rows'[s].key = rows[s].key /\ rows'[s].number = rows[s].number
  BY <1>0 DEF Saved
<1>3. NumbersGapless' /\ OneSlicePerKey'
  <2>1. {rows'[s].number : s \in DOMAIN rows'} = {rows[s].number : s \in DOMAIN rows}
    BY <1>0, <1>2
  <2>2. next' = next
    BY DEF Saved
  <2> QED
    BY <1>0, <1>2, <2>1, <2>2 DEF Sound, NumbersGapless, OneSlicePerKey
<1>4. CompletedWhileShipped' /\ AreasAreLive'
  BY <1>0 DEF Sound, CompletedWhileShipped, AreasAreLive, Saved, Live
<1>5. \A p \in Requests : CopyFits(req[p])'
  <2>1. \A p \in Requests : CopyFits(req'[p])
    BY DEF Saved, Goes, TypeOK, Sound
  <2> QED
    BY <1>0, <1>2, <2>1 DEF CopyFits
<1>6. Counted' /\ next' /= 0
  BY DEF Saved, Goes, TypeOK, Sound, Counted, At
<1> QED
  BY <1>1, <1>3, <1>4, <1>5, <1>6 DEF Sound

LEMMA SaveUpsertSaves ==
  ASSUME Inv, NEW r \in Requests, SaveUpsert(r)
  PROVE  Saved(r, req[r].slice, req[r].copy, AfterUpsert(req[r]))
<1>1. req[r] \in CopyRequest /\ req[r].at = "upserting"
  BY AtDecides DEF Inv, SaveUpsert, At
<1>2. CopyFits(req[r]) /\ req[r].copy \in Row
  BY <1>1 DEF Inv, Sound, CopyRequest
<1>3. AfterUpsert(req[r]) \in Request
  BY <1>1, CopyGoesOn
<1>4. AfterUpsert(req[r]).at /= "minted" /\ CopyFits(AfterUpsert(req[r]))
  BY <1>1, <1>2 DEF AfterUpsert, CopyFits, Holding, Idle, CopyRequest
<1> QED
  BY <1>1, <1>2, <1>3, <1>4 DEF Saved, SaveUpsert, CopyFits, Holding

LEMMA CreditSaves ==
  ASSUME Inv, NEW r \in Requests, Credit(r)
  PROVE  Saved(r, req[r].slice, [rows[req[r].slice] EXCEPT !.creator = req[r].by], Idle)
<1>1. req[r] \in CopyRequest /\ req[r].at = "crediting"
  BY AtDecides DEF Inv, Credit, At
<1>2. req[r].slice \in DOMAIN rows
  BY <1>1 DEF Inv, Sound, CopyFits, Holding
<1>3. rows[req[r].slice] \in Row /\ req[r].by \in Users \cup {Nobody}
  BY <1>1, <1>2 DEF Inv, TypeOK, CopyRequest
<1> DEFINE row == [rows[req[r].slice] EXCEPT !.creator = req[r].by]
<1>4. row \in Row /\ row.key = rows[req[r].slice].key /\ row.number = rows[req[r].slice].number
      /\ row.completed = rows[req[r].slice].completed
      /\ row.status = rows[req[r].slice].status /\ row.area = rows[req[r].slice].area
  BY <1>3 DEF Row
<1>5. rows' = [rows EXCEPT ![req[r].slice] = row]
  BY DEF Credit
<1>6. Idle \in Request /\ Idle.at /= "minted" /\ CopyFits(Idle)
  BY DEF Request, Idle, CopyFits, Holding
<1> QED
  BY <1>2, <1>4, <1>5, <1>6
  DEF Saved, Credit, Inv, Sound, CompletedWhileShipped, AreasAreLive

LEMMA SaveUpdateSaves ==
  ASSUME Inv, NEW r \in Requests, SaveUpdate(r)
  PROVE  Saved(r, req[r].slice, Edited(req[r]), AfterUpdate(req[r], Edited(req[r])))
<1> DEFINE q == req[r]
           row == Edited(q)
<1>1. q \in UpdateRequest /\ q.at = "updating"
  BY AtDecides DEF Inv, SaveUpdate, At
<1>2. CopyFits(q) /\ q.copy \in Row /\ q.slice \in Slices
      /\ q.status \in Statuses \cup {Keep} /\ q.area \in Places \cup {Keep}
  BY <1>1 DEF Inv, Sound, UpdateRequest
<1>3. /\ row \in Row /\ row.key = q.copy.key /\ row.number = q.copy.number
      /\ row.completed <=> row.status = "shipped"
      /\ row.area = q.copy.area
  <2>1. CASE q.status = Keep
    BY <1>1, <1>2, <2>1 DEF Edited, CopyFits, Holding
  <2>2. CASE q.status /= Keep
    <3>1. row = WithStatus(q.copy, q.status) /\ q.status \in Statuses
      BY <1>2, <2>2 DEF Edited
    <3>2. row \in Row
      BY <1>2, <3>1, Rows
    <3>3. row = [q.copy EXCEPT !.status = q.status, !.completed = (q.status = "shipped")]
      BY <3>1 DEF WithStatus
    <3>4. /\ row.key = q.copy.key /\ row.number = q.copy.number /\ row.area = q.copy.area
          /\ row.status = q.status /\ row.completed = (q.status = "shipped")
      BY <1>2, <3>3 DEF Row
    <3> QED
      BY <3>2, <3>4
  <2> QED
    BY <2>1, <2>2
<1>4. /\ q.slice \in DOMAIN rows
      /\ row.key = rows[q.slice].key /\ row.number = rows[q.slice].number
  BY <1>1, <1>2, <1>3 DEF CopyFits, Holding
<1>5. /\ AfterUpdate(q, row) \in Request /\ AfterUpdate(q, row).at /= "minted"
      /\ CopyFits(AfterUpdate(q, row))
  <2>1. CASE q.area = Keep
    BY <2>1 DEF AfterUpdate, Request, Idle, CopyFits, Holding
  <2>2. CASE q.area /= Keep
    <3>1. AfterUpdate(q, row) = [at |-> "moving", slice |-> q.slice, copy |-> row,
                                 area |-> q.area, by |-> Nobody]
      BY <2>2 DEF AfterUpdate
    <3>2. AfterUpdate(q, row) \in CopyRequest
      BY <1>2, <1>3, <2>2, <3>1 DEF CopyRequest
    <3> QED
      BY <1>3, <1>4, <3>1, <3>2 DEF Request, CopyFits, Holding
  <2> QED
    BY <2>1, <2>2
<1>6. event' \in Event \cup {NoEvent}
  <2>1. row.status \in Statuses /\ q.copy.status \in Statuses
    BY <1>2, <1>3 DEF Row
  <2> QED
    BY <1>2, <2>1 DEF SaveUpdate, Marked, Event
<1> QED
  BY <1>3, <1>4, <1>5, <1>6 DEF Saved, SaveUpdate

LEMMA SaveMarkSaves ==
  ASSUME Inv, NEW r \in Requests, SaveMark(r)
  PROVE  Saved(r, req[r].slice, WithStatus(rows[req[r].slice], req[r].status), Idle)
<1> DEFINE q == req[r]
           row == WithStatus(rows[q.slice], q.status)
<1>1. q \in MarkRequest /\ q.at = "marking"
  BY AtDecides DEF Inv, SaveMark, At
<1>2. q.slice \in DOMAIN rows /\ q.status \in Statuses /\ q.slice \in Slices /\ q.copy \in Row
  BY <1>1 DEF Inv, Sound, CopyFits, Holding, MarkRequest
<1>3. rows[q.slice] \in Row /\ rows[q.slice].area \in Live
  BY <1>2 DEF Inv, TypeOK, Sound, AreasAreLive
<1>4. row \in Row /\ row.key = rows[q.slice].key /\ row.number = rows[q.slice].number
      /\ (row.completed <=> row.status = "shipped") /\ row.area \in Live
  BY <1>2, <1>3, Rows DEF WithStatus, Row
<1>5. rows' = [rows EXCEPT ![q.slice] = row]
  BY DEF SaveMark
<1>6. Idle \in Request /\ Idle.at /= "minted" /\ CopyFits(Idle)
  BY DEF Request, Idle, CopyFits, Holding
<1>7. event' \in Event \cup {NoEvent}
  BY <1>2 DEF SaveMark, Marked, Event, Row
<1> QED
  BY <1>2, <1>4, <1>5, <1>6, <1>7 DEF Saved, SaveMark

LEMMA SaveMoveSaves ==
  ASSUME Inv, NEW r \in Requests, SaveMove(r)
  PROVE  Saved(r, req[r].slice, [rows[req[r].slice] EXCEPT !.area = req[r].area],
               AfterMove(req[r]))
<1> DEFINE q == req[r]
           row == [rows[q.slice] EXCEPT !.area = q.area]
<1>1. q \in CopyRequest /\ q.at = "moving"
  BY AtDecides DEF Inv, SaveMove, At
<1>2. /\ CopyFits(q) /\ q.slice \in DOMAIN rows /\ q.slice \in Slices
      /\ q.copy \in Row /\ q.area \in Places
  BY <1>1 DEF Inv, Sound, CopyFits, Holding, CopyRequest
<1>3. rows[q.slice] \in Row /\ q.area \in Live
  BY <1>2 DEF Inv, TypeOK, SaveMove
<1>4. row \in Row /\ row.key = rows[q.slice].key /\ row.number = rows[q.slice].number
      /\ row.completed = rows[q.slice].completed /\ row.status = rows[q.slice].status
      /\ row.area \in Live
  BY <1>2, <1>3 DEF Row
<1>5. row.completed <=> row.status = "shipped"
  BY <1>2, <1>4 DEF Inv, Sound, CompletedWhileShipped
<1>6. /\ AfterMove(q) \in Request /\ AfterMove(q).at /= "minted" /\ CopyFits(AfterMove(q))
  <2>1. AfterMove(q) \in Request
    BY <1>1, CopyGoesOn
  <2>2. [q EXCEPT !.at = "crediting", !.copy.area = q.area].at /= "minted"
        /\ CopyFits([q EXCEPT !.at = "crediting", !.copy.area = q.area])
    BY <1>1, <1>2 DEF CopyFits, Holding, CopyRequest, Row
  <2>3. Idle.at /= "minted" /\ CopyFits(Idle)
    BY DEF Idle, CopyFits, Holding
  <2> QED
    BY <2>1, <2>2, <2>3 DEF AfterMove
<1>7. event' \in Event \cup {NoEvent}
  BY <1>2 DEF SaveMove, Moved, Event, Row
<1>8. rows' = [rows EXCEPT ![q.slice] = row]
  BY DEF SaveMove
<1> QED
  BY <1>2, <1>4, <1>5, <1>6, <1>7, <1>8 DEF Saved, SaveMove

LEMMA MintKeeps ==
  ASSUME Inv, NEW r \in Requests, MintNumber(r) PROVE Inv'
<1> DEFINE q == Minted(req[r], next)
<1>1. req[r] \in CreateRequest
  BY AtDecides DEF Inv, MintNumber, At
<1>2. q \in Request /\ q.at = "minted" /\ q.number = next
  BY <1>1 DEF Minted, Request, MintedRequest, CreateRequest, Inv, TypeOK
<1>3. TypeOK'
  BY <1>2 DEF Inv, TypeOK, MintNumber, Goes
<1>4. \A p \in Requests : CopyFits(req[p])'
  <2>1. CopyFits(q)
    BY <1>2 DEF CopyFits, Holding
  <2>2. \A p \in Requests : CopyFits(req'[p])
    BY <2>1 DEF Inv, Sound, MintNumber, Goes, TypeOK
  <2> QED
    BY <2>2 DEF CopyFits, MintNumber
<1>5. Counted'
  BY <1>2 DEF Inv, TypeOK, Sound, Counted, MintNumber, Goes, At
<1> QED
  BY <1>3, <1>4, <1>5 DEF Inv, Sound, MintNumber, NumbersGapless, OneSlicePerKey,
                          CompletedWhileShipped, AreasAreLive, Live

LEMMA InsertKeeps ==
  ASSUME Inv, NEW r \in Requests, NEW x \in Slices, Insert(r, x) PROVE Inv'
<1> DEFINE row == NewRow(req[r])
<1>1. req[r] \in MintedRequest /\ req[r].number = next /\ next \in Nat
  BY AtDecides DEF Inv, TypeOK, Sound, Counted, Insert, At
<1>2. /\ row \in Row /\ row.number = next /\ row.key = req[r].key
      /\ row.area = req[r].area /\ row.area \in Live
      /\ row.completed <=> row.status = "shipped"
  BY <1>1 DEF NewRow, Row, MintedRequest, Insert
<1>3. /\ DOMAIN rows' = DOMAIN rows \cup {x} /\ x \notin DOMAIN rows
      /\ rows'[x] = row /\ \A s \in DOMAIN rows : rows'[s] = rows[s]
  BY DEF Insert, WithRow
<1>4. TypeOK'
  <2>1. rows' \in [DOMAIN rows' -> Row]
    BY <1>2, <1>3 DEF Inv, TypeOK, Insert, WithRow
  <2> QED
    BY <1>1, <1>3, <2>1 DEF Inv, TypeOK, Insert, Goes, Request, Event, Created
<1>5. NumbersGapless'
  <2>1. next' = next + 1
    BY <1>1 DEF Insert
  <2>2. {rows'[s].number : s \in DOMAIN rows'}
          = {rows[s].number : s \in DOMAIN rows} \cup {next}
    BY <1>2, <1>3
  <2>3. {rows'[s].number : s \in DOMAIN rows'} = 1 .. next' - 1
    <3>1. next >= 1 \/ next = 0
      BY <1>1
    <3>2. next /= 0
      BY DEF Inv, Sound
    <3> QED
      BY <1>1, <2>1, <2>2, <3>1, <3>2 DEF Inv, Sound, NumbersGapless
  <2>4. \A s \in DOMAIN rows : rows[s].number /= next
    BY <1>1 DEF Insert, NumberIsFree
  <2> QED
    BY <1>2, <1>3, <2>3, <2>4 DEF Inv, Sound, NumbersGapless
<1>6. OneSlicePerKey'
  <2>1. row.key = NoKey \/ \A s \in DOMAIN rows : rows[s].key /= row.key
    BY <1>2 DEF Insert, KeyIsFree
  <2> QED
    BY <1>3, <2>1 DEF Inv, Sound, OneSlicePerKey
<1>7. CompletedWhileShipped' /\ AreasAreLive'
  BY <1>2, <1>3 DEF Inv, Sound, CompletedWhileShipped, AreasAreLive, Live, Insert
<1>8. \A p \in Requests : CopyFits(req[p])'
  <2>1. CopyFits(Idle)
    BY DEF Idle, CopyFits, Holding
  <2>2. \A p \in Requests : CopyFits(req'[p])
    BY <2>1 DEF Inv, Sound, Insert, Goes, TypeOK
  <2> QED
    BY <1>3, <2>2 DEF CopyFits
<1>9. Counted' /\ next' /= 0
  <2>1. Counted'
    BY DEF Inv, TypeOK, Sound, Counted, Insert, Goes, At, Idle
  <2> QED
    BY <1>1, <2>1 DEF Insert
<1> QED
  BY <1>4, <1>5, <1>6, <1>7, <1>8, <1>9 DEF Inv, Sound

LEMMA DeleteAreaKeeps ==
  ASSUME Inv, NEW r \in Requests, DeleteArea(r) PROVE Inv'
<1> DEFINE gone == req[r].area
<1>1. DOMAIN rows' = DOMAIN rows
  BY DEF DeleteArea
<1>2. \A s \in DOMAIN rows :
        /\ rows[s] \in Row
        /\ rows'[s] = IF rows[s].area = gone THEN [rows[s] EXCEPT !.area = Inbox]
                      ELSE rows[s]
  BY DEF DeleteArea, Inv, TypeOK
<1>3. \A s \in DOMAIN rows :
        /\ rows'[s] \in Row
        /\ rows'[s].key = rows[s].key /\ rows'[s].number = rows[s].number
        /\ rows'[s].completed = rows[s].completed /\ rows'[s].status = rows[s].status
        /\ rows'[s].area = IF rows[s].area = gone THEN Inbox ELSE rows[s].area
  BY <1>2 DEF Row, Places
<1>4. TypeOK'
  <2>1. rows' \in [DOMAIN rows' -> Row]
    <3>1. rows' = [s \in DOMAIN rows |-> rows'[s]]
      BY DEF DeleteArea
    <3> QED
      BY <1>1, <1>3, <3>1
  <2>2. Idle \in Request
    BY DEF Request
  <2> QED
    BY <1>1, <2>1, <2>2 DEF Inv, TypeOK, DeleteArea, Goes
<1>5. NumbersGapless' /\ OneSlicePerKey'
  <2>1. {rows'[s].number : s \in DOMAIN rows'} = {rows[s].number : s \in DOMAIN rows}
    BY <1>1, <1>3
  <2>2. next' = next
    BY DEF DeleteArea
  <2> QED
    BY <1>1, <1>3, <2>1, <2>2 DEF Inv, Sound, NumbersGapless, OneSlicePerKey
<1>6. CompletedWhileShipped' /\ AreasAreLive'
  BY <1>1, <1>3 DEF Inv, Sound, CompletedWhileShipped, AreasAreLive, Live, DeleteArea
<1>7. \A p \in Requests : CopyFits(req[p])'
  <2>1. CopyFits(Idle)
    BY DEF Idle, CopyFits, Holding
  <2>2. \A p \in Requests : CopyFits(req'[p])
    BY <2>1 DEF Inv, Sound, DeleteArea, Goes, TypeOK
  <2> QED
    BY <1>1, <1>3, <2>2 DEF CopyFits
<1>8. Counted' /\ next' /= 0
  BY DEF Inv, TypeOK, Sound, Counted, DeleteArea, Goes, At, Idle
<1> QED
  BY <1>4, <1>5, <1>6, <1>7, <1>8 DEF Inv, Sound

LEMMA CreateAreaKeeps ==
  ASSUME Inv, NEW a \in Areas, CreateArea(a) PROVE Inv'
<1>1. TypeOK'
  BY DEF Inv, TypeOK, CreateArea
<1>2. Sound'
  BY DEF Inv, Sound, CreateArea, NumbersGapless, OneSlicePerKey, CompletedWhileShipped,
         AreasAreLive, Live, CopyFits, Counted, At
<1> QED
  BY <1>1, <1>2 DEF Inv

LEMMA InvariantHolds == Spec => []Inv
<1>1. Init => Inv
  <2> SUFFICES ASSUME Init PROVE Inv
    OBVIOUS
  <2>1. TypeOK
    BY DEF Init, TypeOK, Request
  <2>2. NumbersGapless
    <3>1. DOMAIN rows = {} /\ 1 .. next - 1 = {}
      BY DEF Init
    <3> QED
      BY <3>1 DEF NumbersGapless
  <2>3. OneSlicePerKey /\ CompletedWhileShipped /\ AreasAreLive
    BY DEF Init, OneSlicePerKey, CompletedWhileShipped, AreasAreLive
  <2>4. (\A r \in Requests : CopyFits(req[r])) /\ Counted /\ next /= 0
    BY DEF Init, CopyFits, Counted, At, Idle, Holding
  <2> QED
    BY <2>1, <2>2, <2>3, <2>4 DEF Inv, Sound
<1>2. Inv /\ [Next]_vars => Inv'
  <2> SUFFICES ASSUME Inv, [Next]_vars PROVE Inv'
    OBVIOUS
  <2>1. CASE UNCHANGED vars
    BY <2>1 DEF vars, Inv, TypeOK, Sound, NumbersGapless, OneSlicePerKey,
                CompletedWhileShipped, AreasAreLive, Live, CopyFits, Counted, At
  <2>2. ASSUME NEW r \in Requests, Ask(r) \/ Stop(r) PROVE Inv'
    <3>1. PICK q : Quiet(r, q)
      BY <2>2, ReadsOnly DEF Reads, Inv
    <3> QED
      BY <3>1, QuietKeeps
  <2>3. ASSUME NEW r \in Requests, Save(r) PROVE Inv'
    <3>1. CASE MintNumber(r)
      BY <3>1, MintKeeps
    <3>2. ASSUME NEW x \in Slices, Insert(r, x) PROVE Inv'
      BY <3>2, InsertKeeps
    <3>3. CASE SaveUpsert(r)
      BY <3>3, SaveUpsertSaves, SavedKeeps
    <3>4. CASE Credit(r)
      BY <3>4, CreditSaves, SavedKeeps
    <3>5. CASE SaveUpdate(r)
      BY <3>5, SaveUpdateSaves, SavedKeeps
    <3>6. CASE SaveMark(r)
      BY <3>6, SaveMarkSaves, SavedKeeps
    <3>7. CASE SaveMove(r)
      BY <3>7, SaveMoveSaves, SavedKeeps
    <3>8. CASE DeleteArea(r)
      BY <3>8, DeleteAreaKeeps
    <3> QED
      BY <2>3, <3>1, <3>2, <3>3, <3>4, <3>5, <3>6, <3>7, <3>8 DEF Save
  <2>4. ASSUME NEW a \in Areas, CreateArea(a) PROVE Inv'
    BY <2>4, CreateAreaKeeps
  <2> QED
    BY <2>1, <2>2, <2>3, <2>4 DEF Next
<1> QED
  BY <1>1, <1>2, PTL DEF Spec

\* The type invariant of the board.
THEOREM TypeCorrect == Spec => []TypeOK
BY InvariantHolds, PTL DEF Inv

\* Refs are stable names: numbers are handed out in order, without holes and
\* never twice, however creations overlap, fail or die.
THEOREM NumbersAreGapless == Spec => []NumbersGapless
BY InvariantHolds, PTL DEF Inv, Sound

\* An external key names at most one slice, and no slice points at an area
\* that is gone, however requests overlap.
THEOREM KeysAndAreasHold == Spec => [](OneSlicePerKey /\ AreasAreLive)
<1>1. Inv => OneSlicePerKey /\ AreasAreLive
  BY DEF Inv, Sound
<1> QED
  BY <1>1, InvariantHolds, PTL

\* completed_at is set exactly while a slice is shipped, whichever of the
\* full and the partial saves came last.
THEOREM CompletionFollowsStatus == Spec => []CompletedWhileShipped
BY InvariantHolds, PTL DEF Inv, Sound

-----------------------------------------------------------------------------
(***************************************************************************)
(* The history.  A step that is not the save of a stale copy of s changes  *)
(* the status and the area of s with the row that tells it, tells no move  *)
(* that did not happen, and keeps the capturer.  The last needs that the   *)
(* handler which credits loaded a slice without one.                       *)
(***************************************************************************)
CreditsBlank == \A r \in Requests : At(r, "crediting") => req[r].copy.creator = Nobody

TellsChange(s) ==
  /\ rows'[s].status /= rows[s].status
       => event' = Marked(s, rows[s].status, rows'[s].status)
  /\ rows'[s].area /= rows[s].area /\ rows[s].area \in areas' \cup {Inbox}
       => event' = Moved(s, rows[s].area, rows'[s].area)

TellsNoMore(s) ==
  \A from, to \in Places : event' = Moved(s, from, to) => rows'[s].area /= rows[s].area

KeepsCapturer(s) == rows[s].creator /= Nobody => rows'[s].creator = rows[s].creator

Honest(s) == TellsChange(s) /\ TellsNoMore(s) /\ KeepsCapturer(s)

\* The kinds of activity rows are told apart, and a move names its slice.
LEMMA EventsDiffer ==
  ASSUME NEW s \in Slices, NEW from \in Places, NEW to \in Places
  PROVE  /\ NoEvent /= Moved(s, from, to)
         /\ \A t : Created(t) /= Moved(s, from, to)
         /\ \A t, f, g : Marked(t, f, g) /= Moved(s, from, to)
         /\ \A t, f, g : Moved(t, f, g) = Moved(s, from, to) => t = s /\ f = from /\ g = to
<1>1. Moved(s, from, to) \in [target : Slices, verb : {"created", "marked", "moved"},
                              from : Statuses \cup Areas \cup {Inbox, Keep},
                              to : Statuses \cup Areas \cup {Inbox, Keep}]
  BY DEF Moved, Places
<1>2. NoEvent /= Moved(s, from, to)
  BY <1>1, NamesApart
<1>3. /\ Moved(s, from, to).verb = "moved" /\ Moved(s, from, to).target = s
      /\ Moved(s, from, to).from = from /\ Moved(s, from, to).to = to
  BY DEF Moved
<1>4. \A t : Created(t).verb = "created"
  BY DEF Created
<1>5. \A t, f, g : Marked(t, f, g).verb = "marked"
  BY DEF Marked
<1>6. \A t, f, g : Moved(t, f, g).target = t /\ Moved(t, f, g).from = f /\ Moved(t, f, g).to = g
  BY DEF Moved
<1> QED
  BY <1>2, <1>3, <1>4, <1>5, <1>6

\* A row left alone by a step that tells nothing of it.
LEMMA Untouched ==
  ASSUME Inv, NEW s \in DOMAIN rows,
         rows'[s] = rows[s],
         \A from, to \in Places : event' /= Moved(s, from, to)
  PROVE  Honest(s)
BY DEF Honest, TellsChange, TellsNoMore, KeepsCapturer

\* A request that ends or goes on with a copy of s had an up-to-date one.
LEMMA FreshCopy ==
  ASSUME Inv, NEW r \in Requests, req[r].at \in Holding, req'[r] /= req[r],
         ~ SavesStaleCopy(req[r].slice)
  PROVE  req[r].copy = rows[req[r].slice]
<1>1. req[r] \in CopyRequest \cup UpdateRequest \cup MarkRequest
  BY AtDecides DEF Inv, Holding
<1>2. "copy" \in DOMAIN req[r]
  BY <1>1 DEF CopyRequest, UpdateRequest, MarkRequest
<1> QED
  BY <1>2 DEF SavesStaleCopy

\* A save of one row by a request that moves on.
LEMMA SavedFresh ==
  ASSUME Inv, NEW r \in Requests, NEW row, NEW q, Saved(r, req[r].slice, row, q),
         req[r].at \in Holding, q.at /= req[r].at,
         NEW s \in DOMAIN rows, ~ SavesStaleCopy(s)
  PROVE  /\ s /= req[r].slice => rows'[s] = rows[s]
         /\ s = req[r].slice => rows'[s] = row /\ req[r].copy = rows[s] /\ rows[s] \in Row
<1>1. req'[r] = q
  BY DEF Saved, Goes, Inv, TypeOK
<1>2. /\ s /= req[r].slice => rows'[s] = rows[s]
      /\ s = req[r].slice => rows'[s] = row
  BY DEF Saved
<1>3. rows[s] \in Row
  BY DEF Inv, TypeOK
<1>4. s = req[r].slice => req[r].copy = rows[s]
  BY <1>1, FreshCopy
<1> QED
  BY <1>2, <1>3, <1>4

LEMMA StepIsHonest ==
  ASSUME Inv, CreditsBlank, Next, NEW s \in DOMAIN rows, ~ SavesStaleCopy(s)
  PROVE  Honest(s)
<1>0. s \in Slices /\ rows[s] \in Row
  BY DEF Inv, TypeOK
<1>1. ASSUME NEW a \in Areas, CreateArea(a) PROVE Honest(s)
  BY <1>1, <1>0, Untouched, EventsDiffer DEF CreateArea
<1>2. ASSUME NEW r \in Requests, Ask(r) \/ Stop(r) PROVE Honest(s)
  <2>1. PICK q : Quiet(r, q)
    BY <1>2, ReadsOnly DEF Reads, Inv
  <2> QED
    BY <2>1, <1>0, Untouched, EventsDiffer DEF Quiet
<1>3. ASSUME NEW r \in Requests, MintNumber(r) PROVE Honest(s)
  BY <1>3, <1>0, Untouched, EventsDiffer DEF MintNumber
<1>4. ASSUME NEW r \in Requests, NEW x \in Slices, Insert(r, x) PROVE Honest(s)
  <2>1. rows'[s] = rows[s] /\ event' = Created(x)
    BY <1>4 DEF Insert, WithRow
  <2> QED
    BY <2>1, <1>0, Untouched, EventsDiffer
<1>5. ASSUME NEW r \in Requests, SaveUpsert(r) PROVE Honest(s)
  <2>1. req[r].at = "upserting" /\ AfterUpsert(req[r]).at /= "upserting"
    <3>1. req[r].at = "upserting" /\ req[r] \in CopyRequest
      BY <1>5, AtDecides DEF SaveUpsert, At, Inv
    <3> QED
      BY <3>1 DEF AfterUpsert, CopyRequest, Idle
  <2>2. rows'[s] = rows[s]
    <3>1. Saved(r, req[r].slice, req[r].copy, AfterUpsert(req[r]))
      BY <1>5, SaveUpsertSaves
    <3>2. req[r].at \in Holding
      BY <2>1 DEF Holding
    <3> QED
      BY <2>1, <3>1, <3>2, SavedFresh
  <2>3. event' = NoEvent
    BY <1>5 DEF SaveUpsert
  <2> QED
    BY <2>2, <2>3, <1>0, Untouched, EventsDiffer
<1>6. ASSUME NEW r \in Requests, Credit(r) PROVE Honest(s)
  <2>1. req[r].at = "crediting" /\ Idle.at /= "crediting"
    BY <1>6 DEF Credit, At, Idle
  <2> DEFINE row == [rows[req[r].slice] EXCEPT !.creator = req[r].by]
  <2>2. /\ s /= req[r].slice => rows'[s] = rows[s]
        /\ s = req[r].slice => rows'[s] = row /\ req[r].copy = rows[s] /\ rows[s] \in Row
    <3>1. Saved(r, req[r].slice, row, Idle)
      BY <1>6, CreditSaves
    <3>2. req[r].at \in Holding
      BY <2>1 DEF Holding
    <3> HIDE DEF row
    <3> QED
      BY <2>1, <3>1, <3>2, SavedFresh
  <2>3. event' = NoEvent
    BY <1>6 DEF Credit
  <2>4. CASE s /= req[r].slice
    BY <2>2, <2>3, <2>4, <1>0, Untouched, EventsDiffer
  <2>5. CASE s = req[r].slice
    <3>1. rows[s].creator = Nobody
      BY <2>1, <2>2, <2>5 DEF CreditsBlank, At
    <3>2. rows'[s].status = rows[s].status /\ rows'[s].area = rows[s].area
      BY <2>2, <2>5 DEF Row
    <3> QED
      BY <3>1, <3>2, <2>3, <1>0, EventsDiffer DEF Honest, TellsChange, TellsNoMore, KeepsCapturer
  <2> QED
    BY <2>4, <2>5
<1>7. ASSUME NEW r \in Requests, SaveUpdate(r) PROVE Honest(s)
  <2> DEFINE row == Edited(req[r])
  <2>0. req[r].at = "updating" /\ req[r] \in UpdateRequest
    BY <1>7, AtDecides DEF SaveUpdate, At, Inv
  <2>1. AfterUpdate(req[r], row).at /= "updating"
    BY <2>0 DEF AfterUpdate, Idle
  <2>2. /\ s /= req[r].slice => rows'[s] = rows[s]
        /\ s = req[r].slice => rows'[s] = row /\ req[r].copy = rows[s] /\ rows[s] \in Row
    <3>1. Saved(r, req[r].slice, row, AfterUpdate(req[r], row))
      BY <1>7, SaveUpdateSaves
    <3>2. req[r].at \in Holding
      BY <2>0 DEF Holding
    <3> HIDE DEF row
    <3> QED
      BY <2>0, <2>1, <3>1, <3>2, SavedFresh
  <2>3. event' = IF row.status = req[r].copy.status THEN NoEvent
                 ELSE Marked(req[r].slice, req[r].copy.status, row.status)
    BY <1>7 DEF SaveUpdate
  <2>4. CASE s /= req[r].slice
    BY <2>2, <2>3, <2>4, <1>0, Untouched, EventsDiffer
  <2>5. CASE s = req[r].slice
    <3>1. row.area = rows[s].area /\ row.creator = rows[s].creator
      BY <2>2, <2>5 DEF Edited, WithStatus, Row
    <3> QED
      BY <3>1, <2>2, <2>3, <2>5, <1>0, EventsDiffer
      DEF Honest, TellsChange, TellsNoMore, KeepsCapturer
  <2> QED
    BY <2>4, <2>5
<1>8. ASSUME NEW r \in Requests, SaveMark(r) PROVE Honest(s)
  <2> DEFINE row == WithStatus(rows[req[r].slice], req[r].status)
  <2>1. req[r].at = "marking" /\ Idle.at /= "marking"
    BY <1>8 DEF SaveMark, At, Idle
  <2>2. /\ s /= req[r].slice => rows'[s] = rows[s]
        /\ s = req[r].slice => rows'[s] = row /\ req[r].copy = rows[s] /\ rows[s] \in Row
    <3>1. Saved(r, req[r].slice, row, Idle)
      BY <1>8, SaveMarkSaves
    <3>2. req[r].at \in Holding
      BY <2>1 DEF Holding
    <3> HIDE DEF row
    <3> QED
      BY <2>1, <3>1, <3>2, SavedFresh
  <2>3. event' = IF req[r].status = req[r].copy.status THEN NoEvent
                 ELSE Marked(req[r].slice, req[r].copy.status, req[r].status)
    BY <1>8 DEF SaveMark
  <2>4. CASE s /= req[r].slice
    BY <2>2, <2>3, <2>4, <1>0, Untouched, EventsDiffer
  <2>5. CASE s = req[r].slice
    <3>1. /\ row.area = rows[s].area /\ row.creator = rows[s].creator
          /\ row.status = req[r].status
      BY <2>2, <2>5 DEF WithStatus, Row
    <3> QED
      BY <3>1, <2>2, <2>3, <2>5, <1>0, EventsDiffer
      DEF Honest, TellsChange, TellsNoMore, KeepsCapturer
  <2> QED
    BY <2>4, <2>5
<1>9. ASSUME NEW r \in Requests, SaveMove(r) PROVE Honest(s)
  <2> DEFINE row == [rows[req[r].slice] EXCEPT !.area = req[r].area]
  <2>1. req[r].at = "moving" /\ AfterMove(req[r]).at /= "moving"
    <3>1. req[r].at = "moving" /\ req[r] \in CopyRequest
      BY <1>9, AtDecides DEF SaveMove, At, Inv
    <3> QED
      BY <3>1 DEF AfterMove, CopyRequest, Idle
  <2>2. /\ s /= req[r].slice => rows'[s] = rows[s]
        /\ s = req[r].slice => rows'[s] = row /\ req[r].copy = rows[s] /\ rows[s] \in Row
    <3>1. Saved(r, req[r].slice, row, AfterMove(req[r]))
      BY <1>9, SaveMoveSaves
    <3>2. req[r].at \in Holding
      BY <2>1 DEF Holding
    <3> HIDE DEF row
    <3> QED
      BY <2>1, <3>1, <3>2, SavedFresh
  <2>3. event' = IF req[r].area = req[r].copy.area THEN NoEvent
                 ELSE Moved(req[r].slice, req[r].copy.area, req[r].area)
    BY <1>9 DEF SaveMove
  <2>4. CASE s /= req[r].slice
    BY <2>2, <2>3, <2>4, <1>0, Untouched, EventsDiffer
  <2>5. CASE s = req[r].slice
    <3>1. /\ row.status = rows[s].status /\ row.creator = rows[s].creator
          /\ row.area = req[r].area
      BY <2>2, <2>5 DEF Row
    <3>2. event' = IF row.area = rows[s].area THEN NoEvent
                   ELSE Moved(s, rows[s].area, row.area)
      BY <3>1, <2>2, <2>3, <2>5
    <3>3. TellsChange(s) /\ KeepsCapturer(s)
      BY <3>1, <3>2, <2>2, <2>5 DEF TellsChange, KeepsCapturer
    <3>4. TellsNoMore(s)
      BY <3>2, <2>2, <2>5, <1>0, EventsDiffer DEF TellsNoMore
    <3> QED
      BY <3>3, <3>4 DEF Honest
  <2> QED
    BY <2>4, <2>5
<1>10. ASSUME NEW r \in Requests, DeleteArea(r) PROVE Honest(s)
  <2>1. req[r] \in DeleteRequest
    BY <1>10, AtDecides DEF DeleteArea, At, Inv
  <2>2. req[r].area \notin areas' \cup {Inbox}
    BY <1>10, <2>1, NamesApart DEF DeleteArea, DeleteRequest
  <2>3. rows'[s] = IF rows[s].area = req[r].area THEN [rows[s] EXCEPT !.area = Inbox]
                   ELSE rows[s]
    BY <1>10 DEF DeleteArea
  <2>4. rows'[s].status = rows[s].status /\ rows'[s].creator = rows[s].creator
    BY <2>3, <1>0 DEF Row
  <2>5. event' = NoEvent
    BY <1>10 DEF DeleteArea
  <2> QED
    BY <2>2, <2>3, <2>4, <2>5, <1>0, EventsDiffer
    DEF Honest, TellsChange, TellsNoMore, KeepsCapturer
<1> QED
  BY <1>1, <1>2, <1>3, <1>4, <1>5, <1>6, <1>7, <1>8, <1>9, <1>10 DEF Next, Save

\* A handler credits only what it saw without a capturer.
LEMMA BlanksAreCredited == Spec => []CreditsBlank
<1>1. Init => CreditsBlank
  BY DEF Init, CreditsBlank, At, Idle
<1>2. Inv /\ CreditsBlank /\ [Next]_vars => CreditsBlank'
  <2> SUFFICES ASSUME Inv, CreditsBlank, [Next]_vars,
                      NEW r \in Requests, req'[r].at = "crediting"
               PROVE  req'[r].copy.creator = Nobody
    BY DEF CreditsBlank, At
  <2>0. req \in [Requests -> Request]
    BY DEF Inv, TypeOK
  <2>1. CASE req'[r] = req[r]
    BY <2>1 DEF CreditsBlank, At
  <2>2. ASSUME NEW p \in Requests, Ask(p) \/ Stop(p) PROVE req'[r].copy.creator = Nobody
    <3>1. ASSUME NEW q, Goes(p, q), q.at /= "crediting" PROVE req'[r] = req[r]
      BY <3>1, <2>0 DEF Goes
    <3> QED
      BY <2>2, <3>1, <2>1
      DEF Ask, Stop, AskCreate, AskUpsert, AskUpdate, AskMark, AskMove, AskDeleteArea, Idle
  <2>3. ASSUME NEW p \in Requests, Save(p) PROVE req'[r].copy.creator = Nobody
    <3>1. ASSUME NEW q, Goes(p, q), q.at /= "crediting" PROVE req'[r] = req[r]
      BY <3>1, <2>0 DEF Goes
    <3>2. CASE \/ MintNumber(p) \/ (\E x \in Slices : Insert(p, x)) \/ Credit(p)
               \/ SaveUpdate(p) \/ SaveMark(p) \/ DeleteArea(p)
      BY <3>1, <3>2, <2>1
      DEF MintNumber, Minted, Insert, Credit, SaveUpdate, AfterUpdate, SaveMark, DeleteArea, Idle
    <3>3. CASE SaveUpsert(p)
      <4>1. req[p] \in CopyRequest /\ Goes(p, AfterUpsert(req[p]))
        BY <3>3, AtDecides DEF SaveUpsert, At, Inv
      <4>2. AfterUpsert(req[p]).at = "crediting" => AfterUpsert(req[p]).copy.creator = Nobody
        BY <4>1 DEF AfterUpsert, Uncredited, Idle, CopyRequest
      <4> QED
        BY <4>1, <4>2, <2>0, <2>1 DEF Goes
    <3>4. CASE SaveMove(p)
      <4>1. req[p] \in CopyRequest /\ Goes(p, AfterMove(req[p]))
        BY <3>4, AtDecides DEF SaveMove, At, Inv
      <4>2. AfterMove(req[p]).at = "crediting" => AfterMove(req[p]).copy.creator = Nobody
        BY <4>1 DEF AfterMove, Uncredited, Idle, CopyRequest, Row
      <4> QED
        BY <4>1, <4>2, <2>0, <2>1 DEF Goes
    <3> QED
      BY <2>3, <3>2, <3>3, <3>4 DEF Save
  <2>4. CASE (\E a \in Areas : CreateArea(a)) \/ UNCHANGED vars
    BY <2>4, <2>1 DEF CreateArea, vars
  <2> QED
    BY <2>2, <2>3, <2>4 DEF Next
<1> QED
  BY <1>1, <1>2, InvariantHolds, PTL DEF Spec

\* A slice's thread tells its status and area changes, and no move that was
\* none, except by a stale copy, for any number of overlapping requests.
THEOREM ThreadIsHonest == Spec => ThreadTellsTheStory
<1>1. Inv /\ CreditsBlank /\ [Next]_vars =>
        [\A s \in DOMAIN rows : SavesStaleCopy(s) \/
           /\ rows'[s].status /= rows[s].status
                => event' = Marked(s, rows[s].status, rows'[s].status)
           /\ rows'[s].area /= rows[s].area /\ rows[s].area \in areas' \cup {Inbox}
                => event' = Moved(s, rows[s].area, rows'[s].area)
           /\ \A from, to \in Places :
                event' = Moved(s, from, to) => rows'[s].area /= rows[s].area]_vars
  BY StepIsHonest DEF Honest, TellsChange, TellsNoMore
<1> QED
  BY <1>1, InvariantHolds, BlanksAreCredited, PTL DEF Spec, ThreadTellsTheStory

\* The first capturer stays, unless a request that saw none writes over it.
THEOREM FirstCapturerStays == Spec => CapturerKept
<1>1. Inv /\ CreditsBlank /\ [Next]_vars =>
        [\A s \in DOMAIN rows : rows[s].creator /= Nobody
           => rows'[s].creator = rows[s].creator \/ SavesStaleCopy(s)]_vars
  BY StepIsHonest DEF Honest, KeepsCapturer
<1> QED
  BY <1>1, InvariantHolds, BlanksAreCredited, PTL DEF Spec, CapturerKept

=============================================================================
