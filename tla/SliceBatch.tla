----------------------------- MODULE SliceBatch -----------------------------
(***************************************************************************)
(* update_slice of the MCP server with a list of slices: one transaction   *)
(* that goes through them in the caller's order, locking each row it saves *)
(* until the commit (mcp/server.py).  Calls of several server processes    *)
(* and the statements of web requests that write many slices at once (an   *)
(* area deleted, a member gone) meet on the rows; the database ends a      *)
(* circle of waiting by aborting one of them.                              *)
(***************************************************************************)
EXTENDS Naturals, Sequences, SequencesExt

CONSTANTS
  Rows,        \* slices of the org
  Unknown,     \* an id the org does not have
  NoOne,       \* the holder of a row that is not locked
  Calls,       \* calls of update_slice
  Sweeps,      \* web requests that update many slices in one statement
  Processes,   \* server processes
  BatchLimit   \* BATCH_LIMIT

ASSUME BatchAssumption ==
  /\ Unknown \notin Rows /\ NoOne \notin Calls \cup Sweeps /\ Calls \cap Sweeps = {}
  /\ BatchLimit \in Nat \ {0} /\ IsFiniteSet(Rows)

VARIABLES
  process,  \* where each call comes in
  statusOf,   \* the committed status of each slice
  tx,       \* each call and sweep: how far it is, what it asks, loaded and wrote
  holder,   \* the transaction that has a row locked, or NoOne
  saved     \* history: [by, slice, event] of committed saves; event: an activity row

bvars == <<process, statusOf, tx, holder, saved>>

Writers == Calls \cup Sweeps
Decisions == {"open", "shipped"}

Row == [by : Writers, slice : Rows, event : BOOLEAN]
Transaction ==
  [at : {"new", "load", "save", "done", "failed"}, ids : Seq(Rows \cup {Unknown}),
   left : Seq(Rows \cup {Unknown}), to : Decisions, old : Decisions, wrote : SUBSET Row]

BatchTypeOK ==
  /\ process \in [Calls -> Processes] /\ statusOf \in [Rows -> Decisions]
  /\ tx \in [Writers -> Transaction] /\ \A w \in Writers : \A e \in tx[w].wrote : e.by = w
  /\ holder \in [Rows -> Writers \cup {NoOne}]
  /\ saved \subseteq Row

New == [at |-> "new", ids |-> <<>>, left |-> <<>>, to |-> "open", old |-> "open", wrote |-> {}]

\* Open slices.
BatchInit ==
  /\ process \in [Calls -> Processes]
  /\ statusOf = [s \in Rows |-> "open"]
  /\ tx = [w \in Writers |-> New]
  /\ holder = [s \in Rows |-> NoOne]
  /\ saved = {}

-----------------------------------------------------------------------------
Running(w) == tx[w].at \in {"load", "save"}
Moves(w, there) == tx' = [tx EXCEPT ![w] = there]

\* The blocks of one process run one after the other on its one thread.
ThreadFree(c) ==
  \A d \in Calls : process[d] = process[c] => ~Running(d)

\* _reject_unbatchable; `textual`: an argument a batch may not carry.
Accepts(ids, textual) ==
  /\ ids # <<>> /\ Len(ids) <= BatchLimit /\ ~textual
  /\ \A i, j \in DOMAIN ids : ids[i] = ids[j] => i = j

Ask(c, ids, to, textual) ==
  /\ tx[c].at = "new" /\ ThreadFree(c)
  /\ Moves(c, IF Accepts(ids, textual)
             THEN [tx[c] EXCEPT !.at = "load", !.ids = ids, !.left = ids, !.to = to]
             ELSE [tx[c] EXCEPT !.at = "failed"])
  /\ UNCHANGED <<process, statusOf, holder, saved>>

\* The rows of the statement, in the order the database comes upon them.
Sweep(w, ids) ==
  /\ tx[w].at = "new" /\ ids # <<>>
  /\ Moves(w, [tx[w] EXCEPT !.at = "save", !.ids = ids, !.left = ids])
  /\ UNCHANGED <<process, statusOf, holder, saved>>

Released(w) == [s \in Rows |-> IF holder[s] = w THEN NoOne ELSE holder[s]]

\* Mutant: a call the database gave up on starts over.
AfterFailure_Retried(w) == [tx[w] EXCEPT !.at = "load", !.left = tx[w].ids, !.wrote = {}]

AfterFailure(w) == [New EXCEPT !.at = "failed"]

RollsBack(w) ==
  /\ Moves(w, AfterFailure(w))
  /\ holder' = Released(w)
  /\ UNCHANGED <<process, statusOf, saved>>

\* _resolve_slice: an id the org does not have fails the call.
Load(c) ==
  /\ c \in Calls /\ tx[c].at = "load"
  /\ LET s == Head(tx[c].left) IN
     IF s = Unknown THEN RollsBack(c)
     ELSE /\ Moves(c, [tx[c] EXCEPT !.at = "save", !.old = statusOf[s]])
          /\ UNCHANGED <<process, statusOf, holder, saved>>

Free(s, w) == holder[s] \in {NoOne, w}

\* A call's save and its activity row, a sweep's next row.
Written(w, s) ==
  IF w \in Sweeps THEN tx[w].wrote
  ELSE tx[w].wrote \cup {[by |-> w, slice |-> s, event |-> tx[w].old # tx[w].to]}

AfterSave(w) == IF w \in Calls THEN "load" ELSE "save"

Commits(w, wrote) ==
  /\ statusOf' = [s \in Rows |-> IF \E e \in wrote : e.slice = s THEN tx[w].to ELSE statusOf[s]]
  /\ saved' = saved \cup wrote
  /\ holder' = Released(w)

\* Mutant: each slice is a transaction of its own.
SaveOne_Committed(w) ==
  LET s == Head(tx[w].left) IN
  /\ Commits(w, Written(w, s))
  /\ Moves(w, IF Len(tx[w].left) = 1 THEN [tx[w] EXCEPT !.at = "done"]
             ELSE [tx[w] EXCEPT !.at = AfterSave(w), !.left = Tail(@)])

\* The row is locked with the save; the last one commits.
SaveOne(w) ==
  LET s == Head(tx[w].left) IN
  IF Len(tx[w].left) = 1
  THEN /\ Commits(w, Written(w, s))
       /\ Moves(w, [tx[w] EXCEPT !.at = "done", !.left = <<>>, !.wrote = {}])
  ELSE /\ Moves(w, [tx[w] EXCEPT !.at = AfterSave(w), !.left = Tail(@), !.wrote = Written(w, s)])
       /\ holder' = [holder EXCEPT ![s] = w]
       /\ UNCHANGED <<process, statusOf, saved>>

Save(w) ==
  /\ tx[w].at = "save" /\ Free(Head(tx[w].left), w)
  /\ SaveOne(w) /\ UNCHANGED process

\* Who has locked the row that w wants.
BlockerOf(w) == IF tx[w].at = "save" THEN holder[Head(tx[w].left)] ELSE NoOne

InCircle(w) == \E circle \in SUBSET Writers :
                 w \in circle /\ {BlockerOf(v) : v \in circle} = circle

\* The database finds a circle of waiting and aborts one of those in it.
DatabaseAborts(w) == InCircle(w) /\ RollsBack(w)

\* The process dies, the connection is lost, the write gate has closed.
Dies(w) == Running(w) /\ RollsBack(w)

Step(w) == Load(w) \/ Save(w) \/ DatabaseAborts(w)

IdLists == SeqOf(Rows \cup {Unknown}, BatchLimit + 1)

BatchNext ==
  \/ \E c \in Calls, ids \in IdLists, to \in Decisions, textual \in BOOLEAN :
       Ask(c, ids, to, textual)
  \/ \E w \in Sweeps, ids \in SetToSeqs(Rows) : Sweep(w, ids)
  \/ \E w \in Writers : Step(w) \/ Dies(w)

\* The thread goes on, the database serves who waits and breaks every circle.
BatchFairness == \A w \in Writers : WF_bvars(Step(w))

BatchSpec == BatchInit /\ [][BatchNext]_bvars /\ BatchFairness

-----------------------------------------------------------------------------
\* A batch that failed left no trace and a batch that is done wrote every slice it was
\* asked for (server.py:515-526).
AllOrNothing ==
  \A c \in Calls :
    LET mine == {e \in saved : e.by = c} IN
    /\ tx[c].at = "done" => {e.slice : e \in mine} = ToSet(tx[c].ids)
    /\ tx[c].at # "done" => mine = {}

\* Whatever the orders two batches and a sweep ask for their rows in, each of them
\* ends (server.py:521, areas.py:64).
EveryCallEnds == \A w \in Writers : Running(w) ~> ~Running(w)
=============================================================================
