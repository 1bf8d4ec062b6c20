--------------------------- MODULE DecisionRecord ---------------------------
(***************************************************************************)
(* What the decision record of one slice promises, with every operation    *)
(* taken as one step: propose appends a batch, a choice answers a          *)
(* question, and writing the spec closes the record (clearing the spec     *)
(* opens it again).  Rejected calls change nothing and are not steps.      *)
(* CanvasRequests splits the same operations into the load and the save    *)
(* that the services really make, over the same variables.                 *)
(***************************************************************************)
EXTENDS CanvasOps

CONSTANTS
  Batches,   \* the batches a caller may send to propose
  MaxTime    \* bound on the clock

ASSUME BatchesAssumption == Batches \subseteq Seq(Proposal)
ASSUME MaxTimeAssumption == MaxTime \in Nat

VARIABLES
  nodes,     \* Slice.decision_tree["nodes"]
  written,   \* Slice.spec has non-blank text
  clock      \* the server's time, as propose stamps it

record == <<nodes, written, clock>>

RecordTypeOK ==
  /\ nodes \in Records
  /\ written \in BOOLEAN
  /\ clock \in 0..MaxTime

RecordInit ==
  /\ nodes = << >>
  /\ written \in BOOLEAN
  /\ clock = 0

Propose(batch) ==
  /\ ~ written
  /\ BatchAccepted(nodes, batch, clock)
  /\ nodes' = Proposed(nodes, batch, clock)
  /\ UNCHANGED <<written, clock>>

Choose(o, q) ==
  /\ ~ written
  /\ Choosable(nodes, o, q)
  /\ nodes' = Chosen(nodes, o, q)
  /\ UNCHANGED <<written, clock>>

SetSpec(w) ==
  /\ written' = w
  /\ UNCHANGED <<nodes, clock>>

RecordTick ==
  /\ clock < MaxTime
  /\ clock' = clock + 1
  /\ UNCHANGED <<nodes, written>>

RecordNext ==
  \/ \E batch \in Batches : Propose(batch)
  \/ \E o, q \in DOMAIN nodes : Choose(o, q)
  \/ \E w \in BOOLEAN : SetSpec(w)
  \/ RecordTick

RecordSpec == RecordInit /\ [][RecordNext]_record

-----------------------------------------------------------------------------
\* The record is a tree whose answers are candidates of their questions, and
\* nothing hangs off a losing option (_assert_parent_accepts and is_locked
\* only guarantee it together).
RecordWellFormed == WellFormed(nodes)

\* Append-only (propose_nodes, choose_option): a step keeps every node, its
\* place and its stamp, and may only add nodes after them or set an answer.
AppendOnly ==
  [][/\ Len(nodes') >= Len(nodes)
     /\ \A i \in DOMAIN nodes : nodes'[i] = [nodes[i] EXCEPT !.chosen = nodes'[i].chosen]]_nodes

\* is_locked: once something was built on an answer, it never changes again --
\* not even across a spec being written and cleared.
LockedAnswerStays ==
  [][\A q \in DOMAIN nodes : IsLocked(nodes, nodes[q]) => nodes'[q] = nodes[q]]_nodes

=============================================================================
