------------------------------ MODULE CanvasOps ------------------------------
(***************************************************************************)
(* The decision record of one slice (Slice.decision_tree): the questions   *)
(* that were asked, the options weighed for each, the notes, and which     *)
(* option won.  This module holds the pure part -- what propose_nodes and   *)
(* choose_option accept, what they store, and how a stored record is read. *)
(* The record is the list of nodes the JSON column holds, oldest first.    *)
(* Titles, bodies and media are left out: no rule reads them.              *)
(***************************************************************************)
EXTENDS Naturals, Sequences

CONSTANTS
  NodeIds,  \* the ids a caller may give a node (its own non-empty strings)
  NoNode    \* "no parent", "not answered", "unscoped": None or ""

ASSUME NoNodeAssumption == NoNode \notin NodeIds

Kinds == {"question", "option", "note"}

\* What a caller sends for one node, and what is stored of it.
Proposal == [id : NodeIds, parent : NodeIds \cup {NoNode}, kind : Kinds]

Node == [id : NodeIds, parent : NodeIds \cup {NoNode}, kind : Kinds,
         chosen : NodeIds \cup {NoNode}, at : Nat]

Records == Seq(Node)

IdsOf(ns) == {ns[i].id : i \in DOMAIN ns}

\* The whole batch is stamped once; `chosen` is never the caller's to set.
Stamped(batch, at) ==
  [i \in 1..Len(batch) |->
     [id |-> batch[i].id, parent |-> batch[i].parent, kind |-> batch[i].kind,
      chosen |-> NoNode, at |-> at]]

(***************************************************************************)
(* Which parent a node may name.  Under an answered question only more     *)
(* candidates may be added; under an option of a question only the one     *)
(* that won may be continued.                                              *)
(***************************************************************************)
QuestionAccepts(q, kind) == q.chosen = NoNode \/ kind = "option"

\* Mutant: an option may be continued before its question is answered.
OptionAccepts_Early(ns, o) ==
  \A i \in DOMAIN ns :
    (ns[i].id = o.parent /\ ns[i].kind = "question") => ns[i].chosen \in {NoNode, o.id}

OptionAccepts(ns, o) ==
  \A i \in DOMAIN ns :
    (ns[i].id = o.parent /\ ns[i].kind = "question") => ns[i].chosen = o.id

ParentAccepts(ns, p, kind) ==
  /\ p.kind = "question" => QuestionAccepts(p, kind)
  /\ p.kind = "option"   => OptionAccepts(ns, p)

\* Node n may be appended to the list ns of nodes already there.
Acceptable(ns, n) ==
  /\ n.id \notin IdsOf(ns)
  /\ \/ /\ n.parent = NoNode
        /\ \A i \in DOMAIN ns : ns[i].parent /= NoNode
     \/ \E i \in DOMAIN ns : /\ ns[i].id = n.parent
                             /\ ParentAccepts(ns, ns[i], n.kind)

\* Every node of the batch is acceptable after those sent before it.
BatchAccepted(ns, batch, at) ==
  LET all == ns \o Stamped(batch, at) IN
  \A k \in Len(ns) + 1 .. Len(all) : Acceptable(SubSeq(all, 1, k - 1), all[k])

\* Mutant: the fresh nodes are put in front of the stored ones.
Proposed_InFront(ns, batch, at) == Stamped(batch, at) \o ns

Proposed(ns, batch, at) == ns \o Stamped(batch, at)

(***************************************************************************)
(* Answering a question.                                                   *)
(***************************************************************************)
IsLocked(ns, q) ==
  /\ q.chosen /= NoNode
  /\ \E i \in DOMAIN ns : \/ ns[i].parent = q.chosen
                          \/ ns[i].parent = q.id /\ ns[i].kind /= "option"

\* Mutant: an answer can be changed whatever was built on it.
Choosable_Unlocked(ns, o, q) ==
  /\ ns[o].kind = "option"
  /\ ns[q].id = ns[o].parent
  /\ ns[q].kind = "question"

\* o and q are positions: the option picked and the question it answers.
Choosable(ns, o, q) ==
  /\ ns[o].kind = "option"
  /\ ns[q].id = ns[o].parent
  /\ ns[q].kind = "question"
  /\ ~ IsLocked(ns, ns[q])

Chosen(ns, o, q) == [ns EXCEPT ![q].chosen = ns[o].id]

(***************************************************************************)
(* Reading the record.                                                     *)
(***************************************************************************)
QuestionState(ns, q, closed) ==
  CASE ns[q].chosen /= NoNode -> "answered"
    [] ns[q].chosen = NoNode /\ closed -> "passed"
    [] OTHER ->
         IF \E i \in DOMAIN ns : /\ i /= q
                                 /\ ns[i].kind = "question"
                                 /\ ns[i].parent = ns[q].parent
                                 /\ ns[i].at > ns[q].at
         THEN "passed" ELSE "waiting"

\* The question the propose tool opens a watch for: the first of the batch.
FirstQuestion(batch, i) == /\ batch[i].kind = "question"
                           /\ \A j \in 1..(i - 1) : batch[j].kind /= "question"

(***************************************************************************)
(* What a record must look like for the two rules the docstrings give --   *)
(* "append-only" and "a node that comes after an answer belongs to the     *)
(* option that won" -- to be readable from it.                             *)
(***************************************************************************)
UniqueIds(ns) == \A i, j \in DOMAIN ns : ns[i].id = ns[j].id => i = j

\* A parent is always an earlier node, so the record is a forest ...
ParentEarlier(ns) ==
  \A k \in DOMAIN ns :
    ns[k].parent /= NoNode => \E j \in 1..(k - 1) : ns[j].id = ns[k].parent

\* ... with one root, so it is a tree.
SingleRoot(ns) ==
  \A i, j \in DOMAIN ns : ns[i].parent = NoNode /\ ns[j].parent = NoNode => i = j

AnswerIsCandidate(ns) ==
  \A q \in DOMAIN ns :
    ns[q].chosen /= NoNode =>
      /\ ns[q].kind = "question"
      /\ \E o \in DOMAIN ns : /\ ns[o].id = ns[q].chosen
                              /\ ns[o].kind = "option"
                              /\ ns[o].parent = ns[q].id

\* Causation: whatever hangs off an option of a question hangs off the winner.
OnlyWinnersGrow(ns) ==
  \A c, o, q \in DOMAIN ns :
    (/\ ns[c].parent = ns[o].id
     /\ ns[o].kind = "option"
     /\ ns[o].parent = ns[q].id
     /\ ns[q].kind = "question") => ns[q].chosen = ns[o].id

WellFormed(ns) ==
  /\ UniqueIds(ns)
  /\ ParentEarlier(ns)
  /\ SingleRoot(ns)
  /\ AnswerIsCandidate(ns)
  /\ OnlyWinnersGrow(ns)

=============================================================================
