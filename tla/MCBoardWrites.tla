--------------------------- MODULE MCBoardWrites ---------------------------
(* Three scenes of the checklist: two requests add (and delete); steps are     *)
(* ticked, edited and deleted; three steps are moved past each other.  In the  *)
(* fourth, calls with lists of slices and a sweep meet on the rows.            *)
EXTENDS Checklist, SliceBatch, TLC

VARIABLE scene

MCvars == <<vars, bvars, scene>>

\* Three steps in some order, for the moves.
ThreeSteps ==
  /\ used = Bites /\ req = [r \in Requests |-> Idle]
  /\ bites \in {f \in [Bites -> [rank : {-Scale, 0, Scale}, status : {"todo"}]] :
                  \A b, c \in Bites : b = c \/ f[b].rank # f[c].rank}
  /\ raced = {} /\ meant = [b \in Bites |-> "todo"] /\ clobbered = {}

\* The batches of the other scenes: none.
Still == /\ process = [c \in Calls |-> CHOOSE p \in Processes : TRUE]
         /\ statusOf = [s \in Rows |-> "open"] /\ tx = [w \in Writers |-> New]
         /\ holder = [s \in Rows |-> NoOne] /\ saved = {}

MCInit == \/ scene \in {"add", "tick"} /\ Init /\ Still
          \/ scene = "move" /\ ThreeSteps /\ Still
          \/ scene = "batch" /\ Init /\ BatchInit

Adding(r) ==
  \/ \E n \in 1..MaxBatch : AskAdd(r, n)
  \/ AddLook(r)
  \/ \E b \in Bites : AddInsert(r, b, "todo")
  \/ \E b \in Bites : AskDelete(r, b)
  \/ Delete(r) \/ Ends(r)

Ticking(r) ==
  \/ AskAdd(r, 1) \/ AddLook(r) \/ EditSave(r) \/ ToggleSave(r) \/ Delete(r)
  \/ \E b \in Bites : AskToggle(r, b) \/ AskDelete(r, b)
  \/ \E b \in Bites, status \in Statuses : Cardinality(used) < 2 /\ AddInsert(r, b, status)
  \/ \E b \in Bites, status \in Statuses \cup {Keep} : AskEdit(r, b, status, "stay", None)

Moving(r) ==
  \/ \E b, near \in Bites, side \in {"before", "after"} :
       /\ Cardinality(raced) < 2 /\ b # near /\ AskEdit(r, b, Keep, side, near)
  \/ EditNear(r) \/ EditPlace(r) \/ EditSave(r)

\* Asked of every state that is reached: a type that is broken stops the run.
WellTyped == Assert(TypeOK /\ BatchTypeOK, "ill-typed state")

MCNext ==
  /\ WellTyped
  /\ UNCHANGED scene
  /\ \/ scene = "add" /\ (\E r \in Requests : Adding(r)) /\ UNCHANGED bvars
     \/ scene = "tick" /\ (\E r \in Requests : Ticking(r)) /\ UNCHANGED bvars
     \/ scene = "move" /\ (\E r \in Requests : Moving(r)) /\ UNCHANGED bvars
     \/ scene = "batch" /\ BatchNext /\ UNCHANGED vars

MCSpec == MCInit /\ [][MCNext]_MCvars /\ BatchFairness

Symmetric == Permutations(Bites) \cup Permutations(Requests) \cup Permutations(Processes)
=============================================================================
