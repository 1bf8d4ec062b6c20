---------------------------- MODULE MCHomeViews ----------------------------
(***************************************************************************)
(* Four scenes that share no state: what the screens show of the slices,   *)
(* the visits of Home, the checklist of a young org, and an export.        *)
(***************************************************************************)
EXTENDS BoardViews, HomeVisit, GetStarted, Export, TLC

VARIABLE scene

\* The board of the other scenes: none.
NoExport ==
  /\ areaRows = {} /\ sliceRows = << >> /\ biteRows = << >> /\ log = {} /\ writes = 0
  /\ lasting = {}
  /\ out = [query |-> "areas", areas |-> {}, slices |-> << >>, bites |-> << >>, log |-> {}]

MCInit ==
  /\ ViewsInit /\ VisitInit /\ GetStartedInit
  /\ \/ scene \in {"views", "visits", "started"} /\ NoExport
     \/ scene = "export" /\ ExportInit

\* Asked of every state that is reached: a type that is broken stops the run.
WellTyped ==
  Assert(ViewsTypeOK /\ VisitTypeOK /\ GetStartedTypeOK /\ ExportTypeOK, "ill-typed state")

MCNext ==
  /\ WellTyped
  /\ UNCHANGED scene
  /\ \/ scene = "views" /\ ViewsNext /\ UNCHANGED <<hvars, gvars, evars>>
     \/ scene = "visits" /\ VisitNext /\ UNCHANGED <<viewvars, gvars, evars>>
     \/ scene = "started" /\ GetStartedNext /\ UNCHANGED <<viewvars, hvars, evars>>
     \/ scene = "export" /\ ExportNext /\ UNCHANGED <<viewvars, hvars, gvars>>

Symmetry == UNION {Permutations(set) : set \in {Slices, Areas, Members, Visits}}
=============================================================================
