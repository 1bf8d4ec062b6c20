-------------------------- MODULE MCSlackWorkspace --------------------------
(* Three scenes, because their product is large: an org that installs, switches *)
(* and disconnects, with nothing pasted; the cards of one channel while the     *)
(* workspace is disconnected and connected again and its members come and go;   *)
(* and the cards of several channels while all that stays put.                  *)
EXTENDS SlackWorkspace, TLC

VARIABLE scene

MCvars == <<wvars, scene>>

Team1 == CHOOSE team \in Teams : TRUE
Channel1 == CHOOSE channel \in Channels : TRUE

InstalledWith(rows) ==
  /\ role \in [People -> {"admin", "member"}] /\ \E p \in People : role[p] = "admin"
  /\ install = [id |-> 1, team |-> Team1] /\ made = 1
  /\ begun = TRUE /\ callback = [p \in People |-> None] /\ pending = [p \in People |-> None]
  /\ links = {} /\ identities = rows /\ cooling = {} /\ linkJob = [j \in LinkJobs |-> None]
  /\ drawn = [k \in CardKeys |-> 0] /\ excused = {}

LinkedTo(p) == [install : {1}, user : SlackUsers, person : {p}]

MCInit == \/ scene = "install" /\ WorkspaceInit
          \/ scene = "cards" /\ InstalledWith({})
          \/ scene = "channels" /\ \E p \in People : InstalledWith(LinkedTo(p))

Cards ==
  \/ \E p \in People :
       \/ Disconnect(p)
       \/ install = None /\ CallbackLooks(p, Team1)
       \/ CallbackWrites(p)
       \/ RoleChanges(p, "gone") \/ RoleChanges(p, "admin")
  \/ LinkSteps
  \/ CardSteps /\ \A j \in LinkJobs : linkJob'[j] # None => linkJob'[j].channel = Channel1

\* Asked of every state that is reached: a type that is broken stops the run.
WellTyped == Assert(WorkspaceTypeOK, "ill-typed state")

MCNext ==
  /\ WellTyped
  /\ UNCHANGED scene
  /\ \/ scene = "install" /\ InstallSteps
     \/ scene = "cards" /\ Cards
     \/ scene = "channels" /\ CardSteps

MCSpec == MCInit /\ [][MCNext]_MCvars

Symmetry == Permutations(People) \cup Permutations(LinkJobs) \cup Permutations(Refs)
=============================================================================
