---------------------------- MODULE Slack_proofs ----------------------------
(***************************************************************************)
(* Proved of a mention for any number of deliveries, failures and things:  *)
(* its types, that it is queued once but for the enqueues that lie, that a *)
(* row no process died on means a queued job, and that nothing acked is    *)
(* lost until deliveries overlap or a process dies.  Of the workspace, for *)
(* any people, workspaces, channels, refs and jobs: that it is exchanged   *)
(* only by confirmation, and that an hour of silence in a channel follows  *)
(* a card there, and only a card.                                          *)
(***************************************************************************)
EXTENDS SlackMention, SlackWorkspace, TLAPS

LEMMA QueueKeepsTypes ==
  ASSUME TypeOK, QueueTakesIt
  PROVE  /\ tasks' \in Nat /\ troubles' \in 0..MaxTroubles /\ shown' \subseteq {"card", "prompt"}
         /\ run' \in [Jobs -> {"none", "waiting", "found", "filing", "creating", "ended"}]
         /\ todo' \in [Jobs -> SUBSET Intents] /\ making' \in [Jobs -> SUBSET Keys]
         /\ filed' \in [Keys -> Nat] /\ noted' \in [Notes -> Nat]
<1>1. tasks' \in Nat
  BY DEF TypeOK, QueueTakesIt
<1>2. run' \in [Jobs -> {"none", "waiting", "found", "filing", "creating", "ended"}]
  BY DEF TypeOK, QueueTakesIt
<1>3. /\ troubles' = troubles /\ shown' = shown /\ todo' = todo
      /\ making' = making /\ filed' = filed /\ noted' = noted
  BY DEF QueueTakesIt
<1> QED
  BY <1>1, <1>2, <1>3 DEF TypeOK

\* The type invariant.
THEOREM TypeCorrect == Spec => []TypeOK
<1>1. Init => TypeOK
  <2> SUFFICES ASSUME Init PROVE TypeOK
    OBVIOUS
  <2>1. /\ row \in BOOLEAN /\ acked \in BOOLEAN /\ overlapped \in BOOLEAN
        /\ shown \subseteq {"card", "prompt"} /\ tasks \in Nat
        /\ installed \in BOOLEAN /\ linked \in BOOLEAN
    BY DEF Init
  <2>2. /\ failures \in 0..MaxFailures /\ lies \in 0..MaxLies
        /\ crashes \in 0..MaxCrashes /\ troubles \in 0..MaxTroubles
    BY MentionAssumption DEF Init
  <2>3. /\ pc \in [Deliveries -> {"unsent", "arrived", "inserted", "committed",
                                  "releasing", "queued", "ended"}]
        /\ run \in [Jobs -> {"none", "waiting", "found", "filing", "creating", "ended"}]
    BY DEF Init
  <2>4. todo \in [Jobs -> SUBSET Intents] /\ making \in [Jobs -> SUBSET Keys]
    BY DEF Init
  <2>5. filed \in [Keys -> Nat] /\ noted \in [Notes -> Nat]
    BY DEF Init
  <2> QED
    BY <2>1, <2>2, <2>3, <2>4, <2>5 DEF TypeOK
<1>2. TypeOK /\ [Next]_vars => TypeOK'
  <2> SUFFICES ASSUME TypeOK, [Next]_vars PROVE TypeOK'
    OBVIOUS
  <2> USE MentionAssumption DEF TypeOK, Goes, RunGoes, Applied, delivery, job, setup
  <2>1. ASSUME NEW d \in Deliveries, Send(d) \/ InsertRow(d) \/ Duplicate(d) \/ CommitRow(d)
        PROVE  TypeOK'
    <3>1. UNCHANGED <<failures, lies, tasks, crashes, setup, job>>
      BY <2>1 DEF Send, InsertRow, Duplicate, CommitRow
    <3>2. row' \in BOOLEAN /\ acked' \in BOOLEAN /\ overlapped' \in BOOLEAN
      BY <2>1 DEF Send, InsertRow, Duplicate, CommitRow
    <3>3. pc' \in [Deliveries -> {"unsent", "arrived", "inserted", "committed",
                                  "releasing", "queued", "ended"}]
      BY <2>1 DEF Send, InsertRow, Duplicate, CommitRow
    <3> QED
      BY <3>1, <3>2, <3>3
  <2>2. ASSUME NEW d \in Deliveries, Enqueue(d) PROVE TypeOK'
    <3>1. /\ row' = row /\ acked' = acked /\ overlapped' = overlapped
          /\ failures' = failures /\ lies' = lies
          /\ crashes' = crashes /\ installed' = installed /\ linked' = linked
      BY <2>2 DEF Enqueue
    <3>2. pc' \in [Deliveries -> {"unsent", "arrived", "inserted", "committed",
                                  "releasing", "queued", "ended"}]
      BY <2>2 DEF Enqueue
    <3>3. QueueTakesIt
      BY <2>2 DEF Enqueue
    <3> HIDE DEF job
    <3> QED
      BY <3>1, <3>2, <3>3, QueueKeepsTypes
  <2>3. ASSUME NEW d \in Deliveries, EnqueueFails(d) PROVE TypeOK'
    BY <2>3 DEF EnqueueFails
  <2>4. ASSUME NEW d \in Deliveries, EnqueueLies(d) PROVE TypeOK'
    <3>1. /\ row' = row /\ acked' = acked /\ overlapped' = overlapped
          /\ failures' = failures /\ crashes' = crashes
          /\ installed' = installed /\ linked' = linked
      BY <2>4 DEF EnqueueLies
    <3>2. pc' \in [Deliveries -> {"unsent", "arrived", "inserted", "committed",
                                  "releasing", "queued", "ended"}]
      BY <2>4 DEF EnqueueLies
    <3>3. lies' \in 0..MaxLies
      BY <2>4 DEF EnqueueLies
    <3>4. QueueTakesIt
      BY <2>4 DEF EnqueueLies
    <3> HIDE DEF job
    <3> QED
      BY <3>1, <3>2, <3>3, <3>4, QueueKeepsTypes
  <2>5. ASSUME NEW d \in Deliveries, Release(d) \/ Ack(d) PROVE TypeOK'
    BY <2>5 DEF Release, Ack
  <2>6. ASSUME NEW d \in Deliveries, CrashDelivery(d) PROVE TypeOK'
    BY <2>6 DEF CrashDelivery
  <2>7. ASSUME NEW j \in Jobs, Interpret(j) PROVE TypeOK'
    <3>1. PICK word \in [Slices -> Wordings] :
            todo' = [todo EXCEPT ![j] = Notes \cup {<<x, word[x]>> : x \in Slices}]
      BY <2>7 DEF Interpret
    <3>2. Notes \cup {<<x, word[x]>> : x \in Slices} \subseteq Intents
      BY DEF Intents, Keys
    <3>3. todo' \in [Jobs -> SUBSET Intents]
      BY <3>1, <3>2
    <3>4. run' \in [Jobs -> {"none", "waiting", "found", "filing", "creating", "ended"}]
      BY <2>7 DEF Interpret
    <3> QED
      BY <2>7, <3>3, <3>4 DEF Interpret
  <2>8. ASSUME NEW j \in Jobs, FindInstall(j) \/ PromptToConnect(j) \/ Decline(j) \/ Reply(j)
        PROVE  TypeOK'
    BY <2>8 DEF FindInstall, PromptToConnect, Decline, Reply
  <2>9. ASSUME NEW j \in Jobs, NEW i \in Intents, AddNote(j, i) PROVE TypeOK'
    BY <2>9 DEF AddNote
  <2>10. ASSUME NEW j \in Jobs, NEW i \in Intents, UpdateSlice(j, i) \/ Refuse(j, i)
        PROVE  TypeOK'
    BY <2>10 DEF UpdateSlice, Refuse
  <2>11. ASSUME NEW j \in Jobs, NEW i \in Intents, KeyIsNew(j, i) PROVE TypeOK'
    <3>1. i \in Keys
      BY <2>11 DEF KeyIsNew
    <3> QED
      BY <2>11, <3>1 DEF KeyIsNew
  <2>12. ASSUME NEW j \in Jobs, NEW i \in Intents, CreateSlice(j, i) PROVE TypeOK'
    <3>1. i \in Keys
      BY <2>12 DEF CreateSlice
    <3>2. filed' \in [Keys -> Nat]
      BY <2>12, <3>1 DEF CreateSlice
    <3> QED
      BY <2>12, <3>2 DEF CreateSlice
  <2>16. ASSUME NEW j \in Jobs, NEW i \in Intents, KeyIsTaken(j, i) PROVE TypeOK'
    BY <2>16 DEF KeyIsTaken
  <2>13. ASSUME NEW j \in Jobs, FailRun(j) PROVE TypeOK'
    BY <2>13 DEF FailRun
  <2>14. CASE UNCHANGED vars
    BY <2>14 DEF vars
  <2>15. ASSUME SetupChanges PROVE TypeOK'
    BY <2>15 DEF SetupChanges
  <2> QED
    BY <2>1, <2>2, <2>3, <2>4, <2>5, <2>6, <2>7, <2>8, <2>9, <2>10, <2>11,
       <2>12, <2>13, <2>14, <2>15, <2>16 DEF Next, Deliver, Work
<1> QED
  BY <1>1, <1>2, PTL DEF Spec

-----------------------------------------------------------------------------
(***************************************************************************)
(* Who owns the row.  At most one delivery is between its insert and its   *)
(* enqueue or release, and while one is, nothing is queued for the row.    *)
(***************************************************************************)
Owns(d) == pc[d] \in {"inserted", "committed", "releasing"}

OneOwner ==
  /\ \A c, d \in Deliveries : Owns(c) /\ Owns(d) => c = d
  /\ \A d \in Deliveries : Owns(d) => (row <=> pc[d] /= "inserted")

Counted ==
  /\ tasks <= lies + 1
  /\ ~ row => tasks <= lies
  /\ \A d \in Deliveries : pc[d] \in {"committed", "releasing"} => tasks <= lies

\* slack_events with _enqueue_or_release: one job for the event, and one more
\* for every enqueue that failed after the queue had taken it.
THEOREM QueuedOnceOnly == Spec => []QueuedOnce
<1>1. Init => OneOwner /\ Counted
  BY DEF Init, OneOwner, Owns, Counted
<1>2. TypeOK /\ OneOwner /\ [Next]_vars => OneOwner'
  <2> SUFFICES ASSUME TypeOK, OneOwner, [Next]_vars PROVE OneOwner'
    OBVIOUS
  <2> USE DEF OneOwner, Owns, Goes, TypeOK
  <2>1. CASE UNCHANGED <<row, pc>>
    BY <2>1
  <2>2. ASSUME NEW d \in Deliveries, Send(d) \/ InsertRow(d) \/ Duplicate(d) PROVE OneOwner'
    BY <2>2 DEF Send, InsertRow, Duplicate
  <2>3. ASSUME NEW d \in Deliveries, CommitRow(d) PROVE OneOwner'
    BY <2>3 DEF CommitRow
  <2>4. ASSUME NEW d \in Deliveries, Enqueue(d) \/ EnqueueFails(d) \/ EnqueueLies(d) PROVE OneOwner'
    BY <2>4 DEF Enqueue, EnqueueFails, EnqueueLies
  <2>5. ASSUME NEW d \in Deliveries, Release(d) \/ Ack(d) \/ CrashDelivery(d) PROVE OneOwner'
    BY <2>5 DEF Release, Ack, CrashDelivery
  <2>6. ASSUME (\E j \in Jobs : Work(j) \/ FailRun(j)) \/ SetupChanges
        PROVE  UNCHANGED <<row, pc>>
    BY <2>6 DEF Work, FailRun, SetupChanges, FindInstall, PromptToConnect, Interpret, Decline,
                Reply, AddNote, UpdateSlice, Refuse, KeyIsNew, CreateSlice, KeyIsTaken, delivery
  <2> QED
    BY <2>1, <2>2, <2>3, <2>4, <2>5, <2>6 DEF Next, Deliver, vars
<1>3. TypeOK /\ OneOwner /\ Counted /\ [Next]_vars => Counted'
  <2> SUFFICES ASSUME TypeOK, OneOwner, Counted, [Next]_vars PROVE Counted'
    OBVIOUS
  <2>0. tasks \in Nat /\ lies \in Nat
    BY MentionAssumption DEF TypeOK
  <2> USE DEF Counted
  <2>1. CASE UNCHANGED <<row, pc, tasks, lies>>
    BY <2>1
  <2>2. ASSUME NEW d \in Deliveries, Send(d) \/ InsertRow(d) \/ Duplicate(d) PROVE Counted'
    BY <2>2 DEF Send, InsertRow, Duplicate, Goes, TypeOK
  <2>3. ASSUME NEW d \in Deliveries, CommitRow(d) PROVE Counted'
    BY <2>3 DEF CommitRow, OneOwner, Owns, Goes, TypeOK
  <2>4. ASSUME NEW d \in Deliveries, Enqueue(d) PROVE Counted'
    <3>1. row /\ tasks <= lies /\ tasks' = tasks + 1 /\ lies' = lies /\ row' = row
      BY <2>4 DEF Enqueue, QueueTakesIt, OneOwner, Owns
    <3>2. \A c \in Deliveries : pc'[c] \notin {"committed", "releasing"}
      BY <2>4 DEF Enqueue, OneOwner, Owns, Goes, TypeOK
    <3> QED
      BY <3>1, <3>2, <2>0
  <2>5. ASSUME NEW d \in Deliveries, EnqueueFails(d) PROVE Counted'
    BY <2>5 DEF EnqueueFails, Goes, TypeOK
  <2>6. ASSUME NEW d \in Deliveries, EnqueueLies(d) PROVE Counted'
    <3>1. tasks <= lies /\ tasks' = tasks + 1 /\ lies' = lies + 1
      BY <2>6 DEF EnqueueLies, QueueTakesIt
    <3> QED
      BY <3>1, <2>0
  <2>7. ASSUME NEW d \in Deliveries, Release(d) PROVE Counted'
    BY <2>7 DEF Release, Goes, TypeOK
  <2>8. ASSUME NEW d \in Deliveries, Ack(d) \/ CrashDelivery(d) PROVE Counted'
    BY <2>8 DEF Ack, CrashDelivery, Goes, TypeOK
  <2>9. ASSUME (\E j \in Jobs : Work(j) \/ FailRun(j)) \/ SetupChanges
        PROVE  UNCHANGED <<row, pc, tasks, lies>>
    BY <2>9 DEF Work, FailRun, SetupChanges, FindInstall, PromptToConnect, Interpret, Decline,
                Reply, AddNote, UpdateSlice, Refuse, KeyIsNew, CreateSlice, KeyIsTaken, delivery
  <2> QED
    BY <2>1, <2>2, <2>3, <2>4, <2>5, <2>6, <2>7, <2>8, <2>9 DEF Next, Deliver, vars
<1>4. TypeOK /\ Counted => QueuedOnce
  BY MentionAssumption DEF Counted, QueuedOnce, TypeOK
<1> QED
  BY <1>1, <1>2, <1>3, <1>4, TypeCorrect, PTL DEF Spec

-----------------------------------------------------------------------------
\* _enqueue_or_release: unless a process dies, a row whose event was not queued
\* is still in the hands of a delivery, however deliveries overlap.
THEOREM RowIsHandedBack == Spec => []RowMeansQueued
<1>1. Init => RowMeansQueued
  BY DEF Init, RowMeansQueued
<1>2. TypeOK /\ RowMeansQueued /\ [Next]_vars => RowMeansQueued'
  <2> SUFFICES ASSUME TypeOK, RowMeansQueued, [Next]_vars, crashes' = 0 PROVE RowMeansQueued'
    BY DEF RowMeansQueued
  <2>0. tasks \in Nat
    BY DEF TypeOK
  <2>00. pc \in [Deliveries -> {"unsent", "arrived", "inserted", "committed",
                                "releasing", "queued", "ended"}]
    BY DEF TypeOK
  <2> USE DEF RowMeansQueued, Goes
  <2>1. CASE UNCHANGED <<row, pc, tasks, crashes>>
    BY <2>1
  <2>2. ASSUME NEW d \in Deliveries, Send(d) \/ InsertRow(d) \/ Duplicate(d) \/ CommitRow(d)
        PROVE  RowMeansQueued'
    BY <2>2, <2>00 DEF Send, InsertRow, Duplicate, CommitRow
  <2>3. ASSUME NEW d \in Deliveries, Enqueue(d) \/ EnqueueLies(d) PROVE RowMeansQueued'
    <3>1. tasks' = tasks + 1
      BY <2>3 DEF Enqueue, EnqueueLies, QueueTakesIt
    <3> QED
      BY <3>1, <2>0
  <2>4. ASSUME NEW d \in Deliveries, EnqueueFails(d) \/ Release(d) \/ Ack(d)
        PROVE  RowMeansQueued'
    BY <2>4, <2>00 DEF EnqueueFails, Release, Ack
  <2>5. ASSUME NEW d \in Deliveries, CrashDelivery(d) PROVE FALSE
    BY <2>5, MentionAssumption DEF CrashDelivery, TypeOK
  <2>6. ASSUME (\E j \in Jobs : Work(j) \/ FailRun(j)) \/ SetupChanges
        PROVE  UNCHANGED <<row, pc, tasks, crashes>>
    BY <2>6 DEF Work, FailRun, SetupChanges, FindInstall, PromptToConnect, Interpret, Decline,
                Reply, AddNote, UpdateSlice, Refuse, KeyIsNew, CreateSlice, KeyIsTaken, delivery
  <2> QED
    BY <2>1, <2>2, <2>3, <2>4, <2>5, <2>6 DEF Next, Deliver, vars
<1> QED
  BY <1>1, <1>2, TypeCorrect, PTL DEF Spec

-----------------------------------------------------------------------------
(***************************************************************************)
(* Until deliveries overlap an earlier one has ended before a later one    *)
(* starts, so the row a delivery finds is one whose job was queued.        *)
(***************************************************************************)
OneAtATime ==
  ~ overlapped => \A c, d \in Deliveries : c < d /\ pc[d] /= "unsent" => pc[c] = "ended"

OnItsWay ==
  ~ overlapped /\ crashes = 0 =>
    /\ row => tasks > 0 \/ \E d \in Deliveries : pc[d] \in {"committed", "releasing"}
    /\ \A d \in Deliveries : pc[d] = "queued" => tasks > 0
    /\ acked => tasks > 0

\* slack_events: as long as deliveries do not overlap and no process dies, a
\* duplicate is answered 200 only for an event whose job is queued.
THEOREM AckedEventIsQueued == Spec => []AckedIsNotLost
<1>1. Init => OneAtATime /\ OnItsWay
  BY DEF Init, OneAtATime, OnItsWay
<1>2. TypeOK /\ OneAtATime /\ [Next]_vars => OneAtATime'
  <2> SUFFICES ASSUME TypeOK, OneAtATime, [Next]_vars, ~ overlapped' PROVE OneAtATime'
    BY DEF OneAtATime
  <2> USE DEF OneAtATime, Goes, TypeOK
  <2>1. CASE UNCHANGED <<pc, overlapped>>
    BY <2>1
  <2>2. ASSUME NEW d \in Deliveries, Send(d) PROVE OneAtATime'
    <3>1. ~ overlapped /\ \A c \in Deliveries : c < d => pc[c] = "ended"
      <4>1. ~ overlapped /\ \A c \in 1..(d - 1) : pc[c] = "ended"
        BY <2>2 DEF Send
      <4>2. \A c \in Deliveries : c < d => c \in 1..(d - 1)
        BY DEF Deliveries
      <4> QED
        BY <4>1, <4>2
    <3>2. \A c \in Deliveries : d < c => pc[c] = "unsent"
      BY <2>2, <3>1 DEF Send
    <3>3. pc[d] = "unsent" /\ pc' = [pc EXCEPT ![d] = "arrived"]
      BY <2>2 DEF Send
    <3> QED
      BY <3>1, <3>2, <3>3 DEF Deliveries
  <2>3. ASSUME NEW d \in Deliveries, Deliver(d) \/ CrashDelivery(d) PROVE OneAtATime'
    <3>1. PICK there : pc' = [pc EXCEPT ![d] = there]
      BY <2>3 DEF Deliver, InsertRow, Duplicate, CommitRow, Enqueue, EnqueueFails,
                  EnqueueLies, Release, Ack, CrashDelivery
    <3>2. pc[d] \notin {"unsent", "ended"} /\ ~ overlapped
      BY <2>3 DEF Deliver, InsertRow, Duplicate, CommitRow, Enqueue, EnqueueFails,
                  EnqueueLies, Release, Ack, CrashDelivery
    <3>3. \A c \in Deliveries : d < c => pc[c] = "unsent"
      BY <3>2
    <3> QED
      BY <3>1, <3>2, <3>3 DEF Deliveries
  <2>4. ASSUME (\E j \in Jobs : Work(j) \/ FailRun(j)) \/ SetupChanges
        PROVE  UNCHANGED <<pc, overlapped>>
    BY <2>4 DEF Work, FailRun, SetupChanges, FindInstall, PromptToConnect, Interpret, Decline,
                Reply, AddNote, UpdateSlice, Refuse, KeyIsNew, CreateSlice, KeyIsTaken, delivery
  <2> QED
    BY <2>1, <2>2, <2>3, <2>4 DEF Next, vars
<1>3. TypeOK /\ OneAtATime /\ OnItsWay /\ [Next]_vars => OnItsWay'
  <2> SUFFICES ASSUME TypeOK, OneAtATime, OnItsWay, [Next]_vars, ~ overlapped', crashes' = 0
               PROVE  OnItsWay'
    BY DEF OnItsWay
  <2>0. tasks \in Nat
    BY DEF TypeOK
  <2>00. pc \in [Deliveries -> {"unsent", "arrived", "inserted", "committed",
                                "releasing", "queued", "ended"}]
    BY DEF TypeOK
  <2> USE DEF OnItsWay, Goes
  <2>1. CASE UNCHANGED <<row, pc, tasks, acked, overlapped, crashes>>
    BY <2>1
  <2>2. ASSUME NEW d \in Deliveries, Send(d) \/ InsertRow(d) PROVE OnItsWay'
    BY <2>2, <2>00 DEF Send, InsertRow
  <2>3. ASSUME NEW d \in Deliveries, Duplicate(d) PROVE OnItsWay'
    <3>1. \A c \in Deliveries : pc[c] \notin {"committed", "releasing"}
      BY <2>3 DEF Duplicate, OneAtATime, Deliveries
    <3>2. tasks > 0 /\ tasks' = tasks
      BY <2>3, <3>1 DEF Duplicate
    <3> QED
      BY <3>2
  <2>4. ASSUME NEW d \in Deliveries, CommitRow(d) PROVE OnItsWay'
    BY <2>4, <2>00 DEF CommitRow
  <2>5. ASSUME NEW d \in Deliveries, Enqueue(d) \/ EnqueueLies(d) PROVE OnItsWay'
    <3>1. tasks' = tasks + 1
      BY <2>5 DEF Enqueue, EnqueueLies, QueueTakesIt
    <3> QED
      BY <3>1, <2>0
  <2>6. ASSUME NEW d \in Deliveries, EnqueueFails(d) PROVE OnItsWay'
    BY <2>6, <2>00 DEF EnqueueFails
  <2>7. ASSUME NEW d \in Deliveries, Release(d) \/ Ack(d) PROVE OnItsWay'
    BY <2>7, <2>00 DEF Release, Ack
  <2>8. ASSUME NEW d \in Deliveries, CrashDelivery(d) PROVE FALSE
    BY <2>8, MentionAssumption DEF CrashDelivery, TypeOK
  <2>9. ASSUME (\E j \in Jobs : Work(j) \/ FailRun(j)) \/ SetupChanges
        PROVE  UNCHANGED <<row, pc, tasks, acked, overlapped, crashes>>
    BY <2>9 DEF Work, FailRun, SetupChanges, FindInstall, PromptToConnect, Interpret, Decline,
                Reply, AddNote, UpdateSlice, Refuse, KeyIsNew, CreateSlice, KeyIsTaken, delivery
  <2> QED
    BY <2>1, <2>2, <2>3, <2>4, <2>5, <2>6, <2>7, <2>8, <2>9 DEF Next, Deliver, vars
<1>4. OnItsWay => AckedIsNotLost
  BY DEF OnItsWay, AckedIsNotLost
<1> QED
  BY <1>1, <1>2, <1>3, <1>4, TypeCorrect, PTL DEF Spec

-----------------------------------------------------------------------------
\* The workspace.

About(j, k) == /\ linkJob[j] # None
               /\ k \in KeysOf(linkJob[j].install, linkJob[j].channel, linkJob[j].refs)

LEMMA AboutIsAtWork == \A j, k : About(j, k) <=> k \in AtWork(j)
BY DEF About, AtWork

\* A row of the cooldown is the note of a card.
NotesAreOfCards == \A k \in cooling : drawn[k] > 0

CardRules == OneCardAnHour /\ NotesAreOfCards

\* Ids are given out in order, and nothing is about an id that was not.
IdsInOrder ==
  /\ install # None => install.id <= made
  /\ \A j \in LinkJobs : linkJob[j] # None => linkJob[j].install <= made
  /\ \A k \in CardKeys : drawn[k] > 0 => k.install <= made

\* Of a ref that is not excused: one job is about it, before its card was drawn, or it
\* was drawn and is noted or will be, unless its install is gone.
CardHolds(k) ==
  /\ \A i, j \in LinkJobs : About(i, k) /\ About(j, k) => i = j
  /\ \A j \in LinkJobs : About(j, k) /\ linkJob[j].pc = "call" => drawn[k] = 0
  /\ drawn[k] > 0 => \/ k \in cooling \/ k.install # InstallId
                     \/ \E j \in LinkJobs : About(j, k) /\ linkJob[j].pc = "note"

NotesFollowCards ==
  \A j \in LinkJobs, k \in CardKeys : About(j, k) /\ linkJob[j].pc = "note" => drawn[k] > 0

\* A callback that saw a workspace saw the one it comes back from.
CallbacksAgree ==
  \A p \in People : callback[p] # None =>
    callback[p].saw = None \/ callback[p].saw.team = callback[p].team

WorkspaceInv ==
  /\ WorkspaceTypeOK /\ CardRules /\ IdsInOrder /\ NotesFollowCards /\ CallbacksAgree
  /\ \A k \in CardKeys \ excused : CardHolds(k)

LEMMA WorkspaceInitInv == WorkspaceInit => WorkspaceInv
<1> SUFFICES ASSUME WorkspaceInit PROVE WorkspaceInv
  OBVIOUS
<1>1. WorkspaceTypeOK
  <2>1. role \in [People -> {"admin", "member", "gone"}] /\ made \in 0..MaxInstalls
        /\ drawn \in [CardKeys -> 0..MaxDrawn]
    BY WorkspaceAssumption DEF WorkspaceInit
  <2> QED
    BY <2>1 DEF WorkspaceInit, WorkspaceTypeOK
<1>2. \A j \in LinkJobs, k \in CardKeys : linkJob[j] = None /\ drawn[k] = 0
  BY DEF WorkspaceInit
<1>3. CardRules
  BY <1>2 DEF CardRules, OneCardAnHour, NotesAreOfCards, WorkspaceInit
<1>4. IdsInOrder /\ NotesFollowCards /\ \A k \in CardKeys \ excused : CardHolds(k)
  BY <1>2 DEF WorkspaceInit, IdsInOrder, NotesFollowCards, CardHolds, About
<1>5. CallbacksAgree
  BY DEF WorkspaceInit, CallbacksAgree
<1> QED
  BY <1>1, <1>3, <1>4, <1>5 DEF WorkspaceInv

\* The cards do not mind what becomes of the installation, whose ids only go up.
LEMMA CardsOutlive ==
  ASSUME WorkspaceInv, WorkspaceTypeOK', CallbacksAgree', UNCHANGED <<linkJob, drawn, excused>>,
         cooling' \subseteq cooling, \A k \in cooling \ cooling' : k.install # InstallId',
         made' >= made, install' # None => install'.id <= made',
         InstallId' \in {0, InstallId} \/ InstallId' > made
  PROVE  WorkspaceInv'
<1>0. WorkspaceTypeOK /\ CardRules /\ IdsInOrder /\ NotesFollowCards
      /\ made \in Nat /\ made' \in Nat
  BY DEF WorkspaceInv, WorkspaceTypeOK
<1>1. CardRules'
  BY <1>0 DEF CardRules, OneCardAnHour, NotesAreOfCards
<1>2. IdsInOrder'
  <2>1. \A j \in LinkJobs : linkJob[j] # None => linkJob[j].install \in Nat
    BY <1>0 DEF WorkspaceTypeOK, LinkJob, Ids
  <2>2. \A k \in CardKeys : k.install \in Nat
    BY DEF CardKeys, Ids
  <2> QED
    BY <1>0, <2>1, <2>2 DEF IdsInOrder
<1>3. NotesFollowCards'
  BY <1>0 DEF NotesFollowCards, About
<1>4. ASSUME NEW k \in CardKeys \ excused PROVE CardHolds(k)'
  <2>1. CardHolds(k) /\ k.install \in Nat \ {0} /\ drawn[k] \in Nat
    <3>1. k.install \in Nat \ {0}
      BY DEF CardKeys, Ids
    <3>2. drawn[k] \in Nat
      BY <1>0, WorkspaceAssumption DEF WorkspaceTypeOK
    <3> QED
      BY <3>1, <3>2 DEF WorkspaceInv
  <2>2. drawn[k] > 0 => k.install <= made
    BY <1>0, <1>4 DEF IdsInOrder
  <2>3. drawn[k] > 0 /\ k.install # InstallId => k.install # InstallId'
    BY <1>0, <2>1, <2>2
  <2>4. drawn[k] > 0 => \/ k \in cooling' \/ k.install # InstallId'
                        \/ \E j \in LinkJobs : About(j, k) /\ linkJob[j].pc = "note"
    BY <2>1, <2>3 DEF CardHolds
  <2> QED
    BY <2>1, <2>4 DEF CardHolds, About
<1> QED
  BY <1>1, <1>2, <1>3, <1>4 DEF WorkspaceInv

\* A workspace is written by its first callback, or over one that is there.
LEMMA ApplyIs ==
  ASSUME WorkspaceInv, NEW team \in Teams, Apply(team)
  PROVE  /\ install' \in Install /\ made' \in 0..MaxInstalls /\ made' >= made
         /\ install' # None /\ install'.id <= made' /\ install'.team = team
         /\ InstallId' = InstallId \/ InstallId' > made
<1>0. /\ made \in 0..MaxInstalls /\ install \in Install \cup {None} /\ None \notin Install
      /\ MaxInstalls \in Nat /\ (install # None => install.id <= made)
  BY WorkspaceAssumption, NoneAssumption DEF WorkspaceInv, WorkspaceTypeOK, IdsInOrder
<1>1. CASE install = None
  <2>1. install' = [id |-> made + 1, team |-> team] /\ made' = made + 1 /\ made < MaxInstalls
    BY <1>1 DEF Apply, Pointed
  <2>2. made + 1 \in Ids
    BY <1>0, <2>1 DEF Ids
  <2>3. install' \in Install /\ install'.id = made + 1 /\ install'.team = team
    BY <2>1, <2>2 DEF Install
  <2>4. install' # None /\ InstallId' = made + 1 /\ InstallId = 0
    BY <1>0, <1>1, <2>3 DEF InstallId
  <2> QED
    BY <1>0, <2>1, <2>3, <2>4
<1>2. CASE install # None
  <2>1. install' = [install EXCEPT !.team = team] /\ made' = made
    BY <1>2 DEF Apply, Pointed
  <2>2. install' \in Install /\ install'.id = install.id /\ install'.team = team
    BY <1>0, <1>2, <2>1 DEF Install
  <2>3. install' # None /\ InstallId' = InstallId
    BY <1>0, <1>2, <2>2 DEF InstallId
  <2> QED
    BY <1>0, <1>2, <2>1, <2>2, <2>3
<1> QED
  BY <1>1, <1>2

LEMMA InstallKeeps ==
  ASSUME WorkspaceInv, InstallSteps
  PROVE  WorkspaceInv'
<1>0. /\ WorkspaceTypeOK /\ CallbacksAgree /\ made \in Nat
      /\ install # None => install.id <= made
  BY DEF WorkspaceInv, WorkspaceTypeOK, IdsInOrder
<1>1. ASSUME NEW p \in People, Begin(p) PROVE WorkspaceInv'
  <2>1. begun' \in BOOLEAN
    BY <1>1 DEF Begin
  <2>2. WorkspaceTypeOK'
    BY <1>0, <1>1, <2>1 DEF Begin, WorkspaceTypeOK
  <2> QED
    BY <1>0, <1>1, <2>2, CardsOutlive DEF Begin, CallbacksAgree, InstallId
<1>2. CASE StateExpires
  <2>1. begun' \in BOOLEAN
    BY <1>2 DEF StateExpires
  <2>2. WorkspaceTypeOK'
    BY <1>0, <1>2, <2>1 DEF StateExpires, WorkspaceTypeOK
  <2> QED
    BY <1>0, <1>2, <2>2, CardsOutlive DEF StateExpires, CallbacksAgree, InstallId
<1>3. ASSUME NEW p \in People, CallbackWrites(p) PROVE WorkspaceInv'
  <2>1. /\ callback[p] \in Callback /\ Apply(callback[p].team)
        /\ callback' = [callback EXCEPT ![p] = None]
        /\ UNCHANGED <<role, begun, pending, links, identities, cooling, linkJob, drawn, excused>>
    BY <1>0, <1>3 DEF CallbackWrites, WorkspaceTypeOK
  <2>2. callback[p].team \in Teams
    BY <2>1 DEF Callback
  <2>3. WorkspaceTypeOK'
    BY <1>0, <2>1, <2>2, ApplyIs DEF WorkspaceTypeOK
  <2>4. CallbacksAgree'
    BY <1>0, <2>1 DEF CallbacksAgree, WorkspaceTypeOK
  <2> QED
    BY <2>1, <2>2, <2>3, <2>4, ApplyIs, CardsOutlive
<1>4. ASSUME NEW p \in People, PendingAges(p) PROVE WorkspaceInv'
  <2>1. pending' \in [People -> [team : Teams, fresh : BOOLEAN] \cup {None}]
    <3>1. [pending[p] EXCEPT !.fresh = FALSE] \in [team : Teams, fresh : BOOLEAN]
      BY <1>0, <1>4 DEF PendingAges, WorkspaceTypeOK
    <3> QED
      BY <1>0, <1>4, <3>1 DEF PendingAges, WorkspaceTypeOK
  <2> QED
    BY <1>0, <1>4, <2>1, CardsOutlive DEF PendingAges, WorkspaceTypeOK, CallbacksAgree, InstallId
<1>5. ASSUME NEW p \in People, Confirm(p) PROVE WorkspaceInv'
  <2>1. /\ pending' \in [People -> [team : Teams, fresh : BOOLEAN] \cup {None}]
        /\ UNCHANGED <<role, begun, callback, links, identities, cooling, linkJob, drawn, excused>>
    BY <1>0, <1>5 DEF Confirm, WorkspaceTypeOK
  <2>2. CASE UNCHANGED <<install, made>>
    BY <1>0, <2>1, <2>2, CardsOutlive DEF WorkspaceTypeOK, CallbacksAgree, InstallId
  <2>3. CASE Popped(p) # None /\ Apply(pending[p].team)
    <3>1. pending[p].team \in Teams
      BY <1>0, <2>3 DEF Popped, WorkspaceTypeOK
    <3>2. WorkspaceTypeOK' /\ CallbacksAgree'
      BY <1>0, <2>1, <2>3, <3>1, ApplyIs DEF WorkspaceTypeOK, CallbacksAgree
    <3> QED
      BY <2>1, <2>3, <3>1, <3>2, ApplyIs, CardsOutlive
  <2> QED
    BY <1>5, <2>2, <2>3 DEF Confirm
<1>6. ASSUME NEW p \in People, Disconnect(p) PROVE WorkspaceInv'
  <2>1. /\ install' = None /\ cooling' = {k \in cooling : k.install # InstallId} /\ made' = made
        /\ UNCHANGED <<linkJob, drawn, excused, callback>>
    BY <1>6 DEF Disconnect
  <2>2. WorkspaceTypeOK' /\ CallbacksAgree'
    BY <1>0, <1>6 DEF Disconnect, WorkspaceTypeOK, CallbacksAgree
  <2>3. InstallId' = 0 /\ \A k \in cooling : k.install # 0
    BY <1>0, <2>1 DEF InstallId, WorkspaceTypeOK, CardKeys, Ids
  <2> QED
    BY <1>0, <2>1, <2>2, <2>3, CardsOutlive
<1>7. ASSUME NEW p \in People, NEW team \in Teams, CallbackLooks(p, team) PROVE WorkspaceInv'
  <2>1. UNCHANGED <<role, install, made, begun, links, identities, cooling, linkJob, drawn,
                    excused>>
    BY <1>7 DEF CallbackLooks
  <2>2. CASE AsksFirst(team)
    <3>0. [team |-> team, fresh |-> TRUE] \in [team : Teams, fresh : BOOLEAN]
      OBVIOUS
    <3>1. /\ pending' \in [People -> [team : Teams, fresh : BOOLEAN] \cup {None}]
          /\ callback' = callback
      <4>1. /\ pending' = [pending EXCEPT ![p] = [team |-> team, fresh |-> TRUE]]
            /\ callback' = callback
        BY <1>7, <2>2 DEF CallbackLooks
      <4>2. pending \in [People -> [team : Teams, fresh : BOOLEAN] \cup {None}]
        BY <1>0 DEF WorkspaceTypeOK
      <4> QED
        BY <3>0, <4>1, <4>2
    <3> QED
      BY <1>0, <2>1, <3>1, CardsOutlive DEF WorkspaceTypeOK, CallbacksAgree, InstallId
  <2>3. CASE ~ AsksFirst(team)
    <3> DEFINE c == [team |-> team, saw |-> install]
    <3>1. callback' = [callback EXCEPT ![p] = c] /\ pending' = pending
      BY <1>7, <2>3 DEF CallbackLooks
    <3>2. c \in Callback /\ (c.saw = None \/ c.saw.team = c.team)
      BY <1>0, <2>3 DEF Callback, WorkspaceTypeOK, AsksFirst
    <3> HIDE DEF c
    <3>3. WorkspaceTypeOK'
      BY <1>0, <2>1, <3>1, <3>2 DEF WorkspaceTypeOK
    <3>4. CallbacksAgree'
      BY <1>0, <3>1, <3>2 DEF WorkspaceTypeOK, CallbacksAgree
    <3> QED
      BY <1>0, <2>1, <3>3, <3>4, CardsOutlive DEF InstallId
  <2> QED
    BY <2>2, <2>3
<1>8. ASSUME NEW p \in People, NEW cancel \in BOOLEAN, SettingsPage(p, cancel) PROVE WorkspaceInv'
  <2>1. pending' \in [People -> [team : Teams, fresh : BOOLEAN] \cup {None}]
    BY <1>0, <1>8 DEF SettingsPage, WorkspaceTypeOK, Popped
  <2> QED
    BY <1>0, <1>8, <2>1, CardsOutlive DEF SettingsPage, WorkspaceTypeOK, CallbacksAgree, InstallId
<1>9. ASSUME NEW p \in People, NEW r \in {"admin", "member", "gone"}, RoleChanges(p, r)
      PROVE  WorkspaceInv'
  BY <1>0, <1>9, CardsOutlive DEF RoleChanges, WorkspaceTypeOK, CallbacksAgree, InstallId
<1> QED
  BY <1>1, <1>2, <1>3, <1>4, <1>5, <1>6, <1>7, <1>8, <1>9 DEF InstallSteps

LEMMA LinkKeeps ==
  ASSUME WorkspaceInv, LinkSteps
  PROVE  WorkspaceInv'
<1>0. /\ WorkspaceTypeOK /\ CallbacksAgree /\ made \in Nat
      /\ install # None => install.id <= made
  BY DEF WorkspaceInv, WorkspaceTypeOK, IdsInOrder
<1>1. ASSUME NEW p \in People, NEW l \in links, ConnectCallback(p, l) PROVE WorkspaceInv'
  <2>1. identities' \subseteq [install : Ids, user : SlackUsers, person : People]
    BY <1>0, <1>1 DEF ConnectCallback, WorkspaceTypeOK
  <2> QED
    BY <1>0, <1>1, <2>1, CardsOutlive
       DEF ConnectCallback, WorkspaceTypeOK, CallbacksAgree, InstallId
<1>2. ASSUME NEW u \in SlackUsers, ConnectLink(u) PROVE WorkspaceInv'
  <2>1. links' \subseteq [install : Ids, user : SlackUsers]
    BY <1>0, <1>2 DEF ConnectLink, WorkspaceTypeOK, Install
  <2> QED
    BY <1>0, <1>2, <2>1, CardsOutlive DEF ConnectLink, WorkspaceTypeOK, CallbacksAgree, InstallId
<1>3. ASSUME NEW l \in links, LinkExpires(l) PROVE WorkspaceInv'
  BY <1>0, <1>3, CardsOutlive DEF LinkExpires, WorkspaceTypeOK, CallbacksAgree, InstallId
<1> QED
  BY <1>1, <1>2, <1>3 DEF LinkSteps

LEMMA KeysOfAre ==
  ASSUME NEW i \in Ids, NEW c \in Channels, NEW refs \in SUBSET Refs
  PROVE  /\ KeysOf(i, c, refs) \subseteq CardKeys
         /\ \A k \in KeysOf(i, c, refs) : k.install = i /\ k.channel = c /\ k.ref \in refs
         /\ \A r \in refs : [install |-> i, channel |-> c, ref |-> r] \in KeysOf(i, c, refs)
BY DEF KeysOf, CardKeys

\* A step of job j leaves the others about what they were about.
LEMMA OthersAbout ==
  ASSUME WorkspaceTypeOK, NEW j \in LinkJobs, NEW q, linkJob' = [linkJob EXCEPT ![j] = q]
  PROVE  /\ linkJob'[j] = q
         /\ \A i \in LinkJobs \ {j} : linkJob'[i] = linkJob[i]
         /\ \A i \in LinkJobs \ {j}, k \in CardKeys : About(i, k)' <=> About(i, k)
BY DEF WorkspaceTypeOK, About

LEMMA LinkSharedKeeps ==
  ASSUME WorkspaceInv, NEW j \in LinkJobs, NEW team \in Teams, NEW u \in SlackUsers,
         NEW c \in Channels, NEW refs \in SUBSET Refs, LinkShared(j, team, u, c, refs)
  PROVE  WorkspaceInv'
<1> DEFINE new == Unexpanded(c, refs)
           q == [pc |-> "call", install |-> InstallId, channel |-> c, refs |-> new]
           K == KeysOf(InstallId, c, new)
           busy == UNION {AtWork(i) : i \in LinkJobs}
<1>0. /\ WorkspaceTypeOK /\ CardRules /\ IdsInOrder /\ NotesFollowCards /\ CallbacksAgree
      /\ \A k \in CardKeys \ excused : CardHolds(k)
  BY DEF WorkspaceInv
<1>1. /\ linkJob[j] = None /\ install # None
      /\ linkJob' = [linkJob EXCEPT ![j] = q]
      /\ excused' = excused \cup (K \cap busy)
      /\ UNCHANGED <<account, cooling, drawn>> /\ InstallId' = InstallId
  BY DEF LinkShared, account, InstallId
<1>2. /\ InstallId \in Ids /\ InstallId = install.id /\ new \in SUBSET Refs
      /\ \A r \in new : [install |-> InstallId, channel |-> c, ref |-> r] \notin cooling
  BY <1>0, <1>1 DEF WorkspaceTypeOK, Install, InstallId, Unexpanded
<1>3. /\ K \subseteq CardKeys /\ K \cap cooling = {} /\ \A k \in K : k.install = InstallId
  BY <1>2, KeysOfAre DEF KeysOf
<1>4. q \in LinkJob /\ q.pc = "call" /\ q.install = InstallId
      /\ KeysOf(q.install, q.channel, q.refs) = K /\ q # None
  BY <1>2, NoneAssumption DEF LinkJob
<1>5. /\ linkJob'[j] = q
      /\ \A i \in LinkJobs \ {j} : linkJob'[i] = linkJob[i]
      /\ \A i \in LinkJobs \ {j}, k \in CardKeys : About(i, k)' <=> About(i, k)
  BY <1>0, <1>1, OthersAbout
<1>6. \A k \in CardKeys : About(j, k)' <=> k \in K
  BY <1>4, <1>5 DEF About
<1>7. \A k \in CardKeys \ excused' :
        k \notin excused /\ (k \in K => \A i \in LinkJobs : ~ About(i, k))
  BY <1>1, AboutIsAtWork
<1> HIDE DEF q, K, new, busy
<1>8. WorkspaceTypeOK'
  <2>1. linkJob' \in [LinkJobs -> LinkJob \cup {None}]
    BY <1>0, <1>1, <1>4 DEF WorkspaceTypeOK
  <2>2. excused' \subseteq CardKeys
    BY <1>0, <1>1, <1>3 DEF WorkspaceTypeOK
  <2> QED
    BY <1>0, <1>1, <2>1, <2>2 DEF WorkspaceTypeOK, account
<1>9. CardRules'
  BY <1>0, <1>1, <1>7 DEF CardRules, OneCardAnHour, NotesAreOfCards
<1>10. IdsInOrder'
  <2>1. \A i \in LinkJobs : linkJob'[i] # None => linkJob'[i].install <= made
    BY <1>0, <1>1, <1>2, <1>4, <1>5 DEF IdsInOrder
  <2> QED
    BY <1>0, <1>1, <2>1 DEF IdsInOrder, account
<1>11. NotesFollowCards'
  BY <1>0, <1>1, <1>4, <1>5 DEF NotesFollowCards
<1>12. CallbacksAgree'
  BY <1>0, <1>1 DEF CallbacksAgree, account
<1>13. ASSUME NEW k \in CardKeys \ excused' PROVE CardHolds(k)'
  <2>1. CardHolds(k) /\ (k \in K => \A i \in LinkJobs : ~ About(i, k))
    BY <1>0, <1>7
  <2>2. k \in K => ~ (drawn[k] > 0) /\ drawn[k] \in Nat
    BY <1>0, <1>3, <2>1, WorkspaceAssumption DEF CardHolds, WorkspaceTypeOK
  <2>3. k \in K => drawn[k] = 0
    BY <2>2
  <2>4. \A a, b \in LinkJobs : About(a, k)' /\ About(b, k)' => a = b
    BY <1>5, <1>6, <2>1 DEF CardHolds
  <2>5. \A i \in LinkJobs : About(i, k)' /\ linkJob'[i].pc = "call" => drawn[k] = 0
    BY <1>5, <1>6, <2>1, <2>3 DEF CardHolds
  <2>6. drawn[k] > 0 => \/ k \in cooling \/ k.install # InstallId
                        \/ \E i \in LinkJobs : About(i, k)' /\ linkJob'[i].pc = "note"
    BY <1>1, <1>5, <2>1 DEF CardHolds, About
  <2> QED
    BY <1>1, <2>4, <2>5, <2>6 DEF CardHolds
<1> QED
  BY <1>8, <1>9, <1>10, <1>11, <1>12, <1>13 DEF WorkspaceInv

\* A job goes on, or ends, while the cards it leaves are excused or noted.
LEMMA JobKeeps ==
  ASSUME WorkspaceInv, NEW j \in LinkJobs, linkJob[j] # None, NEW q \in LinkJob \cup {None},
         linkJob' = [linkJob EXCEPT ![j] = q],
         q # None => /\ q.pc = linkJob[j].pc /\ q.install = linkJob[j].install
                     /\ q.channel = linkJob[j].channel /\ q.refs \subseteq linkJob[j].refs,
         UNCHANGED <<account, drawn>>,
         excused \subseteq excused', excused' \subseteq CardKeys,
         cooling \subseteq cooling', \A k \in cooling' \ cooling : k \in CardKeys /\ drawn[k] > 0,
         \A k \in CardKeys \ excused' : About(j, k) =>
            About(j, k)' \/ k \in cooling' \/ k.install # InstallId \/ drawn[k] = 0
  PROVE  WorkspaceInv'
<1>0. /\ WorkspaceTypeOK /\ CardRules /\ IdsInOrder /\ NotesFollowCards /\ CallbacksAgree
      /\ \A k \in CardKeys \ excused : CardHolds(k)
      /\ InstallId' = InstallId /\ install' = install /\ made' = made
  BY DEF WorkspaceInv, account, InstallId
<1>1. /\ linkJob'[j] = q
      /\ \A i \in LinkJobs \ {j} : linkJob'[i] = linkJob[i]
      /\ \A i \in LinkJobs \ {j}, k \in CardKeys : About(i, k)' <=> About(i, k)
  BY <1>0, OthersAbout
<1>2. \A k \in CardKeys : About(j, k)' => About(j, k) /\ linkJob'[j].pc = linkJob[j].pc
  BY <1>1 DEF About, KeysOf
<1>3. \A i \in LinkJobs, k \in CardKeys :
        About(i, k)' => About(i, k) /\ linkJob'[i].pc = linkJob[i].pc
  BY <1>1, <1>2
<1>4. WorkspaceTypeOK'
  <2>1. linkJob' \in [LinkJobs -> LinkJob \cup {None}]
    BY <1>0 DEF WorkspaceTypeOK
  <2> QED
    BY <1>0, <2>1 DEF WorkspaceTypeOK, account
<1>5. CardRules'
  BY <1>0 DEF CardRules, OneCardAnHour, NotesAreOfCards
<1>6. IdsInOrder'
  BY <1>0, <1>1 DEF IdsInOrder
<1>7. NotesFollowCards'
  BY <1>0, <1>3 DEF NotesFollowCards
<1>8. CallbacksAgree'
  BY <1>0 DEF CallbacksAgree, account
<1>9. ASSUME NEW k \in CardKeys \ excused' PROVE CardHolds(k)'
  <2>1. CardHolds(k)
    BY <1>0, <1>9
  <2>2. \A a, b \in LinkJobs : About(a, k)' /\ About(b, k)' => a = b
    BY <1>3, <2>1 DEF CardHolds
  <2>3. \A i \in LinkJobs : About(i, k)' /\ linkJob'[i].pc = "call" => drawn'[k] = 0
    BY <1>3, <2>1 DEF CardHolds
  <2>4. drawn[k] > 0 => \/ k \in cooling' \/ k.install # InstallId
                        \/ \E i \in LinkJobs : About(i, k)' /\ linkJob'[i].pc = "note"
    <3>1. ASSUME NEW i \in LinkJobs, About(i, k), linkJob[i].pc = "note", drawn[k] > 0
          PROVE  \/ k \in cooling' \/ k.install # InstallId
                 \/ \E o \in LinkJobs : About(o, k)' /\ linkJob'[o].pc = "note"
      <4>1. CASE i # j
        BY <1>1, <3>1, <4>1
      <4>2. CASE i = j
        BY <1>2, <1>9, <3>1, <4>2
      <4> QED
        BY <4>1, <4>2
    <3> QED
      BY <2>1, <3>1 DEF CardHolds
  <2> QED
    BY <1>0, <2>2, <2>3, <2>4 DEF CardHolds
<1> QED
  BY <1>4, <1>5, <1>6, <1>7, <1>8, <1>9 DEF WorkspaceInv

LEMMA RefusedKeeps ==
  ASSUME WorkspaceInv, NEW j \in LinkJobs, Refused(j)
  PROVE  WorkspaceInv'
<1>1. /\ linkJob[j] # None /\ linkJob[j].pc = "call" /\ cooling' = cooling
      /\ linkJob' = [linkJob EXCEPT ![j] = None] /\ UNCHANGED <<account, drawn, excused>>
  BY DEF Refused, CoolAfterRefusal
<1>2. \A k \in CardKeys \ excused' : About(j, k) => drawn[k] = 0
  BY <1>1 DEF WorkspaceInv, CardHolds
<1>3. excused' \subseteq CardKeys
  BY <1>1 DEF WorkspaceInv, WorkspaceTypeOK
<1> QED
  BY <1>1, <1>2, <1>3, JobKeeps

LEMMA JobDiesKeeps ==
  ASSUME WorkspaceInv, NEW j \in LinkJobs, JobDies(j)
  PROVE  WorkspaceInv'
<1>1. /\ linkJob[j] # None /\ cooling' = cooling
      /\ linkJob' = [linkJob EXCEPT ![j] = None] /\ UNCHANGED <<account, drawn>>
      /\ excused' = excused \cup KeysOf(linkJob[j].install, linkJob[j].channel, linkJob[j].refs)
  BY DEF JobDies, AtWork
<1>2. \A k \in CardKeys \ excused' : ~ About(j, k)
  BY <1>1 DEF About
<1>3. excused' \subseteq CardKeys
  <2>1. /\ linkJob[j].install \in Ids /\ linkJob[j].channel \in Channels
        /\ linkJob[j].refs \in SUBSET Refs
    BY <1>1 DEF WorkspaceInv, WorkspaceTypeOK, LinkJob
  <2> QED
    BY <1>1, <2>1, KeysOfAre DEF WorkspaceInv, WorkspaceTypeOK
<1> QED
  BY <1>1, <1>2, <1>3, JobKeeps

LEMMA NoteKeeps ==
  ASSUME WorkspaceInv, NEW j \in LinkJobs, NEW r \in Refs, Note(j, r)
  PROVE  WorkspaceInv'
<1>0. WorkspaceTypeOK /\ NotesFollowCards /\ excused \subseteq CardKeys
  BY DEF WorkspaceInv, WorkspaceTypeOK
<1>1. /\ linkJob[j] # None /\ linkJob[j].pc = "note" /\ r \in linkJob[j].refs
      /\ UNCHANGED <<account, drawn, excused>>
  BY DEF Note
<1>2. /\ linkJob[j] \in LinkJob /\ linkJob[j].install \in Ids
      /\ linkJob[j].channel \in Channels /\ linkJob[j].refs \in SUBSET Refs
  BY <1>0, <1>1 DEF WorkspaceTypeOK, LinkJob
<1>3. CASE linkJob[j].install # InstallId
  <2>1. linkJob' = [linkJob EXCEPT ![j] = None] /\ cooling' = cooling
    BY <1>3 DEF Note
  <2>2. \A k \in CardKeys : About(j, k) => k.install # InstallId
    BY <1>2, <1>3, KeysOfAre DEF About
  <2> QED
    BY <1>0, <1>1, <2>1, <2>2, JobKeeps
<1>4. CASE linkJob[j].install = InstallId
  <2> DEFINE k0 == [install |-> InstallId, channel |-> linkJob[j].channel, ref |-> r]
             q == IF linkJob[j].refs = {r} THEN None
                  ELSE [linkJob[j] EXCEPT !.refs = linkJob[j].refs \ {r}]
  <2>1. linkJob' = [linkJob EXCEPT ![j] = q] /\ cooling' = cooling \cup {k0}
    BY <1>4 DEF Note, KeysOf
  <2>2. k0 \in CardKeys /\ About(j, k0)
    BY <1>1, <1>2, <1>4, KeysOfAre DEF About
  <2>3. drawn[k0] > 0
    BY <1>0, <1>1, <2>2 DEF NotesFollowCards
  <2>4. /\ q \in LinkJob \cup {None}
        /\ q # None => /\ q.pc = linkJob[j].pc /\ q.install = linkJob[j].install
                       /\ q.channel = linkJob[j].channel /\ q.refs = linkJob[j].refs \ {r}
    BY <1>2 DEF LinkJob
  <2>5. linkJob'[j] = q
    BY <1>0, <2>1 DEF WorkspaceTypeOK
  <2>6. q = None => linkJob[j].refs = {r}
    <3>1. CASE linkJob[j].refs # {r}
      <4>1. [linkJob[j] EXCEPT !.refs = linkJob[j].refs \ {r}] \in LinkJob
        BY <1>2 DEF LinkJob
      <4> QED
        BY <3>1, <4>1, NoneAssumption
    <3> QED
      BY <3>1
  <2> HIDE DEF q
  <2>7. \A k \in CardKeys : About(j, k) => About(j, k)' \/ k = k0
    <3> SUFFICES ASSUME NEW k \in CardKeys, About(j, k), k # k0 PROVE About(j, k)'
      OBVIOUS
    <3>1. PICK o \in linkJob[j].refs :
            k = [install |-> linkJob[j].install, channel |-> linkJob[j].channel, ref |-> o]
      BY DEF About, KeysOf
    <3>2. o # r
      BY <1>4, <3>1
    <3>3. /\ q # None /\ q.install = linkJob[j].install /\ q.channel = linkJob[j].channel
          /\ o \in q.refs
      BY <2>4, <2>6, <3>2
    <3> QED
      BY <2>5, <3>1, <3>3 DEF About, KeysOf
  <2> HIDE DEF k0
  <2> QED
    BY <1>0, <1>1, <2>1, <2>2, <2>3, <2>4, <2>7, JobKeeps
<1> QED
  BY <1>3, <1>4

LEMMA DrawnKeeps ==
  ASSUME WorkspaceInv, NEW j \in LinkJobs, Drawn(j)
  PROVE  WorkspaceInv'
<1> DEFINE K == KeysOf(linkJob[j].install, linkJob[j].channel, linkJob[j].refs)
           q == [linkJob[j] EXCEPT !.pc = "note"]
<1>0. /\ WorkspaceTypeOK /\ CardRules /\ IdsInOrder /\ NotesFollowCards /\ CallbacksAgree
      /\ \A k \in CardKeys \ excused : CardHolds(k)
  BY DEF WorkspaceInv
<1>1. /\ linkJob[j] # None /\ linkJob[j].pc = "call" /\ \A k \in K : drawn[k] < MaxDrawn
      /\ drawn' = [k \in CardKeys |-> IF k \in K THEN drawn[k] + 1 ELSE drawn[k]]
      /\ linkJob' = [linkJob EXCEPT ![j] = q]
      /\ UNCHANGED <<account, cooling, excused>> /\ InstallId' = InstallId
  BY DEF Drawn, AtWork, account, InstallId
<1>2. /\ linkJob[j] \in LinkJob /\ linkJob[j].install \in Ids
      /\ linkJob[j].channel \in Channels /\ linkJob[j].refs \in SUBSET Refs
  BY <1>0, <1>1 DEF WorkspaceTypeOK, LinkJob
<1>3. /\ K \subseteq CardKeys /\ \A k \in K : k.install = linkJob[j].install
      /\ \A k \in CardKeys : About(j, k) <=> k \in K
  BY <1>1, <1>2, KeysOfAre DEF About
<1>4. /\ q \in LinkJob /\ q.pc = "note" /\ q # None
      /\ q.install = linkJob[j].install /\ q.channel = linkJob[j].channel
      /\ q.refs = linkJob[j].refs
  BY <1>2, NoneAssumption DEF LinkJob
<1>5. /\ linkJob'[j] = q
      /\ \A i \in LinkJobs \ {j} : linkJob'[i] = linkJob[i]
      /\ \A i \in LinkJobs \ {j}, k \in CardKeys : About(i, k)' <=> About(i, k)
  BY <1>0, <1>1, OthersAbout
<1> HIDE DEF q
<1>6. \A k \in CardKeys : About(j, k)' <=> k \in K
  BY <1>4, <1>5 DEF About
<1> HIDE DEF K
<1>7. \A k \in CardKeys : /\ drawn[k] \in 0..MaxDrawn /\ drawn[k] \in Nat
                          /\ drawn'[k] = IF k \in K THEN drawn[k] + 1 ELSE drawn[k]
  BY <1>0, <1>1, WorkspaceAssumption DEF WorkspaceTypeOK
<1>8. \A k \in CardKeys : drawn'[k] >= drawn[k] /\ drawn'[k] \in 0..MaxDrawn
  BY <1>1, <1>7, WorkspaceAssumption
<1>9. WorkspaceTypeOK'
  <2>1. linkJob' \in [LinkJobs -> LinkJob \cup {None}]
    BY <1>0, <1>1, <1>4 DEF WorkspaceTypeOK
  <2>2. drawn' \in [CardKeys -> 0..MaxDrawn]
    BY <1>1, <1>8
  <2> QED
    BY <1>0, <1>1, <2>1, <2>2 DEF WorkspaceTypeOK, account
<1>10. \A k \in CardKeys \ excused : k \in K => drawn[k] = 0
  BY <1>0, <1>1, <1>3 DEF CardHolds
<1>11. CardRules'
  <2>1. OneCardAnHour'
    BY <1>0, <1>1, <1>7, <1>10 DEF CardRules, OneCardAnHour
  <2>2. cooling \subseteq CardKeys
    BY <1>0 DEF WorkspaceTypeOK
  <2>3. NotesAreOfCards'
    BY <1>0, <1>1, <1>7, <2>2 DEF CardRules, NotesAreOfCards
  <2> QED
    BY <2>1, <2>3 DEF CardRules
<1>12. IdsInOrder'
  <2>1. install' = install /\ made' = made
    BY <1>1 DEF account
  <2>2. \A i \in LinkJobs : linkJob'[i] # None => linkJob'[i].install <= made
    BY <1>0, <1>1, <1>4, <1>5 DEF IdsInOrder
  <2>3. linkJob[j].install <= made
    BY <1>0, <1>1 DEF IdsInOrder
  <2>4. \A k \in CardKeys : drawn'[k] > 0 => k.install <= made
    BY <1>0, <1>3, <1>7, <2>3 DEF IdsInOrder
  <2> QED
    BY <1>0, <2>1, <2>2, <2>4 DEF IdsInOrder
<1>13. NotesFollowCards'
  <2> SUFFICES ASSUME NEW i \in LinkJobs, NEW k \in CardKeys,
                      About(i, k)', linkJob'[i].pc = "note"
               PROVE  drawn'[k] > 0
    BY DEF NotesFollowCards
  <2>1. CASE i = j
    BY <1>6, <1>7, <2>1
  <2>2. CASE i # j
    <3>1. drawn[k] > 0
      BY <1>0, <1>5, <2>2 DEF NotesFollowCards
    <3> QED
      BY <1>7, <3>1
  <2> QED
    BY <2>1, <2>2
<1>14. CallbacksAgree'
  BY <1>0, <1>1 DEF CallbacksAgree, account
<1>15. ASSUME NEW k \in CardKeys \ excused' PROVE CardHolds(k)'
  <2>1. CardHolds(k)
    BY <1>0, <1>1
  <2>2. \A i \in LinkJobs : About(i, k)' <=> About(i, k)
    BY <1>3, <1>5, <1>6
  <2>3. \A a, b \in LinkJobs : About(a, k)' /\ About(b, k)' => a = b
    BY <2>1, <2>2 DEF CardHolds
  <2>4. ASSUME NEW i \in LinkJobs, About(i, k)', linkJob'[i].pc = "call" PROVE drawn'[k] = 0
    <3>1. i # j
      BY <1>4, <1>5, <2>4
    <3>2. ~ About(j, k) /\ drawn[k] = 0
      BY <1>5, <2>1, <2>2, <2>4, <3>1 DEF CardHolds
    <3> QED
      BY <1>3, <1>7, <3>2
  <2>5. drawn'[k] > 0 => \/ k \in cooling' \/ k.install # InstallId'
                         \/ \E i \in LinkJobs : About(i, k)' /\ linkJob'[i].pc = "note"
    <3>1. CASE k \in K
      BY <1>4, <1>5, <1>6, <3>1
    <3>2. CASE k \notin K
      <4>1. \A i \in LinkJobs : About(i, k) /\ linkJob[i].pc = "note" => i # j
        BY <1>1
      <4> QED
        BY <1>1, <1>5, <1>7, <2>1, <2>2, <3>2, <4>1 DEF CardHolds
    <3> QED
      BY <3>1, <3>2
  <2> QED
    BY <2>3, <2>4, <2>5 DEF CardHolds
<1> QED
  BY <1>9, <1>11, <1>12, <1>13, <1>14, <1>15 DEF WorkspaceInv

LEMMA HourPassesKeeps ==
  ASSUME WorkspaceInv, NEW o \in CardKeys, HourPasses(o)
  PROVE  WorkspaceInv'
<1>0. /\ WorkspaceTypeOK /\ CardRules /\ IdsInOrder /\ NotesFollowCards /\ CallbacksAgree
      /\ \A k \in CardKeys \ excused : CardHolds(k)
  BY DEF WorkspaceInv
<1>1. /\ \A j \in LinkJobs : ~ About(j, o)
      /\ cooling' = cooling \ {o} /\ excused' = excused \ {o} /\ drawn' = [drawn EXCEPT ![o] = 0]
      /\ UNCHANGED <<account, linkJob>> /\ InstallId' = InstallId
  BY AboutIsAtWork DEF HourPasses, account, InstallId
<1>2. drawn'[o] = 0 /\ \A k \in CardKeys \ {o} : drawn'[k] = drawn[k]
  BY <1>0, <1>1 DEF WorkspaceTypeOK
<1>3. \A k \in CardKeys, j \in LinkJobs : About(j, k)' <=> About(j, k)
  BY <1>1 DEF About
<1>4. WorkspaceTypeOK'
  <2>1. drawn' \in [CardKeys -> 0..MaxDrawn]
    BY <1>0, <1>1, WorkspaceAssumption DEF WorkspaceTypeOK
  <2> QED
    BY <1>0, <1>1, <2>1 DEF WorkspaceTypeOK, account
<1>5. CardRules'
  <2>1. OneCardAnHour'
    BY <1>0, <1>1, <1>2 DEF CardRules, OneCardAnHour
  <2>2. cooling' \subseteq CardKeys \ {o}
    BY <1>0, <1>1 DEF WorkspaceTypeOK
  <2>3. NotesAreOfCards'
    BY <1>0, <1>1, <1>2, <2>2 DEF CardRules, NotesAreOfCards
  <2> QED
    BY <2>1, <2>3 DEF CardRules
<1>6. IdsInOrder'
  BY <1>0, <1>1, <1>2 DEF IdsInOrder, account
<1>7. NotesFollowCards'
  BY <1>0, <1>1, <1>2, <1>3 DEF NotesFollowCards
<1>8. CallbacksAgree'
  BY <1>0, <1>1 DEF CallbacksAgree, account
<1>9. ASSUME NEW k \in CardKeys \ excused' PROVE CardHolds(k)'
  <2>1. CASE k = o
    BY <1>1, <1>2, <1>3, <2>1 DEF CardHolds
  <2>2. CASE k # o
    BY <1>0, <1>1, <1>2, <1>3, <1>9, <2>2 DEF CardHolds
  <2> QED
    BY <2>1, <2>2
<1> QED
  BY <1>4, <1>5, <1>6, <1>7, <1>8, <1>9 DEF WorkspaceInv

LEMMA WorkspaceStep == WorkspaceInv /\ [WorkspaceNext]_wvars => WorkspaceInv'
<1> SUFFICES ASSUME WorkspaceInv, [WorkspaceNext]_wvars PROVE WorkspaceInv'
  OBVIOUS
<1>1. CASE InstallSteps
  BY <1>1, InstallKeeps
<1>2. CASE LinkSteps
  BY <1>2, LinkKeeps
<1>3. CASE CardSteps
  BY <1>3, LinkSharedKeeps, DrawnKeeps, RefusedKeeps, JobDiesKeeps, NoteKeeps, HourPassesKeeps
     DEF CardSteps
<1>4. CASE UNCHANGED wvars
  BY <1>4 DEF wvars, WorkspaceInv, WorkspaceTypeOK, CardRules, OneCardAnHour,
              NotesAreOfCards, IdsInOrder, NotesFollowCards, CallbacksAgree, CardHolds, About,
              InstallId
<1> QED
  BY <1>1, <1>2, <1>3, <1>4 DEF WorkspaceNext

LEMMA WorkspaceInvAlways == WorkspaceSpec => []WorkspaceInv
BY WorkspaceInitInv, WorkspaceStep, PTL DEF WorkspaceSpec

\* The workspace's state keeps its types: a row's id stays among those counted, an identity
\* names a row, a user and a person, and a link_shared job is before its call or between its
\* notes, whatever install its row had meanwhile (views.py, identity.py, handlers.py).
THEOREM WorkspaceTypeCorrect == WorkspaceSpec => []WorkspaceTypeOK
<1>1. WorkspaceInv => WorkspaceTypeOK
  BY DEF WorkspaceInv
<1> QED
  BY <1>1, WorkspaceInvAlways, PTL

\* A ref is held back in a channel only where its card was drawn within the hour, and draws
\* one card there in it unless two jobs were about it together or one died between card and
\* note (handlers.py:210-249).
THEOREM CardsKeepAnHour == WorkspaceSpec => []CardsKeepTheirHour
<1>1. WorkspaceInv => CardsKeepTheirHour
  <2>1. WorkspaceInv => OneCardAnHour
    BY DEF WorkspaceInv, CardRules
  <2>2. WorkspaceInv => SilenceMeansDrawn
    BY DEF WorkspaceInv, CardRules, NotesAreOfCards, SilenceMeansDrawn, Unexpanded
  <2> QED
    BY <2>1, <2>2 DEF CardsKeepTheirHour
<1> QED
  BY <1>1, WorkspaceInvAlways, PTL

-----------------------------------------------------------------------------
\* A workspace that is not written stays where it points.
LEMMA OnlyWritesRepoint ==
  ASSUME [WorkspaceNext]_wvars, Repoints
  PROVE  \E p \in People : CallbackWrites(p) \/ Confirm(p)
<1>1. install' # install /\ install' # None /\ install # None
  BY DEF Repoints
<1>2. ASSUME InstallSteps PROVE \E p \in People : CallbackWrites(p) \/ Confirm(p)
  BY <1>1, <1>2 DEF InstallSteps, Begin, StateExpires, PendingAges, Disconnect, CallbackLooks,
                    SettingsPage, RoleChanges
<1>3. ASSUME LinkSteps \/ CardSteps PROVE FALSE
  <2>1. install' = install
    BY <1>3 DEF LinkSteps, CardSteps, ConnectCallback, ConnectLink, LinkExpires, LinkShared, Drawn,
                Refused, Note, JobDies, HourPasses, account
  <2> QED
    BY <1>1, <2>1
<1> QED
  BY <1>1, <1>2, <1>3 DEF WorkspaceNext, wvars

\* No workspace is exchanged for another behind an admin's back: each exchange was proposed in
\* the last ten minutes and confirmed, or written by a callback that was overtaken between its
\* look and its write (views.py:271-308, 346-380).
THEOREM SwitchesAreConfirmed == WorkspaceSpec => RepointIsConfirmed
<1> DEFINE Confirmed ==
      \E p \in People :
         \/ /\ role[p] = "admin" /\ pending[p] # None
            /\ pending[p].fresh /\ pending[p].team = install'.team
            /\ pending'[p] = None
         \/ /\ callback[p] # None /\ callback[p].team = install'.team
            /\ callback'[p] = None /\ callback[p].saw # install
<1>1. ASSUME WorkspaceInv, [WorkspaceNext]_wvars, Repoints PROVE Confirmed
  <2>0. WorkspaceTypeOK /\ CallbacksAgree /\ install # None /\ install.team # install'.team
    BY <1>1 DEF WorkspaceInv, Repoints
  <2>1. PICK p \in People : CallbackWrites(p) \/ Confirm(p)
    BY <1>1, OnlyWritesRepoint
  <2>2. CASE CallbackWrites(p)
    <3>1. /\ callback[p] # None /\ Apply(callback[p].team) /\ callback[p] \in Callback
          /\ callback'[p] = None
      BY <2>0, <2>2 DEF CallbackWrites, WorkspaceTypeOK
    <3>2. install'.team = callback[p].team
      BY <1>1, <3>1, ApplyIs DEF Callback
    <3>3. callback[p].saw # install
      BY <2>0, <3>1, <3>2 DEF CallbacksAgree
    <3> QED
      BY <3>1, <3>2, <3>3
  <2>3. CASE Confirm(p)
    <3>1. /\ role[p] = "admin" /\ pending' = [pending EXCEPT ![p] = None]
          /\ Popped(p) # None /\ Apply(pending[p].team)
      BY <1>1, <2>3 DEF Confirm, Repoints
    <3>2. pending[p] # None /\ pending[p].fresh /\ pending[p].team \in Teams /\ pending'[p] = None
      BY <2>0, <3>1 DEF Popped, WorkspaceTypeOK
    <3>3. install'.team = pending[p].team
      BY <1>1, <3>1, <3>2, ApplyIs
    <3> QED
      BY <3>1, <3>2, <3>3
  <2> QED
    BY <2>1, <2>2, <2>3
<1>2. WorkspaceInv /\ [WorkspaceNext]_wvars => [Repoints => Confirmed]_wvars
  BY <1>1
<1> QED
  BY <1>2, WorkspaceInvAlways, PTL DEF WorkspaceSpec, RepointIsConfirmed

=============================================================================
