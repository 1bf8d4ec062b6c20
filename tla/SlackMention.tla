---------------------------- MODULE SlackMention ----------------------------
(***************************************************************************)
(* One mention of the bot, from Slack's deliveries of the event to what    *)
(* ends up on the board.  Slack sends the event again when it is not       *)
(* answered 200 in time; the SlackEvent row makes the deliveries           *)
(* idempotent and is handed back when the job could not be queued          *)
(* (views.slack_events).  The queue runs the job, again if it fails        *)
(* (handlers.handle_app_mention), and every run interprets the thread      *)
(* afresh and files what it found, intent by intent (apply.apply_intents). *)
(***************************************************************************)
EXTENDS Naturals, FiniteSets

CONSTANTS
  MaxDeliveries, \* how often Slack sends one event
  MaxFailures,   \* bound on enqueues that fail
  MaxLies,       \* bound on enqueues that fail although the queue took the job
  MaxCrashes,    \* bound on server processes that die
  Durable,       \* the queue runs a job again that failed (the in-process one does not)
  MaxTroubles,   \* bound on runs of the job that fail
  Slices,        \* what the thread asks to be filed as slices
  Notes,         \* ... and as notes and areas
  Wordings       \* the titles and specs the interpreter may give a slice

\* A slice's external key is the mention and the fingerprint of its content.
Keys == Slices \X Wordings
Intents == Keys \cup Notes

ASSUME MentionAssumption ==
  /\ MaxDeliveries \in Nat /\ Durable \in BOOLEAN
  /\ MaxFailures \in Nat /\ MaxLies \in Nat /\ MaxCrashes \in Nat /\ MaxTroubles \in Nat
  /\ Keys \cap Notes = {}

VARIABLES
  row,        \* the SlackEvent row is committed
  pc,         \* per delivery: "unsent", "arrived", "inserted", "committed",
              \*   "releasing", "queued", "ended"
  acked,      \* Slack got a 200
  overlapped, \* history: Slack sent the event again while it was being handled
  tasks,      \* jobs the queue took
  failures, lies, crashes, troubles,  \* counts against the bounds
  run,        \* per job: "none", "waiting", "found", "filing", "creating", "ended"
  todo,       \* per job: the intents its run has still to apply
  making,     \* per job: the intent whose key was looked up and not found
  filed,      \* how many slices the board has for an external key
  noted,      \* how many notes or areas it has for one of Notes
  shown,      \* what Slack showed: "card" in the thread, "prompt" to its author alone
  installed,  \* an install matches the mention's team
  linked      \* ... and its author is a member who connected to it

delivery == <<row, pc, acked, overlapped, failures, lies>>
job == <<run, todo, making, filed, noted, shown, troubles>>
setup == <<installed, linked>>
vars == <<row, pc, acked, overlapped, tasks, failures, lies, crashes, troubles,
          run, todo, making, filed, noted, shown, installed, linked>>

Deliveries == 1..MaxDeliveries
Jobs == 1..MaxDeliveries

TypeOK ==
  /\ row \in BOOLEAN /\ acked \in BOOLEAN /\ overlapped \in BOOLEAN
  /\ shown \subseteq {"card", "prompt"}
  /\ installed \in BOOLEAN /\ linked \in BOOLEAN
  /\ pc \in [Deliveries -> {"unsent", "arrived", "inserted", "committed",
                            "releasing", "queued", "ended"}]
  /\ tasks \in Nat
  /\ failures \in 0..MaxFailures /\ lies \in 0..MaxLies
  /\ crashes \in 0..MaxCrashes /\ troubles \in 0..MaxTroubles
  /\ run \in [Jobs -> {"none", "waiting", "found", "filing", "creating", "ended"}]
  /\ todo \in [Jobs -> SUBSET Intents] /\ making \in [Jobs -> SUBSET Keys]
  /\ filed \in [Keys -> Nat] /\ noted \in [Notes -> Nat]

Init == /\ row = FALSE /\ acked = FALSE /\ overlapped = FALSE /\ shown = {}
        /\ installed \in BOOLEAN /\ linked \in BOOLEAN /\ (linked => installed)
        /\ pc = [d \in Deliveries |-> "unsent"]
        /\ tasks = 0 /\ failures = 0 /\ lies = 0 /\ crashes = 0 /\ troubles = 0
        /\ run = [j \in Jobs |-> "none"]
        /\ todo = [j \in Jobs |-> {}] /\ making = [j \in Jobs |-> {}]
        /\ filed = [k \in Keys |-> 0] /\ noted = [n \in Notes |-> 0]

Goes(d, there) == pc' = [pc EXCEPT ![d] = there]

-----------------------------------------------------------------------------
(***************************************************************************)
(* Deliveries.                                                             *)
(***************************************************************************)
\* Slack sends the event, again when the last delivery failed or timed out.
Send(d) ==
  /\ pc[d] = "unsent" /\ ~ acked
  /\ \A c \in 1..(d - 1) : pc[c] /= "unsent"
  /\ overlapped' = (overlapped \/ \E c \in 1..(d - 1) : pc[c] /= "ended")
  /\ Goes(d, "arrived")
  /\ UNCHANGED <<row, acked, failures, lies, tasks, crashes, setup, job>>

\* A second insert waits for the first one's transaction and then conflicts.
\* Mutant: the row is looked up and not insisted upon.
InsertRow_Unguarded(d) ==
  /\ pc[d] = "arrived"
  /\ ~ row
  /\ Goes(d, "inserted")
  /\ UNCHANGED <<row, acked, overlapped, failures, lies, tasks, crashes, setup, job>>

InsertRow(d) ==
  /\ pc[d] = "arrived"
  /\ ~ row
  /\ \A c \in Deliveries : pc[c] /= "inserted"
  /\ Goes(d, "inserted")
  /\ UNCHANGED <<row, acked, overlapped, failures, lies, tasks, crashes, setup, job>>

\* The unique constraint: a duplicate is answered 200.
Duplicate(d) ==
  /\ pc[d] = "arrived"
  /\ row
  /\ Goes(d, "ended")
  /\ acked' = TRUE
  /\ UNCHANGED <<row, overlapped, failures, lies, tasks, crashes, setup, job>>

CommitRow(d) ==
  /\ pc[d] = "inserted"
  /\ row' = TRUE
  /\ Goes(d, "committed")
  /\ UNCHANGED <<acked, overlapped, failures, lies, tasks, crashes, setup, job>>

QueueTakesIt ==
  /\ tasks' = tasks + 1
  /\ run' = [run EXCEPT ![tasks + 1] = "waiting"]
  /\ UNCHANGED <<todo, making, filed, noted, shown, troubles>>

\* on_commit: enqueue succeeds, fails, or fails after the queue took the job.
Enqueue(d) ==
  /\ pc[d] = "committed"
  /\ QueueTakesIt
  /\ Goes(d, "queued")
  /\ UNCHANGED <<row, acked, overlapped, failures, lies, crashes, setup>>

EnqueueFails(d) ==
  /\ pc[d] = "committed"
  /\ failures < MaxFailures
  /\ failures' = failures + 1
  /\ Goes(d, "releasing")
  /\ UNCHANGED <<row, acked, overlapped, lies, tasks, crashes, setup, job>>

EnqueueLies(d) ==
  /\ pc[d] = "committed"
  /\ lies < MaxLies
  /\ lies' = lies + 1
  /\ QueueTakesIt
  /\ Goes(d, "releasing")
  /\ UNCHANGED <<row, acked, overlapped, failures, crashes, setup>>

\* The failed enqueue hands the row back, and the answer is a 500.
\* Mutant: the row is kept.
Release_Kept(d) ==
  /\ pc[d] = "releasing"
  /\ Goes(d, "ended")
  /\ UNCHANGED <<row, acked, overlapped, failures, lies, tasks, crashes, setup, job>>

Release(d) ==
  /\ pc[d] = "releasing"
  /\ row' = FALSE
  /\ Goes(d, "ended")
  /\ UNCHANGED <<acked, overlapped, failures, lies, tasks, crashes, setup, job>>

Ack(d) ==
  /\ pc[d] = "queued"
  /\ Goes(d, "ended")
  /\ acked' = TRUE
  /\ UNCHANGED <<row, overlapped, failures, lies, tasks, crashes, setup, job>>

\* The process dies: an uncommitted row is rolled back, a committed one stays.
CrashDelivery(d) ==
  /\ pc[d] \in {"arrived", "inserted", "committed", "releasing", "queued"}
  /\ crashes < MaxCrashes
  /\ crashes' = crashes + 1
  /\ Goes(d, "ended")
  /\ UNCHANGED <<row, acked, overlapped, failures, lies, tasks, setup, job>>

-----------------------------------------------------------------------------
(***************************************************************************)
(* Runs of the job.                                                        *)
(***************************************************************************)
RunGoes(j, there) == run' = [run EXCEPT ![j] = there]

\* The run looks its workspace up and ends without a word if there is none ...
FindInstall(j) ==
  /\ run[j] = "waiting"
  /\ RunGoes(j, IF installed THEN "found" ELSE "ended")
  /\ UNCHANGED <<todo, making, filed, noted, shown, troubles, tasks, crashes, setup, delivery>>

\* ... and asks an author it does not know, and no one else, to connect.
PromptToConnect(j) ==
  /\ run[j] = "found" /\ ~ linked
  /\ RunGoes(j, "ended")
  /\ shown' = shown \cup {"prompt"}
  /\ UNCHANGED <<todo, making, filed, noted, troubles, tasks, crashes, setup, delivery>>

\* A fresh interpretation: an intent for each thing, worded as the model likes.
Interpret(j) ==
  /\ run[j] = "found" /\ linked
  /\ \E word \in [Slices -> Wordings] :
       todo' = [todo EXCEPT ![j] = Notes \cup {<<x, word[x]>> : x \in Slices}]
  /\ RunGoes(j, "filing")
  /\ UNCHANGED <<making, filed, noted, shown, troubles, tasks, crashes, setup, delivery>>

\* The thread asks for too much or cannot be read: the card says so and nothing
\* is filed.
Decline(j) ==
  /\ run[j] = "found" /\ linked
  /\ RunGoes(j, "ended")
  /\ shown' = shown \cup {"card"}
  /\ UNCHANGED <<todo, making, filed, noted, troubles, tasks, crashes, setup, delivery>>

Applied(j, i) == todo' = [todo EXCEPT ![j] = todo[j] \ {i}]

AddNote(j, i) ==
  /\ run[j] = "filing"
  /\ i \in todo[j] /\ i \in Notes
  /\ noted' = [noted EXCEPT ![i] = @ + 1]
  /\ Applied(j, i)
  /\ UNCHANGED <<run, making, filed, shown, troubles, tasks, crashes, setup, delivery>>

\* create_slice looks its external key up: a slice is updated in place ...
UpdateSlice(j, i) ==
  /\ run[j] = "filing"
  /\ i \in todo[j] /\ i \in Keys
  /\ filed[i] > 0
  /\ Applied(j, i)
  /\ UNCHANGED <<run, making, filed, noted, shown, troubles, tasks, crashes, setup, delivery>>

\* ... and otherwise made by a later statement, which the unique constraint on
\* the key refuses if another run was faster.
KeyIsNew(j, i) ==
  /\ run[j] = "filing"
  /\ i \in todo[j] /\ i \in Keys
  /\ filed[i] = 0
  /\ RunGoes(j, "creating")
  /\ making' = [making EXCEPT ![j] = {i}]
  /\ Applied(j, i)
  /\ UNCHANGED <<filed, noted, shown, troubles, tasks, crashes, setup, delivery>>

CreateSlice(j, i) ==
  /\ run[j] = "creating" /\ i \in making[j]
  /\ filed[i] = 0
  /\ filed' = [filed EXCEPT ![i] = @ + 1]
  /\ RunGoes(j, "filing")
  /\ making' = [making EXCEPT ![j] = {}]
  /\ UNCHANGED <<todo, noted, shown, troubles, tasks, crashes, setup, delivery>>

\* apply_intents reports the refusal like any other and goes on.
KeyIsTaken(j, i) ==
  /\ run[j] = "creating" /\ i \in making[j]
  /\ filed[i] > 0
  /\ RunGoes(j, "filing")
  /\ making' = [making EXCEPT ![j] = {}]
  /\ UNCHANGED <<todo, filed, noted, shown, troubles, tasks, crashes, setup, delivery>>

\* An intent that is refused (a closed board, a slice or area that is not
\* there) or asks a question back is reported and passed over.
Refuse(j, i) ==
  /\ run[j] = "filing"
  /\ i \in todo[j]
  /\ Applied(j, i)
  /\ UNCHANGED <<run, making, filed, noted, shown, troubles, tasks, crashes, setup, delivery>>

Reply(j) ==
  /\ run[j] = "filing" /\ todo[j] = {}
  /\ RunGoes(j, "ended")
  /\ shown' = shown \cup {"card"}
  /\ UNCHANGED <<todo, making, filed, noted, troubles, tasks, crashes, setup, delivery>>

\* Mutant: a job that failed is not run again.
FailRun_Forgets(j) ==
  /\ run[j] \in {"waiting", "found", "filing", "creating"}
  /\ troubles < MaxTroubles
  /\ troubles' = troubles + 1
  /\ RunGoes(j, "ended")
  /\ todo' = [todo EXCEPT ![j] = {}]
  /\ making' = [making EXCEPT ![j] = {}]
  /\ UNCHANGED <<filed, noted, shown, tasks, crashes, setup, delivery>>

\* Slack refuses the card, or the process dies: what was filed stays, and a
\* durable queue runs the job again from the top.
FailRun(j) ==
  /\ run[j] \in {"waiting", "found", "filing", "creating"}
  /\ troubles < MaxTroubles
  /\ troubles' = troubles + 1
  /\ RunGoes(j, IF Durable THEN "waiting" ELSE "ended")
  /\ todo' = [todo EXCEPT ![j] = {}]
  /\ making' = [making EXCEPT ![j] = {}]
  /\ UNCHANGED <<filed, noted, shown, tasks, crashes, setup, delivery>>

\* Admins install and disconnect, authors connect and leave (modules SlackWorkspace
\* and Membership say how); a disconnected install takes its identities with it.
SetupChanges ==
  /\ installed' \in BOOLEAN
  /\ linked' \in BOOLEAN
  /\ linked' => installed'
  /\ UNCHANGED <<tasks, crashes, delivery, job>>

-----------------------------------------------------------------------------
Deliver(d) == \/ InsertRow(d) \/ Duplicate(d) \/ CommitRow(d)
              \/ Enqueue(d) \/ EnqueueFails(d) \/ EnqueueLies(d)
              \/ Release(d) \/ Ack(d)

Work(j) == \/ FindInstall(j) \/ PromptToConnect(j) \/ Interpret(j) \/ Decline(j) \/ Reply(j)
           \/ \E i \in Intents : \/ AddNote(j, i) \/ UpdateSlice(j, i) \/ Refuse(j, i)
                               \/ KeyIsNew(j, i) \/ CreateSlice(j, i) \/ KeyIsTaken(j, i)

Next == \/ \E d \in Deliveries : Send(d) \/ Deliver(d) \/ CrashDelivery(d)
        \/ \E j \in Jobs : Work(j) \/ FailRun(j)
        \/ SetupChanges

Spec == Init /\ [][Next]_vars

(***************************************************************************)
(* Fairness: a server process goes on with a delivery, the queue starts    *)
(* what it took and the worker goes on with it.  Nothing is assumed of     *)
(* Slack, nor that anybody installs or connects; failures and crashes are  *)
(* finitely many.                                                          *)
(***************************************************************************)
FairSpec == /\ Spec
            /\ \A d \in Deliveries : WF_vars(Deliver(d))
            /\ \A j \in Jobs : WF_vars(Work(j))

-----------------------------------------------------------------------------
\* However deliveries race, the event is queued once, and once more for every
\* enqueue that failed although the queue had taken the job.
QueuedOnce == tasks <= 1 + lies

\* _enqueue_or_release: the row "must not outlive a delivery that queued
\* nothing" -- unless one is still at work on it or its process died.
RowMeansQueued ==
  row /\ crashes = 0 =>
    \/ tasks > 0
    \/ \E d \in Deliveries : pc[d] \in {"committed", "releasing"}

\* Once Slack has its 200 and will not send again, the event is queued or some
\* delivery can still queue it: a failed enqueue is always sent again, unless
\* deliveries overlapped or a process died.
AckedIsNotLost ==
  acked /\ ~ overlapped /\ crashes = 0 =>
    \/ tasks > 0
    \/ \E d \in Deliveries : pc[d] \in {"arrived", "inserted", "committed"}

\* handle_app_mention: while the workspace is installed, what the queue took is
\* answered with a card in the thread or a prompt to connect; while its author is
\* connected too, with a card, however often the job fails on the way.
QueuedIsAnswered ==
  /\ []installed => ((tasks > 0) ~> (shown # {}))
  /\ []linked => ((tasks > 0) ~> ("card" \in shown))

=============================================================================
