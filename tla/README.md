# tuckit in TLA+

tuckit is a board where people and their coding agents share the state of a
project: slices of work in areas, a *decision canvas* under each slice on which
an agent proposes and a person chooses, an activity feed that keeps open tabs up
to date, an MCP endpoint for the agents and a Slack bot that files what is
mentioned to it. It is one Django application over PostgreSQL.

This directory holds a model of its stateful core, the TLC runs that check it on
small instances, and TLAPS proofs of the properties that matter most for
instances of any size. Paths below are relative to `src/tuckit/`.

How to run: `tlc -config X.cfg MCX.tla` for a run, `tlapm X_proofs.tla` for a
proof module. `PROJECT.json` lists the runs, the source lines each definition
stands for, one mutation of the code per property that makes the property fail,
and the hazards.

Contents: [the system](#1-the-system) · [why it is hard](#2-what-makes-it-hard) ·
[modules](#3-modules) · [runs](#4-runs-and-bounds) · [history
variables](#5-history-variables-and-conditions) · [fairness](#6-fairness) ·
[proofs](#7-proofs) · [disagreements](#8-where-the-code-and-its-words-disagree) ·
[not modelled](#9-not-modelled) · [plan](#10-plan)

## 1. The system

Everything persistent is a row in PostgreSQL, read and written by the functions
of `core/services/`. Who calls them:

- **browsers**, through the Django views of `web/views/` (threads of the server);
- **agents**, through the MCP tools of `core/mcp/server.py` (an asyncio loop that
  runs the database work on one executor thread);
- **Slack**, through `integrations/slack/`: a webhook that queues a job, and the
  job, which may run in a daemon thread or in an external queue.

The parts talk through the database and by plain calls; there is no message bus.
The exceptions are the limiter's dictionaries, which live in the memory of one
server process, and the cursor of an open tab, which lives in JavaScript.

| Part | State it keeps | Operations | What makes it correct |
|---|---|---|---|
| Decision canvas (`services/slices.py`, `canvas.py`) | `Slice.decision_tree`: the list of question, option and note nodes; `Slice.spec` | `propose_nodes`, `choose_option`, `update_slice` | the record is a tree that only grows; an answer that was built on is never changed; nothing grows after the spec |
| Canvas watches (`services/watches.py`) | `CanvasWatch`: token, question, choice, expiry | `open_watch`, `answer_watches`, `close_watches`, `read_watch` | an agent that polls hears the answer that is on the record, once, and a dead channel stays dead |
| MCP rate limiter (`services/ratelimit.py`, `throttle.py`, `mcp/auth.py`) | dict of buckets, memo of blocked bearers, dict of recorded episodes, `ThrottleEpisode` | `allow`, `memo_block`, `record_episode` | the lazily refilled, swept dict is a token bucket; the memo refuses only who was refused |
| Live cursor (`services/activity.py`, `views/live.py`, `middleware.py`, `live.js`) | activity ids, the tab's cursor, timer and fetch | append, stamp, poll, receive | a tab is told of each event of others once, and of none never |
| Slack mentions (`slack/views.py`, `queue.py`, `handlers.py`, `apply.py`) | `SlackEvent` rows, the queue, slices by external key | deliver, enqueue, release, run, file | a mention Slack was answered for is queued, once, and answered |
| Membership (`services/orgs.py`, `invitations.py`, `members.py`, `entitlements.py`) | `OrgMember` (role, ended_at), `Invitation`, `Slice.assignee` | role, remove, leave, invite, accept, cancel, assign | an owner remains; seats are bounded; who left is nobody's assignee; only the invited get in |
| Slices and areas (`services/slices.py`, `areas.py`) | `Slice` row, `Area`, `Org.next_slice_number`, activity rows | create, upsert under a key, update, mark, file, delete an area | numbers without holes, one slice per key, `completed_at` agrees with the status, the thread tells what happened |
| Bites and ranks (`services/bites.py`, `ranking.py`, `ranking_helpers.py`) | `Bite` rows with a fractional rank | add a batch, edit, move, tick, delete | a rank is between its neighbours; a step is what was last said of it |
| Batch updates (`mcp/server.py`) | one transaction over many slices | `update_slice` with a list | all of it or nothing; every call ends, whatever order the rows are taken in |
| OAuth grants and API tokens (`services/oauth.py`, `oauth_apps.py`, `tokens.py`) | codes, access and refresh tokens, API tokens | authorize, exchange, rotate, disconnect, generate, revoke | one live pair per grant; a grant nobody disturbed can continue; a disconnected one cannot |
| MCP endpoint (`mcp/transport.py`, `compose.py`, `auth.py`, `server.py`) | the process's one database connection, requests under way, `Org.priority_policy` | the middleware stack, bearer resolution, a tool | every request ends; a dead idle connection is never the one a request uses; policy lines are not lost |
| Slack workspace (`slack/views.py`, `identity.py`, `handlers.py`) | `SlackInstall`, session's pending switch, `SlackIdentity`, `SlackUnfurl` | install, switch, confirm, disconnect, connect a user, draw cards | another workspace only by a confirmation; a card an hour in each channel |
| Canvas reads (`services/canvas.py`, `state.py`) | none of their own | the page (`spine_for`), the map (`layout`), the agent's text | every node is read, once, after what it answers; no two cards overlap |
| Screens and reads (`services/state.py`, `slices.py`, `views/pages.py`, `context_processors.py`) | none of their own | Board, Inbox, Home, area pages, sidebar, `get_project_state`, `list_slices` | every slice is on a screen; the screens agree with each other |
| Home's watermark (`services/state.py`, `views/pages.py`) | `OrgMember.home_seen_at` | visit | what happened since the last visit is badged once, unless a save was overtaken |
| Get-started checklist (`views/onboarding.py`, `context_processors.py`) | `Org.onboarding_completed`, `onboarding_dismissed`, a listener's cursor | render, connect a key, ask for the agent, dismiss | gone for good once done; the agent's first event is heard |
| Export (`services/export/`) | a snapshot of one request | collect, zip, JSON, CSV | it misses nothing, and says what the board says |
| Keys and refs, accounts, search, rendering, ... | see section 9 | | |

How the parts meet: a choice answers the watches of its question in its own
transaction and a spec deletes them in its own; a propose opens a watch in the
*next* statement. Every write of a slice appends an activity row, which the
cursor delivers. The Slack job calls `create_slice` with an external key. Leaving
an org unassigns its slices. The limiter stands in front of every MCP call, and
the endpoint resolves its bearer against the rows the grants keep. The Slack
identities decide who may mention and whose pasted links are drawn; Home reads
what every other part wrote.

## 2. What makes it hard

One fact shapes nearly every module. **There is no `ATOMIC_REQUESTS`, the
isolation level is READ COMMITTED, and services are handed a row that a view
loaded earlier.** They check the copy, change it and save it, some of them every
column. So a request is modelled as (at least) two steps, *load* and *save*, with
the copy in between as state, and another request may do anything in the gap.
Only a few things are stronger: the row lock on `Org.next_slice_number`, those on
an invitation that is being accepted and on a code or refresh token that is being
spent, the transaction around a batch, and unique constraints. The batch brings a
hazard of its own: it locks its rows in the caller's order.

The agents' side adds a second fact: everything that touches the database runs on
**one thread with one connection per process**. That serialises statements, not
requests, and one connection that died is everybody's.

The rest comes from the outside: Slack delivers an event again while the first
delivery is at work; an enqueue may fail although the queue took the job; a
process may die between a commit and the next statement; a queue runs a failed
job again and a language model words the result differently; ids of a sequence
are handed out before they are committed; tabs hide, fetches are lost.

`PROJECT.json` lists the hazards line by line (40 of them), with the properties
that would catch each and a note where none does yet.

## 3. Modules

`X.tla` is a component, `MCX.tla` gives its constants values for TLC, `X.cfg`
is a run, a `_proofs.tla` module holds the theorems of one part (section 7). A `\* Mutant:` comment
marks a definition that is a plausible mistake in the definition after it; it is
in no behaviour of the specification.

### CanvasOps, DecisionRecord, CanvasRequests: the record, promised and real

- **CanvasOps** has no state: the operators of `slices.py` and `canvas.py` on a
  sequence of nodes. `BatchAccepted` is the validation of `propose_nodes`
  (`_assert_parent_accepts` node by node, a batch seeing its own earlier nodes),
  `Choosable`/`Chosen` that of `choose_option`, `IsLocked` and `QuestionState`
  the functions of that name.
- **DecisionRecord** is the abstract specification: what the tool descriptions
  promise, each operation one step on `nodes` and `written` (the spec is
  non-blank).
- **CanvasRequests** is what the services do, on the same `nodes` and `written` (the
  slice row) and under the same clock. A request loads (`Load`), and saves
  the tree (`SavePropose`, `SaveChoice`) or every column (`SaveSpec`,
  `SaveOther`: a title or assignee edit carries the tree it loaded). The
  watches are composed in: `SaveChoice` answers them, `SaveSpec` closes them,
  `OpenWatch` is a statement of its own after the propose. `Abandon` is a
  rejected or dead request. It implements DecisionRecord
  (`ImplementsPromise`) until two requests first overlap.

Node text and the agent's arguments are abstracted to ids, kinds and parents;
`clock` is the order in which nodes are stamped.

### CanvasSpine: the record, read

Operators over DecisionRecord's records, a node being its position. `RowsOf` are the rows
`walk` appends of a node, `GoesOn` the nodes it goes on to, and `SpineFor` the page's rows in
order; `ReadFrom` and `PageOf` add what `_row_bodies` prints of the rows under each
candidate, `NodesTold` is what `_render_decisions` tells an agent. `Reparented`, `Walked` and
`Layout` are the map, down to the last step that pushes cards of a column apart. Sorting is
by rank (`InOrder`: the k-th of a set is the one with k - 1 before it) and the walks are
recursive functions on the places of a record, so the module can be proved about.
`AnyAgeSpec` is DecisionRecord from any record that older versions of the code could leave:
`Readable`, which is less than well-formed. Cards have any height `Heights` gives their ids;
the code halves heights and the model halves and rounds down, which is the same for
heights in units that halve often enough, and any heights are such in some unit.

### TokenBucket, Throttle: the limiter

- **TokenBucket** is the abstract bucket: credit refilled at every tick, capped,
  spent one call at a time, with the bound on what a window can serve.
- **Throttle** is the process: `buckets` holds `[tokens, updated]` for the keys
  that are in the dict, `Serve`/`Refuse` are `check` with its two layers
  (connection, then org; a call is charged to both or neither), every
  `SweepEvery`-th call drops buckets that would be full, a refusal sets the memo
  and at most one `ThrottleEpisode` per suppression period. The memo is looked at
  on the event loop, before a request queues for the executor, so requests may
  wait while others are refused (`waiting`). Tokens are counted in parts, `Cost`
  of which are one token, so that rates below one per tick are exact integers
  where the code has floats.

### LiveCursor: one tab and the feed

Writers take an id (`Begin`), commit later and in any order, and the tab's own
writes carry a stamp, read after the view returned: the org's newest id,
whoever wrote it. The poll's two queries (`Count`, then `Fetch`) are separate
steps, as are the answers' arrival; timer, hidden tab, lost fetch and the
adoption of a stamp are the branches of `live.js`.

### SlackMention: from delivery to board

`row` is the committed `SlackEvent`; a delivery goes through insert, commit,
enqueue and, if that fails, release, each its own step, with crashes between.
A run of the job looks the workspace's install up and ends without a word if there
is none (`FindInstall`), then the author, whom it asks in private to connect if they
are not a member who did (`PromptToConnect`). Then it interprets the thread
afresh (`Wordings`: the model may word an intent differently in every run, and the key
is a fingerprint of the words), looks each key up, inserts, appends notes and posts the
card. `KeyIsTaken` is the insert that another run overtook: the unique constraint refuses
it, and `apply_intents` reports the error and goes on. `Decline` is the card of a thread
that asks for too much or cannot be read. `installed` and `linked` are what the two
lookups would find; `SetupChanges` lets admins install and disconnect and authors connect
and leave at any time, which modules SlackWorkspace and Membership model in full.
`shown` is what Slack showed, the card or the prompt; the placeholder, which may be
missing, is not modelled. `Durable` tells a queue that runs failed jobs again from the
in-process default.

### Membership: roles, invitations, seats, assignees

Requests read (`Ask...`), check (`Permit...`, `Guard...`, `Count...`,
`Check...`, `FindRow`) and save, one step per query of the code. A membership
row is "none", a role, or "ended": rows are never deleted, and role changes save
the role column only. An accept holds the lock on its invitation from its first
step to its last. `Stop` is a refused or dead request.

### SliceBoard: slices and areas

`rows` are the slices with area, status, completed, key, creator and number;
`req` says what each handler holds. `MintNumber` takes the counter's lock and
keeps it until the insert commits (`Insert`) or fails; the update in place of an
existing key, the marking, the filing and the edit save a copy. `event` is the
activity row the last step wrote, so that "what the thread says" can be compared
with what changed.

### OAuthGrants, McpEndpoint: access and the way in

- **OAuthGrants** follows a grant (named by its code) from the consent form to its
  last rotation. Each statement that commits alone is a step: `SpendCode` deletes
  the code in one transaction, `IssueAccess` and `IssueRefresh` insert the tokens in
  two more, so a crash, a lost answer or a disconnection fits between. A refresh
  looks without a lock (`AskRefresh`) and then rotates under one (`Rotate`).
  `DisconnectFind` and `DisconnectDelete` are the collector's query and its
  deletion. Scopes and redirect addresses are left out; whether they match is the
  input `proof`.
- **McpEndpoint** extends it: `Enter` is the stack from the outside in, each
  middleware an operator (`AtEntry`, `PassesGate`, `RefusesStream`,
  `IsNotification`), then `Resolve`, `Stamp` (the due `last_used_at`), `Tool`, and
  `Leave` in the `finally`. `conn` is the shared connection, which
  `FarEndCloses`. The memo of module Throttle is an input here. One tool is followed
  to its end, `append_priority_policy`, which saves a text the request
  read when its bearer was resolved.

### SlackWorkspace: installation, identities, cards

`CallbackLooks` and `CallbackWrites` are the redirect back from Slack, with
everything that may happen between its look at the row and its
`update_or_create`; another team is stashed in the person's session (`pending`)
until `Confirm`, the settings page drops it when it is old, and so does `Confirm`.
`role` is what module Membership decides; here it changes at will. A
`link_shared` job reads the cooldowns of the channel (`LinkShared`), calls Slack (`Drawn`,
`Refused`) and notes each ref on its own (`Note`); two jobs may run and either may
die. A cooldown is a `SlackUnfurl` row and has its key: the install, the channel and the
ref (`CardKeys`), so a ref that is silent in one channel is drawn in another. A card that
one call draws under two links to the same slice counts once.

### Ranks, Checklist, SliceBatch: writes on the board

- **Ranks** has no state: `RankBetween` and `RankFor` over integers, `Scale` of
  which make a whole step of the library's key. What matters is kept: a key lies
  strictly between its neighbours and is the same for the same neighbours.
- **Checklist** is the bites of a slice. `create_bite` looks (`AddLook`) and
  inserts (`AddInsert`) once per element of a batch; `update_bite` loads the row,
  then the neighbour, then the neighbour's neighbour, and saves every column
  (`AskEdit`, `EditNear`, `EditPlace`, `EditSave`), which brings back a row deleted
  meanwhile; the checkbox saves the status only.
- **SliceBatch** is `update_slice` with a list. `holder` is who has locked a row;
  calls of one process take turns on its thread, calls of two processes and a
  sweep (the one-statement updates when an area is deleted or a member leaves)
  wait for each other's rows. `DatabaseAborts` is the deadlock detector.

### BoardViews, HomeVisit, GetStarted, Export: what people read

- **BoardViews** defines every screen's query as an operator of the rows (`OrgBoard`,
  `AreaBoard`, `FocusedList`, `AreaCard`, `HomeState`, `YourTurn`, `ProjectState`,
  `ListTool`), from the function behind it; the stage is computed twice in the
  code, by annotation and by counting, and so it is here, and the sidebar
  (`SidebarAreas`) counts with a query of its own. `ScreensAgree` has three parts: the
  screens name the same slices (`SameSlices`), count the same of each area (`SameCounts`),
  and the areas add up to the org (`AreasAddUp`). Its actions let the rows be whatever
  SliceBoard and Checklist can make of them.
- **HomeVisit** is a visit of Home in the order of `pages.home`: the member's row is
  loaded, the news listed, the time taken (`TakeTime`) and, in another step, saved over
  the watermark (`SaveMark`), whatever another tab has put there since. Events are stamped
  inside transactions that commit later, and a member may have two tabs.
- **GetStarted** is the checklist on a young org's pages: a request loads the org
  (`LoadOrg`), counts the steps (`CountSteps`) and only then reads the newest event
  its listener will ask from (`SetBaseline`). `AgentJoins` and `StillListening` are the
  two answers of `agent_check`, `ConnectKey` puts a second listener on the page. All three
  render a fragment, and with it run the context processor, which may be the one that
  finds the checklist done and stores it (`RenderFragment`).
- **Export** is one export: `CollectAreas`, `CollectSlices`, `CollectBites` and
  `CollectActivity` are the queries of `collect`, each on the board of its moment, while
  areas, slices, steps and events are written (`Meanwhile`); `QueryAfter` is the order of
  the queries. `Tree`, `Readme` and `Document` are the
  files; `GetSlice` is what an agent reads of the same slice.

## 4. Runs and bounds

Eleven passing runs, each within five minutes on two cores, and one that shows a
disagreement (section 8). The type invariant of every module with state is a theorem
(`TypeCorrect` and its like, section 7), so no run spends a property on it; in the runs of
several scenes (agent_access, slack_workspace, board_writes, home_views) `WellTyped`
asserts it as well, on every state that is reached.

**decision_record** (`DecisionRecord.cfg`). One question with two options, a
follow-up question and a note, sent singly under any parent or as a batch: five
ids are the fewest for a record in which a losing option, a locked answer and a
note could all be extended wrongly. `AppendOnly` and `LockedAnswerStays` are about
steps: nothing is lost or rewritten, and an answer with something under it is
final. A record begins empty or with up to four nodes as older versions of the code
could leave them (branches under losing candidates, follow-ups that hang off the
question). `RecordReadsWhole` asks of each and of all it grows into that the page has every node once
and after what it answers, that the agent's text leaves none of them out as long as only
winners have branches, and that no two cards of the map overlap, whatever their heights
(three profiles: all short, a question's tall, a candidate's tall, so that a parent can be
higher than all its children's band and the other way round). The run shows on small
instances what `RecordAlwaysReadsWhole` states of all (section 7).

**canvas_requests** (`CanvasRequests.cfg`). One agent and one browser, two
tokens, a clock of three ticks (a watch's life is two, its grace one: a watch can
expire, be answered, and be heard late). Whatever overlaps: `RecordNeverTorn` (a
race loses whole updates and never mixes two), `WatchNeverTurnsBack`,
`ClickReachesItsWatches`. Until requests overlap: `WatchesFollowTheRecord` (a closed
design has no live watch, and a waiting watch's question is unanswered), and the
refinement `ImplementsPromise`.

**throttle** (`Throttle.cfg`). Two connections of one org; one has two bearers' worth of
waiting requests, so the memo and the bucket can disagree; bursts 3 and 4 of
parts, a call costs 2, so that a bucket is part-filled, refused by either layer,
and swept (every third call) before and after it is full. `ImplementsBucket`
is the refinement to TokenBucket; `EpisodesSpaced` bounds the rows;
`MemoFollowsRefusal` says a bearer is newly turned away only by a refusal of its
own request and only for the memo's time.

**live_cursor** (`LiveCursor.cfg`). One write of the tab, two of others, three
ids, one lost fetch. `NeverTwice`, `NothingMissed`, and the liveness property
`EventuallySeen`: a tab that stays visible is told of every event that an answer to
its own write did not cover.

**slack_mention** (`SlackMention.cfg`). Three deliveries (the first and two
retries), one failing enqueue, one that lies, one crash, one failed run, one slice in
two wordings and one note; a failing and a lying enqueue are enough for every delivery but
the last to fail, one failed run enough for everything to be filed again. The workspace is
installed or not, the author connected or not, and both may change at any step.
`QueuedOnce` and `AckedIsNotLost` are about the webhook. `QueuedIsAnswered` is liveness, and
conditional on the setup: while the workspace stays installed a queued mention is answered
with the card or the prompt to connect; while its author stays connected as well, with the
card. Without an install the job says nothing (`handlers.py:55`), as
`test_app_mention.py:115` wants it. Deadlock is not checked: the model ends when Slack
stops sending.

**membership** (`Membership.cfg`). Two people, two requests of any kind, two
invitations, two seats, a second org only there to be left. Two requests
suffice for every check-then-act race of the code, two seats and two invitations
for a limit that is reached and exceeded. `OnlyInvitedGetIn` holds whatever
overlaps; `SeatsWithinLimit` allows one seat too many per overlapping request and
not more; `OwnerRemains` and `AssigneesAreActive` need requests that did not
overlap.

**slices** (`SliceBoard.cfg`). Two handlers of any kind, two slices, one area,
one key, one user; two slices are the fewest for a number or a key to be given
twice, two handlers for a copy to be stale. `NumbersGapless`
holds whatever overlaps or dies (as one slice per key does, theorem
`KeysAndAreasHold`); `ThreadTellsTheStory` holds but for the step in
which a stale copy is saved. The statuses are "open" and "shipped": "dropped" is a
second value that is not "shipped".

**agent_access** (`AgentAccess.cfg`), two scenes. *grants*: from an empty database,
four ids (`MaxMinted`), which is a code, its pair, a rotation and one more (a
second grant, a second rotation or an API token), two overlapping requests of the token
endpoint, two orgs so that a disconnection has an elsewhere. `GrantHasOnePair` (no grant has two
live pairs, and one that nothing disturbed has one its client can continue
with), `DisconnectedStaysOut`. *endpoint*: two requests of any
bearer, method and body over a connected app and an API token that expire and are
revoked, two policy lines, a person who rewrites the policy, a connection that dies
when it likes. `OnlyFreshDeathsAreFelt`, `PolicyAsWritten`, and the
liveness of `EveryRequestEnds`. Two requests are the fewest to share a
connection or lose a line.

**slack_workspace** (`SlackWorkspace.cfg`), three scenes. *install*: two people whose
roles change, two workspaces, up to two rows (`MaxInstalls`: an id after a
disconnection differs from the one before). `RepointIsConfirmed`. *cards*: two jobs,
two refs in any message, at most two cards a window (`MaxDrawn`: one too many is
enough to see), one channel, a workspace that is disconnected and connected again.
*channels*: the same jobs and refs in two channels, the install and the identities left
alone. `CardsKeepTheirHour`, in both: a ref is drawn at most once an hour in a channel, and
held back only where it was drawn in that channel (`test_unfurl.py:69-88`: a card
in one channel does not silence another).

**board_writes** (`BoardWrites.cfg`), four scenes. *add* and *tick*: two requests
add up to two steps each (`MaxBatch`), delete, tick and edit three steps at most.
*move*: three steps in any order are moved past each other, keys within
`MaxWhole` whole steps of two halves (`Scale`): three are the fewest with a between
that is neither end, and where the model's keys run out the move does not happen.
`TiesAreRaces`, `LandsWhereAsked`, `AsLastMeant`. *batch*: two calls with lists of up
to two ids (`BatchLimit`; lists of three are refused) and a sweep over two slices,
on one or two processes: `AllOrNothing`, and `EveryCallEnds`, which two calls in
opposite order would break without the detector.

**home_views** (`HomeViews.cfg`), four scenes. *views*: two slices in any state, two
areas and the Inbox, limits of one, so every list is cut: `EverySliceIsOnAScreen`,
`ScreensAgree` (Home, the boards, the areas page, the sidebar, the slice's own page and
the agent's tools count alike). *visits*: one member with two tabs, four stamps (`MaxTime`), a list
of two (`ShownLimit`): `NewsIsBadgedOnce`. Three stamps, an event's between those of two
overlapping visits, are enough for the overtaken save to move the watermark back over the
event and a third visit to badge it again, which the property excuses; without `undone`
the run fails there. Members share nothing but the events, so
one suffices. *started*: two tabs and two events (one for each side of a cursor) of
people or agents, committed in any order or never: `ChecklistIsHonest`. *export*: any
board of an area, two slices and a step with no or two events (of equal or reversed
times), and two writes anywhere between the queries, which is what it takes to create an
area and file a slice there: `ExportIsWhole`.

The scenes keep apart what shares no state and would only multiply.

Symmetry is used in `membership`, `slices`, `slack_workspace`, `board_writes` and
`home_views`, over sets the specifications never tell apart. `board_writes` has a
liveness property: it is about the calls and the sweep, which are not in the symmetry
sets; the one set of its scene that is, the processes, only labels calls, and the
label never changes, so permuting it maps every behaviour to one that ends
alike. The bounds `MaxTime`, `MaxId`, `MaxDeliveries`, `MaxFailures`, `MaxLies`,
`MaxCrashes`, `MaxTroubles`, `MaxLost`, `MaxWaiting`, `MaxMinted`, `MaxInstalls`,
`MaxDrawn`, `MaxWhole`, `MaxBatch` and `Steps` appear as guards or in the
sets of inputs and are named in the modules; the moving scene also stops when two of
its three steps were placed in a race. Nothing else is cut off. Deadlock is
not checked where the clock or the ids of the model run out.

## 5. History variables and conditions

Several promises hold only where the code's races do not strike. Rather than
leave the races out, the models run them and the property says when it counts.

- `overlapped` (CanvasRequests, Membership, SlackMention): a request started, or
  Slack sent again, while another was under way. Never reset: what a race broke
  stays broken, so the promise is "until the first overlap". The
  unconditional properties of the same modules say what survives.
- `disordered` (LiveCursor): a row was committed below an id already committed.
  `max(id)` is then not a safe cursor, and an event below it is never fetched.
- `adopted` (LiveCursor): how far stamps took the cursor.
- `SavesStaleCopy(s)` (SliceBoard) is a condition on a single step: this step
  saves a copy of `s` that differs from the row. Unlike `overlapped` it excuses that
  step only.
- `from`, `spent` (TokenBucket, Throttle): the measuring window.
- `granted`, `stranded`, `ended`, `banned` (OAuthGrants): grants whose code was
  accepted; that lost an answer or a process; of which a disconnection deleted a token;
  that were at rest throughout a disconnection. `held` is not history but what
  the client knows.
- `died`, `kept` (McpEndpoint): the connection was closed since the request came
  in; the policy as its writers meant it, or `Mixed` from the first write beside
  another request's copy on.
- `drawn`, `excused` (SlackWorkspace): calls that drew a ref in a channel in the window;
  refs of a channel two jobs were about at once or a job died over. Both start over when
  the hour has passed.
- `raced`, `meant`, `clobbered` (Checklist): steps placed while a rank was written;
  what was last said of a step; steps overwritten by an old copy, until the
  next word on their status.
- `saved` (SliceBatch): the committed saves and whether each left an activity row.
- `over`, and `late`, `agents`, `gap` of a tab (GetStarted): the checklist was seen done
  or dismissed; the request began after that; the agent's events when the steps were
  counted; those at or below the cursor that were none of them.
- `writes`, `lasting` (Export): writes since the export began; what was there from then
  on.
- `told`, `slipped`, `undone` (HomeVisit): stamps a finished visit could list; stamps
  below a visit's mark that were not committed when it listed; stamps a save that was
  overtaken moved the watermark back over.

## 6. Fairness

Four specifications state any, and only where something in the code drives the
step.

- LiveCursor `FairSpec`: `WF(Poll)` because `setTimeout` fires and the
  visibility handler polls; `WF(Count)`, `WF(Fetch)` because a server answers a
  request it took; `WF(Receive)` because a fetch settles, with its answer or, at
  most `MaxLost` times, as an error, after which `live.js` schedules again. The user
  is free to hide the tab, and writers need never commit.
- SlackMention `FairSpec`: `WF(Deliver(d))` because a view runs to its answer (or
  its process dies, a separate action within `MaxCrashes`); `WF(Work(j))` because
  a worker runs what the queue holds. Slack need not send again, and nobody need install
  or connect: the property says what follows while they have. The queue is
  `Durable`: with the in-process default a restart loses the job, and nothing is
  claimed.
- McpEndpoint `WF(Step(r))`: each layer of the stack calls the next and returns, the
  thread runs what is queued for it, and `finally` runs after an error. Agents need
  never ask, connections need not die or live.
- SliceBatch `WF(Step(w))`: a thread goes on with its loop, the database serves a
  waiting statement once the row is free and looks for circles
  (`deadlock_timeout`). A call need not be retried: it was aborted, and is not.

## 7. Proofs

Eight proof modules, one for each part, for every value of the constants that
satisfies the named assumptions. These are what the code has: tables are finite
(`MembershipAssumption`, `BatchAssumption`, the areas and slices of `ViewsAssumption` and
`ExportAssumption`), costs, periods, limits and heights (`SpineAssumption`) are natural
numbers, and names that mean different things differ (`NoneAssumption`,
`ChecklistAssumption`: "leave as it is" is no status; `ViewsAssumption`: no area is called
what a filter calls all of them; `ExportAssumption`: a row of one table is no row of
another). None restricts how many requests, tabs, members or rows there are.

A property is seldom inductive. For each, what had to be added:

- **Canvas_proofs**. *The record.* An accepted batch and an accepted choice keep it
  well-formed, by what `_assert_parent_accepts` demands of each node.
  `RecordStaysWellFormed` with the types is inductive: "nothing hangs off a loser" needs
  "an answer is a candidate", and that needs that no id is used twice.
  `RecordIsAppendOnly` and `LockedAnswersStay` are about steps and follow from it.
  *The requests.* `RecordIsNeverTorn` is about the copies as well, since a save writes one
  back; `RequestsRefine` needs that with at most one request under way a loaded copy *is*
  the row (`CopyIsRow`), so that each save is the promised step.
  *The reading.* `RecordAlwaysReadsWhole` starts from any `Readable` record (ids apart,
  parents earlier, answers candidates of their questions), and this is inductive by itself:
  both services keep it without the rules about parents that newer records obey. What is
  read is what recursive functions compute, so the proof first shows that they exist
  (`Recursion`: each value asks only for values of smaller rank, and ranks are bounded) and
  then argues by a counterexample of smallest rank (`LeastNatural`, `ByRank`). *Page*: every node that
  is not a winner has one reader, the node whose rows bring it up (`Reader`); what is read
  from a node on is an unbroken stretch of the page with only later nodes in it, and
  stretches of two nodes meet only where one is read from the other (`ReadFromIt`,
  `ReadApart`). So each node is on it once (`PageHoldsAll`), after its parent on the
  map (`PageInOrder`). *Agent*: rows name what the page prints, as long as no loser has a
  branch (`AgentToldAll`). *Map*: re-parenting leaves a forest, ranked by twice the parent's
  place and one more for what is not a candidate (`MapIsForest`), the walk comes upon every
  card (`WalkedAll`), each is a column right of its parent (`CentredCards`), and the last step
  parts the cards of a column whatever it was given (`ApartInColumns`); centring, which
  that step may undo, need not be known.
  *The watches.* `WatchesNeverTurnBack` and `ClicksReachTheirWatches` are about single
  steps, whatever overlaps. `WatchesFollow` needs `CopyIsRow` and what becomes of a propose
  between its two statements: the question it is about to open a watch for is unanswered
  and the record open (`OpensUnanswered`).
- **Throttle_proofs**. `DictImplementsBucket`: an absent bucket counts as full; the
  sweep drops only what would be full, so that the sweep and the lazy refill are
  stutters of the credit. `ServedIsBounded`: what was spent and what is left is at most a
  burst and the window's refill (`Balance`). `EpisodesAreSpaced`: `recorded` holds
  the last row of each connection for as long as it suppresses. `OnlyTheRefusedAreBlocked`
  follows the memo through a refusal, the sweep and the clock.
- **Membership_proofs**. `NobodyElseGetsIn`: an accepted invitation is pending and
  has one accepter (`Lock`). `OneByOneIsSound`, `AssigneesStayActive`: while nothing
  overlapped, all requests but one are idle and what that one read is still so (`Fresh`).
  `SeatsAreBounded`: `Members + invitations` is not inductive by any fixed margin,
  because a request that counted the invitations first may find room once members have
  left; `SeatsBounded` therefore keeps, for every number of members from none to the
  present one, either nobody who may still create an invitation and no excess, or room
  for each of those who may.
- **SliceBoard_proofs**. One invariant: the types, the counter's holder
  (`Counted`: at most one handler has a number, and it is the next), that a copy
  agrees with its row in the columns no save may change and has `completed`
  agree with its status (`CopyFits`), and that no slice points at a deleted area.
  From it `NumbersAreGapless`, `KeysAndAreasHold`, `CompletionFollowsStatus`, and,
  with the lemma that a step that saves no stale copy is honest, `ThreadIsHonest`
  and `FirstCapturerStays`.
- **AgentAccess_proofs**. *The grants* (`GrantsInv`): `GrantsKeepOnePair` rests on ids
  (what is named was minted, one row for each), on a code nobody works on while it is
  unspent (`UnspentIsUntouched`), on only rotations of one grant overlapping
  (`JobsApart`), and on the first pair being a grant's only one until it is handed over
  (`FirstIssue`, `FirstRowStays`). `DisconnectedIsOver`: a disconnection's list holds every
  token of the grants at rest (`CutIsHonest`), and of what it ended nothing is left that
  could come back (`BannedIsOver`). *The endpoint*: `EndpointKeepsGrants` shows that every
  behaviour of McpEndpoint is one of OAuthGrants, so that all this holds beside requests;
  `DeathsFeltAreFresh` needs that a connection that is dead and still held died under
  everyone (`DeathIsFelt`), `PolicyIsAsWritten` that all copies are the policy
  (`CopiesAreThePolicy`).
- **Slack_proofs**. *Mentions.* `QueuedOnceOnly`: the row is the token; who holds it has
  not queued, or the enqueue lied. `RowIsHandedBack`, `AckedEventIsQueued`. *The
  workspace* (`WorkspaceInv`): `CardsKeepAnHour` follows a ref of a channel from the
  call to its note (`CardHolds`), and every cooldown back to a card in its own channel
  (`NotesAreOfCards`), with ids in order so that a workspace connected again
  starts afresh; `SwitchesAreConfirmed` needs that a callback that saw a workspace saw its
  own (`CallbacksAgree`).
- **BoardWrites_proofs**. *Ranks*: `RankFor`'s key is strictly between its neighbours and
  lowest or highest at an end. *Steps* (`ChecklistInv`): what a request has read still fits
  the rows unless one was written meanwhile, for the rank (`HoldsRank`) and for the row
  (`HoldsRow`) separately, because another request spoils them separately. From it
  `TiesComeFromRaces`, `StepsAreAsMeant`, `StepsLandWhereAsked`. *Batches* (`BatchInv`): a
  call under way has written exactly the slices it has gone through and none is committed
  (`Progress`), hence `BatchesAreAllOrNothing`.
- **Reads_proofs**. *Cursor*: `NoEventTwice` (every id of an unread answer lies above the
  cursor of its poll, and shown ids do not, whatever order ids commit in),
  `TabMissesNothing` (a poll's answer holds every committed id between its cursor and its
  head, and only later ids can still commit). *Home* (`VisitInv`): all that was told lies at or
  below the watermark, unless an overtaken save moved it back over that (`Watermarks`), and
  all below it was told or slipped through; a copy loaded earlier
  stands for what had been told by then; hence `NewsBadgedOnce`. *Get started*
  (`StartedInv`): each event of the agent's is above one of a listening tab's cursors, in its
  gap, or yet to be written; hence `ChecklistStaysHonest`. *Screens*: `EverySliceIsShown`,
  `ScreensListTheSame`, `ScreensCountTheSame` are about any rows at all, so the types are
  the invariant and the proofs compare the queries; the counts need that a stage by
  annotation is a stage by counting. That the areas add up is a sum over a finite set of
  areas: the sum of the sizes of sets that do not meet is the size of their union
  (`SumOfSizes`). With it, `ScreensAlwaysAgree` is the whole of what the run checks. *Export*
  (`ExportInv`): each query that was made has what has lasted since, and of a board nobody
  wrote it has all; a step that lasts has its slice in the snapshot because steps are
  asked for after slices (`ExportReadsWhatLasts`, `QuietExportIsTheBoard`). The folders'
  numbers add up by the same sum (`ZipCountsItsSlices`). A thread is sorted by the query and
  again in Python: a finite set can be listed by a strict total order in one way only, and events
  are totally ordered by time and id because ids are numbered without gaps or repeats
  (`LogNumbered`, a part of `ExportInv`); hence `ThreadsTellWhatLasts`, `ThreadsStayInOrder`,
  and `ExportAlwaysWhole`.

Some of these say more than a run does: every type theorem, `RecordStaysWellFormed`,
`ServedIsBounded`, `RowIsHandedBack`, `KeysAndAreasHold`,
`CompletionFollowsStatus`, `FirstCapturerStays` and `EndpointKeepsGrants` are not checked
again on a small instance.

Only model-checked:

- liveness (`EventuallySeen`, `QueuedIsAnswered`, `EveryRequestEnds`, `EveryCallEnds`):
  neither fairness nor `ENABLED` is within the prover's reach.

Every other property of a run is stated by a theorem, but for `WellTyped`, whose parts are
the type theorems of the modules in its scenes.

## 8. Where the code and its words disagree

**membership_two_owners** is a run TLC must find violated, on the instance of the
passing run: "Can't change the last owner's role" (`orgs.py:155`), but two owners
demoted or leaving at once both pass the count.

Of the same nature, each reachable in the models and excused by a condition of
section 5 or by the wording of its property:

- "Append-only on purpose": a full save (`slices.py:284`) of a slice loaded before a
  propose drops the proposed nodes; a record may grow after its spec, and a watch
  open on a closed design or wait for an answer already given.
- "cross-user liveness is untouched": the stamp (`middleware.py:71`) is the org's
  newest id, so an unseen event of someone else below it is skipped, as is one
  whose id commits below the cursor.
- "the work is already on its way": a retry is answered 200 by a row
  (`slack/views.py:181`) whose first delivery then fails to queue and releases it; and a
  process may die between that row's commit and the enqueue.
- Deleted areas' slices "go back to the Inbox": the Inbox is defined by
  `status='open'`, so shipped and dropped ones are only in the archive lists
  (`areas.py:64`); those do show them, which `EverySliceIsOnAScreen` relies on.
- A seat too many by two invitations counted together; a leaver assigned by a slice
  edit that resolved the member before; two leaves that together leave a last org.
- One thing filed twice because it was worded differently; a status put back by the
  update in place of a stale copy; a move told twice.
- `append_priority_policy` saves a text read before: of two lines added together one
  is lost, and a line a person removed may come back (`orgs.py:223`).
- `update_bite` saves a whole copy: it takes back a tick and brings back a step that
  was deleted (`bites.py:80`).
- An installation is pointed at another workspace without confirmation by a callback
  that another one overtook (`slack/views.py:299`).
- A disconnection that selects its tokens while one is being rotated leaves the
  new pair; an answer of the token endpoint that is lost leaves a grant
  nobody can use.
- "every node id spelled out" (`state.py:157`): an option proposed under a note or under
  another option is accepted (`slices.py:543-588`) and then is on no page and in no
  agent's text, with all that is proposed under it; of an old record's losing candidates
  the agent is told without their branches.
- "cannot happen today" (`export/renderers.py:185`) of a slice whose area the export has
  not read: an area created and filled between two queries of `collect` does it. The code
  provides for it, and files the slice with the Inbox's.
- "Advance the member's Home watermark to now" (`state.py:586`): the time is taken before
  the save and the save does not look at the row (`state.py:594-595`), so one that a later
  visit overtook moves the watermark back, and what was told in between is badged again.
- The checklist counts its steps before it reads the cursor of its listener
  (`context_processors.py:119-127`): the agent's first event, committed in between, is told
  by neither, until the page is asked for again.

## 9. Not modelled

`PROJECT.json` gives each part its status and reason. The larger ones:

- **Rendering**: templates and tags, Markdown, static scripts but `live.js`.
- **Forms and accounts**: login by password and by provider, the setup form, profile,
  client registration, creation, renaming and deletion of orgs. Short transactions of
  one actor.
- **Org keys and refs**: the key change that rewrites stored refs.
- **Read-only output**: search, the daily snapshot. Of an export: names, tags and the
  wording of the files.
- **The entitlements hook** lives outside the repository; any request may be refused
  in the models.
- Of modelled parts: tags; the order of areas and slices among themselves (the
  same ranks as the bites'); priorities but as a sort key; the page load that gives
  a tab its first cursor; tools of the MCP surface that map arguments onto a
  service modelled elsewhere.

Below the model's grain: SQL statements are atomic (PostgreSQL's own guarantee);
`select_for_update` and unique constraints do what the database says; the clock
does not go back; random tokens do not repeat.

## 10. Plan

Done, in the order of importance to the program: the canvas (CanvasOps,
DecisionRecord, CanvasRequests), the limiter (TokenBucket, Throttle), the cursor
(LiveCursor), Slack mentions (SlackMention), membership (Membership), slices
(SliceBoard), access (OAuthGrants, McpEndpoint), the Slack workspace
(SlackWorkspace), bites and batches (Ranks, Checklist, SliceBatch), screens
(BoardViews, HomeVisit), canvas reads (CanvasSpine), the checklist of a young org
(GetStarted), export (Export).

Proved since: the grants, the endpoint, the steps and the batches, the workspace, the
watches, the seats, the memo, what people read, the reading of a record of any age, the
sums and the threads (section 7).

Next, in this order:

1. **OrgKeys**: the rewriting of stored refs after a key change against
   transactions still open.
2. The order of areas and slices, over Ranks; the page load's first cursor, in
   LiveCursor.
