--------------------------- MODULE CanvasRequests ---------------------------
(***************************************************************************)
(* The same record as the services really write it.  A request loads the   *)
(* slice row, validates on its own copy and saves in a later transaction   *)
(* that takes no lock: propose and choose save the whole decision_tree     *)
(* column, update_slice saves every column.  Agents (MCP) and browsers run *)
(* on different threads, so their loads and saves interleave.  The watches *)
(* an agent polls for the answer are rows of their own: opened by a        *)
(* statement after the propose, answered in the choice's transaction,      *)
(* deleted in the transaction that writes a spec.                          *)
(***************************************************************************)
EXTENDS DecisionRecord

CONSTANTS
  Agents,      \* MCP requests that may be in flight together
  Browsers,    \* browser requests that may be in flight together
  Tokens,      \* the random watch tokens that may be issued
  WatchTTL,    \* WATCH_TTL
  AnswerGrace  \* ANSWER_GRACE

Requests == Agents \cup Browsers

\* A poll tells a watch's state apart from the option it was answered with.
ASSUME RepliesAssumption == {"waiting", "expired"} \cap NodeIds = {}
ASSUME TimesAssumption == WatchTTL \in Nat \ {0} /\ AnswerGrace \in Nat \ {0}

\* The slice row is nodes and written, under the clock of the promise.
VARIABLES
  watch,           \* the core_canvaswatch rows of the slice, by token
  minted,          \* tokens ever issued: a random token is never issued twice
  pc,              \* per request: "idle", "loaded", or "opening" a watch
  copy,            \* per request: the nodes it loaded
  copyWritten,     \* per request: whether the spec it loaded was non-blank
  opening,         \* per request: the question it has to open a watch for
  overlapped       \* history: a request started before another had ended

row == <<nodes, written>>
req == <<pc, copy, copyWritten, opening, overlapped>>
vars == <<nodes, written, watch, minted, clock, pc, copy, copyWritten, opening, overlapped>>

WatchRow == [question : NodeIds \cup {NoNode}, choice : NodeIds \cup {NoNode},
             expires : Nat]

TypeOK ==
  /\ RecordTypeOK
  /\ minted \subseteq Tokens
  /\ DOMAIN watch \subseteq minted
  /\ \A t \in DOMAIN watch : watch[t] \in WatchRow
  /\ pc \in [Requests -> {"idle", "loaded", "opening"}]
  /\ copy \in [Requests -> Records]
  /\ copyWritten \in [Requests -> BOOLEAN]
  /\ opening \in [Requests -> NodeIds \cup {NoNode}]
  /\ overlapped \in BOOLEAN

Init == /\ RecordInit
        /\ watch = [t \in {} |-> NoNode] /\ minted = {}
        /\ pc = [r \in Requests |-> "idle"]
        /\ copy = [r \in Requests |-> << >>]
        /\ copyWritten = [r \in Requests |-> FALSE]
        /\ opening = [r \in Requests |-> NoNode]
        /\ overlapped = FALSE

-----------------------------------------------------------------------------
\* What the three watch statements do to the table w at a time now.
Alive(w, t, now) == t \in DOMAIN w /\ w[t].expires > now

ReadWatch(w, t, now) ==
  IF ~ Alive(w, t, now) THEN "expired"
  ELSE IF w[t].choice = NoNode THEN "waiting" ELSE w[t].choice

\* Mutants: the choice or the question is not looked at.
Answerable_Rewritten(w, t, q, now) == /\ Alive(w, t, now)
                                      /\ w[t].question \in {NoNode, q}

Answerable_Sibling(w, t, q, now) == /\ Alive(w, t, now)
                                    /\ w[t].choice = NoNode

Answerable(w, t, q, now) == /\ Alive(w, t, now)
                            /\ w[t].choice = NoNode
                            /\ w[t].question \in {NoNode, q}

AnsweredWatches(w, q, choice, now) ==
  [t \in DOMAIN w |->
     IF Answerable(w, t, q, now)
     THEN [w[t] EXCEPT !.choice = choice, !.expires = now + AnswerGrace]
     ELSE w[t]]

OpenedWatches(w, t, q, now) ==
  [u \in {v \in DOMAIN w : w[v].expires >= now} \cup {t} |->
     IF u = t THEN [question |-> q, choice |-> NoNode, expires |-> now + WatchTTL]
     ELSE w[u]]

ClosedWatches(w) == [t \in {} |-> NoNode]

-----------------------------------------------------------------------------
\* A finished request keeps no copy (its objects are garbage).
Finish(r) == /\ pc' = [pc EXCEPT ![r] = "idle"]
             /\ copy' = [copy EXCEPT ![r] = << >>]
             /\ copyWritten' = [copyWritten EXCEPT ![r] = FALSE]
             /\ opening' = [opening EXCEPT ![r] = NoNode]
             /\ UNCHANGED overlapped

\* The propose is committed; its watch is the next statement.
GoOnToOpen(r, q) == /\ pc' = [pc EXCEPT ![r] = "opening"]
                    /\ copy' = [copy EXCEPT ![r] = << >>]
                    /\ copyWritten' = [copyWritten EXCEPT ![r] = FALSE]
                    /\ opening' = [opening EXCEPT ![r] = q]
                    /\ UNCHANGED overlapped

Load(r) ==
  /\ pc[r] = "idle"
  /\ overlapped' = (overlapped \/ \E s \in Requests : pc[s] /= "idle")
  /\ pc' = [pc EXCEPT ![r] = "loaded"]
  /\ copy' = [copy EXCEPT ![r] = nodes]
  /\ copyWritten' = [copyWritten EXCEPT ![r] = written]
  /\ UNCHANGED <<nodes, written, watch, minted, clock, opening>>

\* propose_nodes, as the agent's propose tool calls it.  A batch with a
\* question leaves the request with a watch still to open.
SavePropose(r, batch) ==
  /\ pc[r] = "loaded"
  /\ ~ copyWritten[r]
  /\ BatchAccepted(copy[r], batch, clock)
  /\ nodes' = Proposed(copy[r], batch, clock)
  /\ \/ /\ \A i \in DOMAIN batch : batch[i].kind /= "question"
        /\ Finish(r)
     \/ \E i \in DOMAIN batch : /\ FirstQuestion(batch, i)
                               /\ GoOnToOpen(r, batch[i].id)
  /\ UNCHANGED <<written, watch, minted, clock>>

OpenWatch(r, t) ==
  /\ pc[r] = "opening"
  /\ t \notin minted
  /\ watch' = OpenedWatches(watch, t, opening[r], clock)
  /\ minted' = minted \cup {t}
  /\ Finish(r)
  /\ UNCHANGED <<nodes, written, clock>>

\* choose_option; o and q are positions in the copy.
SaveChoice(r, o, q) ==
  /\ pc[r] = "loaded"
  /\ ~ copyWritten[r]
  /\ Choosable(copy[r], o, q)
  /\ nodes' = Chosen(copy[r], o, q)
  /\ watch' = AnsweredWatches(watch, copy[r][q].id, copy[r][o].id, clock)
  /\ Finish(r)
  /\ UNCHANGED <<written, minted, clock>>

\* Mutants: writing the spec clears the record; it leaves the watches open.
SaveSpec_Clears(r, w) ==
  /\ pc[r] = "loaded"
  /\ nodes' = IF w THEN << >> ELSE copy[r]
  /\ written' = w
  /\ watch' = IF w THEN ClosedWatches(watch) ELSE watch
  /\ Finish(r)
  /\ UNCHANGED <<minted, clock>>

SaveSpec_Watched(r, w) ==
  /\ pc[r] = "loaded"
  /\ nodes' = copy[r]
  /\ written' = w
  /\ Finish(r)
  /\ UNCHANGED <<watch, minted, clock>>

\* update_slice with a spec (w: it is non-blank) ...
SaveSpec(r, w) ==
  /\ pc[r] = "loaded"
  /\ nodes' = copy[r]
  /\ written' = w
  /\ watch' = IF w THEN ClosedWatches(watch) ELSE watch
  /\ Finish(r)
  /\ UNCHANGED <<minted, clock>>

\* ... and without one (a title, a priority, an assignee, constraints).
SaveOther(r) ==
  /\ pc[r] = "loaded"
  /\ nodes' = copy[r]
  /\ written' = copyWritten[r]
  /\ Finish(r)
  /\ UNCHANGED <<watch, minted, clock>>

\* A call that is rejected, fails or dies after what it had committed.
Abandon(r) == /\ pc[r] /= "idle"
              /\ Finish(r)
              /\ UNCHANGED <<nodes, written, watch, minted, clock>>

Tick == RecordTick /\ UNCHANGED <<watch, minted, req>>

Next == \/ \E r \in Requests : Load(r) \/ SaveOther(r) \/ Abandon(r)
        \/ \E r \in Requests, w \in BOOLEAN : SaveSpec(r, w)
        \/ \E r \in Agents, batch \in Batches : SavePropose(r, batch)
        \/ \E r \in Agents, t \in Tokens : OpenWatch(r, t)
        \/ \E r \in Browsers : \E o, q \in DOMAIN copy[r] : SaveChoice(r, o, q)
        \/ Tick

Spec == Init /\ [][Next]_vars

-----------------------------------------------------------------------------
\* Whatever the interleaving, the stored record and every copy in flight are
\* well-formed: a race loses whole updates, it never mixes two of them.
RecordNeverTorn == WellFormed(nodes) /\ \A r \in Requests : WellFormed(copy[r])

\* read_watch and answer_watches: a watch goes from waiting to one answer to
\* expired and never back.  An answer someone may have acted on is not rewritten
\* or taken back, and a late click does not revive an expired channel.
WatchNeverTurnsBack ==
  [][\A t \in minted :
       ReadWatch(watch, t, clock) /= "waiting"
         => ReadWatch(watch', t, clock') \in {ReadWatch(watch, t, clock), "expired"}]_vars

\* answer_watches: a watch is only ever answered with an option of its own
\* question, and the same click answers every watch waiting on that question.
ClickReachesItsWatches ==
  [][\A t \in DOMAIN watch :
       (ReadWatch(watch, t, clock) = "waiting" /\ ReadWatch(watch', t, clock') \in NodeIds) =>
         /\ \E i \in DOMAIN nodes' : /\ nodes'[i].id = watch'[t].choice
                                    /\ nodes'[i].kind = "option"
                                    /\ nodes'[i].parent = watch[t].question
         /\ \A u \in DOMAIN watch :
              (ReadWatch(watch, u, clock) = "waiting" /\ watch[u].question = watch[t].question)
                => ReadWatch(watch', u, clock') = watch'[t].choice]_vars

-----------------------------------------------------------------------------
(***************************************************************************)
(* What the tools promise, kept until two requests first overlap.          *)
(***************************************************************************)
\* close_watches and the propose tool's promise for its watch_url: a slice that has a
\* spec has no live watch, and one says "waiting" only until an option of its question
\* is clicked.
WatchesFollowTheRecord ==
  ~ overlapped => \A t \in Tokens :
    /\ Alive(watch, t, clock) => ~ written
    /\ ReadWatch(watch, t, clock) = "waiting" =>
         \A i \in DOMAIN nodes : nodes[i].id = watch[t].question => nodes[i].chosen = NoNode

\* The record is written as DecisionRecord promises it: every step is one of
\* its operations, or leaves the record alone.
ImplementsPromise ==
  RecordInit /\ [][~ overlapped => [RecordNext]_record]_vars

=============================================================================
