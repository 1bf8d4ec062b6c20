---------------------------- MODULE McpEndpoint ----------------------------
(***************************************************************************)
(* Requests of the MCP endpoint on their way through the stack compose.py  *)
(* builds: ResetDatabaseConnections, BearerAuthMiddleware, RefuseSseStream, *)
(* AcceptClientNotifications, then the tool, which resolves the bearer     *)
(* against the rows OAuthGrants keeps and does its work.  Whatever touches *)
(* the database runs on the one thread asgiref gives the process, on that  *)
(* thread's one connection, which the far end may close while it is idle.  *)
(* The tool followed to its end is append_priority_policy, whose work is   *)
(* done on the org row that came with the bearer.                          *)
(***************************************************************************)
EXTENDS OAuthGrants

CONSTANTS
  Requests,   \* requests of the endpoint that may overlap
  Lines,      \* lines of the org's priority policy
  NoLine,     \* a request for another tool
  Mixed       \* no longer a text anybody meant

ASSUME EndpointAssumption == NoLine \notin Lines

VARIABLES
  conn,     \* the thread's connection: "none", "open", or "dead" and still held
  req,      \* per request: how far it is, its bearer, its line, its copy of the policy
  policy,   \* Org.priority_policy, as its lines
  died,     \* history: the far end closed the connection since the request came in
  kept      \* history: the policy as its writers, one after the other, meant it, or
            \* Mixed once it was written while a request held a copy of it

evars == <<conn, req, policy, died, kept>>
vars == <<minted, codes, access, refresh, api, expired, job, cut, held, granted,
          stranded, ended, banned, conn, req, policy, died, kept>>

Nothing == [pc |-> "idle", bearer |-> 0, line |-> NoLine, copy |-> {}]

Request == [pc : {"idle", "stream", "resolve", "stamp", "tool", "leave", "broken"},
            bearer : 0..MaxMinted, line : Lines \cup {NoLine}, copy : SUBSET Lines]

EndpointTypeOK ==
  /\ conn \in {"none", "open", "dead"}
  /\ req \in [Requests -> Request]
  /\ policy \subseteq Lines /\ (kept = Mixed \/ kept \subseteq Lines)
  /\ died \in [Requests -> BOOLEAN]

TypeOK == GrantsTypeOK /\ EndpointTypeOK

EndpointInit ==
  /\ conn = "none" /\ req = [r \in Requests |-> Nothing]
  /\ policy = {} /\ died = [r \in Requests |-> FALSE] /\ kept = {}

Init == GrantsInit /\ EndpointInit

-----------------------------------------------------------------------------
\* close_old_connections with CONN_MAX_AGE = 0: whatever the thread holds is closed.
Reset == "none"

\* Mutant: connections are only closed behind a request.
AtEntry_Unreset == conn

AtEntry == Reset

\* 401 without a bearer; 429 while the memo of module Throttle blocks it.
PassesGate(bearer, memoised) == bearer # 0 /\ ~memoised

\* Mutant: GET is left to the SDK.
RefusesStream_Never(method) == FALSE

\* 405: the server has nothing to push.
RefusesStream(method) == method = "GET"

\* 202: one notification or a batch of nothing else.
IsNotification(body) == body # <<>> /\ \A i \in DOMAIN body : body[i] = "notification"

\* The SDK runs the tool for a single request, refuses other bodies and would open a
\* stream that lasts until the client goes.
Sdk(method, body) ==
  IF method = "GET" THEN "stream" ELSE IF body = <<"request">> THEN "resolve" ELSE "leave"

\* The stack, from the outside in; only the tool has more to do than to answer.
Inside(bearer, memoised, method, body) ==
  IF PassesGate(bearer, memoised) /\ ~RefusesStream(method) /\ ~IsNotification(body)
  THEN Sdk(method, body) ELSE "leave"

Bodies == {<<>>, <<"request">>, <<"notification">>, <<"notification", "request">>}

Enter(r, bearer, memoised, method, body, line) ==
  /\ req[r].pc = "idle" /\ bearer <= minted
  /\ LET pc == Inside(bearer, memoised, method, body) IN
     /\ pc = "resolve" \/ line = NoLine
     /\ req' = [req EXCEPT ![r] = [pc |-> pc, line |-> line, copy |-> {},
                                   bearer |-> IF pc = "resolve" THEN bearer ELSE 0]]
  /\ conn' = AtEntry
  /\ died' = [died EXCEPT ![r] = FALSE]
  /\ UNCHANGED <<gvars, policy, kept>>

\* A statement opens a connection if the thread has none and fails on a dead one.
Works == conn # "dead"
Ends(r, pc) == req' = [req EXCEPT ![r] = [Nothing EXCEPT !.pc = pc]]
Fails(r) == conn = "dead" /\ Ends(r, "broken") /\ UNCHANGED <<conn, policy, kept>>

\* An access token that has not expired, or else an API token.
Resolves(b) == (\E a \in access : a.id = b /\ b \notin expired) \/ b \in DOMAIN api

\* The token and the org are read; last_used_at may be due ("stamp"), and the rate
\* limit (module Throttle) may refuse ("leave").
Resolve(r, next) ==
  /\ req[r].pc = "resolve"
  /\ next \in IF Resolves(req[r].bearer) THEN {"stamp", "tool", "leave"} ELSE {"leave"}
  /\ \/ Fails(r)
     \/ /\ Works /\ conn' = "open"
        /\ IF next = "leave" THEN Ends(r, "leave")
           ELSE req' = [req EXCEPT ![r].pc = next,
                                   ![r].copy = IF req[r].line = NoLine THEN {} ELSE policy]
        /\ UNCHANGED <<policy, kept>>
  /\ UNCHANGED <<gvars, died>>

\* touch_last_used saves the row it read: deleted meanwhile, the save raises.
Stamp(r) ==
  /\ req[r].pc = "stamp"
  /\ \/ Fails(r)
     \/ /\ Works /\ conn' = "open"
        /\ IF req[r].bearer \in DOMAIN api \cup {a.id : a \in access}
           THEN req' = [req EXCEPT ![r].pc = "tool"] ELSE Ends(r, "leave")
        /\ UNCHANGED <<policy, kept>>
  /\ UNCHANGED <<gvars, died>>

\* Mutant: the line replaces the text.
WithLine_Replaced(copy, line) == {line}

WithLine(copy, line) == copy \cup {line}

CopiedBy(others) == \E r \in others : req[r].line # NoLine /\ req[r].pc \in {"stamp", "tool"}

\* append_priority_policy saves the text the request read with the line added;
\* another tool does its work elsewhere.
Tool(r) ==
  /\ req[r].pc = "tool"
  /\ \/ Fails(r)
     \/ /\ Works /\ conn' = "open"
        /\ Ends(r, "leave")
        /\ IF req[r].line = NoLine THEN UNCHANGED <<policy, kept>>
           ELSE /\ policy' = WithLine(req[r].copy, req[r].line)
                /\ kept' = IF kept = Mixed \/ CopiedBy(Requests \ {r}) THEN Mixed
                           ELSE kept \cup {req[r].line}
  /\ UNCHANGED <<gvars, died>>

\* The finally of ResetDatabaseConnections, after an answer and after an error.
Leave(r) ==
  /\ req[r].pc \in {"leave", "broken"}
  /\ req' = [req EXCEPT ![r] = Nothing]
  /\ conn' = Reset
  /\ died' = [died EXCEPT ![r] = FALSE]
  /\ UNCHANGED <<gvars, policy, kept>>

\* A suspended database, a proxy that reaps idle connections, a failover.
FarEndCloses ==
  /\ conn = "open"
  /\ conn' = "dead"
  /\ died' = [r \in Requests |-> req[r].pc # "idle"]
  /\ UNCHANGED <<gvars, req, policy, kept>>

\* The settings page, on Django's side of the process: the whole text is replaced.
PersonRewrites(text) ==
  /\ policy' = text
  /\ kept' = IF CopiedBy(Requests) THEN Mixed ELSE text
  /\ UNCHANGED <<gvars, conn, req, died>>

Step(r) == (\E next \in {"stamp", "tool", "leave"} : Resolve(r, next))
           \/ Stamp(r) \/ Tool(r) \/ Leave(r)

EndpointNext ==
  \/ \E r \in Requests, bearer \in 0..MaxMinted, memoised \in BOOLEAN,
        method \in {"GET", "POST"}, body \in Bodies, line \in Lines \cup {NoLine} :
       Enter(r, bearer, memoised, method, body, line)
  \/ \E r \in Requests : Step(r)
  \/ FarEndCloses
  \/ \E text \in SUBSET Lines : PersonRewrites(text)

Next == (GrantsNext /\ UNCHANGED evars) \/ EndpointNext

Fairness == \A r \in Requests : WF_vars(Step(r))

Spec == Init /\ [][Next]_vars /\ Fairness

-----------------------------------------------------------------------------
\* A connection that died while the process sat idle is never the one a request
\* runs on: a request only fails of a connection that died while it was being
\* served (transport.py:186-210).
OnlyFreshDeathsAreFelt == \A r \in Requests : req[r].pc = "broken" => died[r]

\* Every request ends: nothing in this stack holds one open, whatever the connection
\* and the rows do meanwhile (transport.py:21-30).
EveryRequestEnds == \A r \in Requests : req[r].pc # "idle" ~> req[r].pc = "idle"

\* The policy holds exactly the lines its writers agreed to, unless it was written
\* while a request held a copy of it: only then can an append drop another's line or
\* bring back one a person had removed (orgs.py:207-227).
PolicyAsWritten == kept = Mixed \/ policy = kept
=============================================================================
