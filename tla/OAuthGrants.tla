---------------------------- MODULE OAuthGrants ----------------------------
(***************************************************************************)
(* How an agent gets and keeps access to an org: the consent screen mints  *)
(* an authorization code, the token endpoint spends it for an access and a *)
(* refresh token, each refresh replaces the pair, an admin disconnects the *)
(* app, and API tokens are made and revoked by hand (services/oauth.py,    *)
(* oauth_apps.py, tokens.py, web/views/oauth.py).  A grant is the id of    *)
(* the code it began with; a pair of tokens is one id.  Requests of the    *)
(* token endpoint overlap, and a process may die between two statements.   *)
(***************************************************************************)
EXTENDS Naturals, FiniteSets

CONSTANTS
  Clients, Orgs,
  Workers,    \* requests of the token endpoint that may overlap
  MaxMinted   \* bound on the codes, pairs and API tokens ever made

ASSUME GrantsAssumption == MaxMinted \in Nat

VARIABLES
  minted,     \* secrets handed out so far: ids 1..minted
  codes,      \* OAuthAuthorizationCode rows
  access,     \* OAuthAccessToken rows
  refresh,    \* OAuthRefreshToken rows: the ids of the pairs that have one
  api,        \* ApiToken rows: id -> org
  expired,    \* ids of codes and access tokens whose expires_at has passed
  job,        \* per worker: where its request is
  cut,        \* the disconnection in progress
  held,       \* ids whose refresh token reached the client
  granted,    \* history: grants whose code was accepted
  stranded,   \* history: grants that lost an answer or a process
  ended,      \* history: grants of which a disconnection deleted a token
  banned      \* history: grants that were at rest throughout a disconnection

rows == <<minted, codes, access, refresh, api, expired>>
history == <<held, granted, stranded, ended, banned>>
gvars == <<minted, codes, access, refresh, api, expired, job, cut,
          held, granted, stranded, ended, banned>>

Ids == 1..MaxMinted
Code == [id : Ids, client : Clients, org : Orgs]
Access == [id : Ids, grant : Ids, client : Clients, org : Orgs]
Rest == [pc |-> "idle"]
Job == {Rest}
       \cup [pc : {"access"}, grant : Ids, client : Clients, org : Orgs]
       \cup [pc : {"refresh"}, grant : Ids, id : Ids]
       \cup [pc : {"rotate"}, grant : Ids, client : Clients, org : Orgs, id : Ids]
NoCut == [pc |-> "idle"]

GrantsTypeOK ==
  /\ minted \in 0..MaxMinted
  /\ codes \subseteq Code /\ access \subseteq Access
  /\ refresh \subseteq {a.id : a \in access}
  /\ DOMAIN api \subseteq Ids /\ \A n \in DOMAIN api : api[n] \in Orgs
  /\ expired \subseteq Ids
  /\ job \in [Workers -> Job]
  /\ cut \in {NoCut} \cup [pc : {"delete"}, found : SUBSET Ids, quiet : SUBSET Ids,
                           apps : SUBSET Ids]
  /\ held \subseteq Ids /\ granted \subseteq Ids /\ stranded \subseteq Ids
  /\ ended \subseteq Ids /\ banned \subseteq Ids

GrantsInit ==
  /\ minted = 0 /\ codes = {} /\ access = {} /\ refresh = {}
  /\ api = [n \in {} |-> 0] /\ expired = {}
  /\ job = [w \in Workers |-> Rest] /\ cut = NoCut
  /\ held = {} /\ granted = {} /\ stranded = {} /\ ended = {} /\ banned = {}

-----------------------------------------------------------------------------
InFlight(g) == \E w \in Workers : job[w] # Rest /\ job[w].grant = g

\* Work on a grant that starts while a disconnection runs takes the grant out
\* of those the disconnection answers for.
Disturb(g) == cut' = IF cut = NoCut THEN cut ELSE [cut EXCEPT !.quiet = @ \ {g}]

\* create_authorization_code, under the next id.
NewCode(c, o) == [id |-> minted + 1, client |-> c, org |-> o]

\* POST of the consent form by a member of the org (or the founder of a new one).
Authorize(c, o) ==
  /\ minted < MaxMinted
  /\ minted' = minted + 1
  /\ codes' = codes \cup {NewCode(c, o)}
  /\ UNCHANGED <<access, refresh, api, expired, job, cut, history>>

\* Time passes the expires_at of a code or of an access token.
Expire(n) ==
  /\ n \notin expired
  /\ n \in {k.id : k \in codes} \cup {a.id : a \in access}
  /\ expired' = expired \cup {n}
  /\ UNCHANGED <<minted, codes, access, refresh, api, job, cut, history>>

\* grant_type=authorization_code: the row is locked and deleted in one
\* transaction; then the client, the redirect URI, the expiry, the PKCE verifier
\* and the token hook decide ("proof": the URI and the verifier match; "allowed":
\* the hook does not deny).
SpendCode(w, k, c, proof, allowed) ==
  /\ job[w] = Rest /\ k \in codes
  /\ LET ok == c = k.client /\ proof /\ k.id \notin expired /\ allowed IN
     /\ codes' = codes \ {k}   \* spent whether or not the request is entitled to it
     /\ job' = IF ~ok THEN job
               ELSE [job EXCEPT ![w] = [pc |-> "access", grant |-> k.id,
                                        client |-> k.client, org |-> k.org]]
     /\ granted' = IF ok THEN granted \cup {k.id} ELSE granted
  /\ Disturb(k.id)
  /\ UNCHANGED <<minted, access, refresh, api, expired, held, stranded, ended, banned>>

\* issue_tokens after a code: two inserts, each committed on its own.
IssueAccess(w) ==
  /\ job[w].pc = "access" /\ minted < MaxMinted
  /\ minted' = minted + 1
  /\ access' = access \cup {[id |-> minted + 1, grant |-> job[w].grant,
                             client |-> job[w].client, org |-> job[w].org]}
  /\ job' = [job EXCEPT ![w] = [pc |-> "refresh", grant |-> job[w].grant, id |-> minted + 1]]
  /\ Disturb(job[w].grant)
  /\ UNCHANGED <<codes, refresh, api, expired, history>>

Delivered(g, n, arrives) ==
  /\ held' = IF arrives THEN held \cup {n} ELSE held
  /\ stranded' = IF arrives THEN stranded ELSE stranded \cup {g}

\* The refresh token needs the access token's row: its deletion makes the insert fail.
IssueRefresh(w, arrives) ==
  /\ job[w].pc = "refresh"
  /\ LET n == job[w].id IN
     IF \E a \in access : a.id = n
     THEN refresh' = refresh \cup {n} /\ Delivered(job[w].grant, n, arrives)
     ELSE UNCHANGED <<refresh, held, stranded>>
  /\ job' = [job EXCEPT ![w] = Rest]
  /\ Disturb(job[w].grant)
  /\ UNCHANGED <<minted, codes, access, api, expired, granted, ended, banned>>

\* grant_type=refresh_token: an unlocked look at the row, then the hook.
AskRefresh(w, n, allowed) ==
  /\ job[w] = Rest /\ n \in held /\ n \in refresh /\ allowed
  /\ \E a \in access :
       /\ a.id = n
       /\ job' = [job EXCEPT ![w] = [pc |-> "rotate", grant |-> a.grant, client |-> a.client,
                                     org |-> a.org, id |-> n]]
       /\ Disturb(a.grant)
  /\ UNCHANGED <<rows, history>>

\* Mutant: the transaction trusts the unlocked look.
StillThere_Trusted(n) == TRUE

\* The row as the locked read of rotate_refresh_token finds it.
StillThere(n) == n \in refresh

AfterRotation(j) ==
  IF StillThere(j.id)
  THEN {a \in access : a.id # j.id} \cup {[id |-> minted + 1, grant |-> j.grant,
                                           client |-> j.client, org |-> j.org]}
  ELSE access

\* rotate_refresh_token, one transaction: the old access token goes, its refresh
\* token with it (revoked a moment before, so no revoked row outlives the
\* transaction), and a new pair is issued.
Rotate(w, arrives) ==
  /\ job[w].pc = "rotate" /\ minted < MaxMinted
  /\ access' = AfterRotation(job[w])
  /\ IF StillThere(job[w].id)
     THEN /\ minted' = minted + 1
          /\ refresh' = (refresh \ {job[w].id}) \cup {minted + 1}
          /\ Delivered(job[w].grant, minted + 1, arrives)
     ELSE /\ refresh' = refresh \cap {a.id : a \in access'}
          /\ UNCHANGED <<minted, held, stranded>>
  /\ Disturb(job[w].grant)
  /\ job' = [job EXCEPT ![w] = Rest]
  /\ UNCHANGED <<codes, api, expired, granted, ended, banned>>

\* The process dies, or the database refuses the next statement.
Crash(w) ==
  /\ job[w] # Rest
  /\ stranded' = IF job[w].pc \in {"access", "refresh"} THEN stranded \cup {job[w].grant}
                 ELSE stranded
  /\ job' = [job EXCEPT ![w] = Rest]
  /\ UNCHANGED <<rows, cut, held, granted, ended, banned>>

-----------------------------------------------------------------------------
\* Mutant: only the tokens that still work are looked for.
TokensOf_Live(c, o) == {a \in access : a.client = c /\ a.org = o /\ a.id \notin expired}

TokensOf(c, o) == {a \in access : a.client = c /\ a.org = o}

\* disconnect_app: the deletion selects the access tokens, then deletes those rows
\* and, by cascade, their refresh tokens.
DisconnectFind(c, o) ==
  /\ cut = NoCut
  /\ cut' = [pc |-> "delete", found |-> {a.id : a \in TokensOf(c, o)},
             quiet |-> {a.grant : a \in {b \in access : /\ b.client = c /\ b.org = o
                                                        /\ ~InFlight(b.grant)}},
             apps |-> {a.grant : a \in {b \in access : b.client = c /\ b.org = o}}]
  /\ UNCHANGED <<rows, job, history>>

DisconnectDelete ==
  /\ cut # NoCut
  /\ access' = {a \in access : a.id \notin cut.found}
  /\ refresh' = refresh \ cut.found
  /\ ended' = ended \cup cut.apps
  /\ banned' = banned \cup cut.quiet
  /\ cut' = NoCut
  /\ UNCHANGED <<minted, codes, api, expired, job, held, granted, stranded>>

GenerateToken(o) ==
  /\ minted < MaxMinted
  /\ minted' = minted + 1
  /\ api' = [n \in DOMAIN api \cup {minted + 1} |-> IF n = minted + 1 THEN o ELSE api[n]]
  /\ UNCHANGED <<codes, access, refresh, expired, job, cut, history>>

\* The admin's own org scopes the deletion.
RevokeToken(o, n) ==
  /\ n \in DOMAIN api /\ api[n] = o
  /\ api' = [k \in DOMAIN api \ {n} |-> api[k]]
  /\ UNCHANGED <<minted, codes, access, refresh, expired, job, cut, history>>

GrantsNext ==
  \/ \E c \in Clients, o \in Orgs : Authorize(c, o) \/ DisconnectFind(c, o)
  \/ \E n \in Ids : Expire(n)
  \/ \E w \in Workers, k \in codes, c \in Clients, proof, allowed \in BOOLEAN :
       SpendCode(w, k, c, proof, allowed)
  \/ \E w \in Workers, n \in Ids, allowed \in BOOLEAN : AskRefresh(w, n, allowed)
  \/ \E w \in Workers, arrives \in BOOLEAN : IssueRefresh(w, arrives) \/ Rotate(w, arrives)
  \/ \E w \in Workers : IssueAccess(w) \/ Crash(w)
  \/ DisconnectDelete
  \/ \E o \in Orgs : GenerateToken(o)
  \/ \E o \in Orgs, n \in Ids : RevokeToken(o, n)

GrantsSpec == GrantsInit /\ [][GrantsNext]_gvars

-----------------------------------------------------------------------------
\* A grant never has two live pairs: a code spent twice, or a refresh token used
\* by two requests that overlap, still leaves one (oauth.py:47-62, 82-96).
OnePairPerGrant ==
  \A a, b \in access : a.grant = b.grant => a.id = b.id

\* An accepted grant of which no answer was lost, no process died and no admin
\* disconnected anything can always be continued: the client holds the refresh
\* token the database knows, however its own requests overlap and whatever is
\* disconnected elsewhere (oauth.py:69-96, oauth_apps.py:22-28).
GrantCanContinue ==
  \A g \in granted \ (stranded \cup ended) :
     \/ \E w \in Workers : job[w].pc \in {"access", "refresh"} /\ job[w].grant = g
     \/ \E a \in access : a.grant = g /\ a.id \in refresh \cap held

\* A grant has one live pair, and it is the one its client holds (oauth.py:69-98).
GrantHasOnePair == OnePairPerGrant /\ GrantCanContinue

\* A grant nobody was using while its app was disconnected never works again.
\* (One that was being issued or rotated meanwhile may come out with a new pair.)
DisconnectedStaysOut == \A a \in access : a.grant \notin banned
=============================================================================
