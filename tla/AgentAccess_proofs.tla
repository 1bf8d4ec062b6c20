------------------------ MODULE AgentAccess_proofs --------------------------
(***************************************************************************)
(* That a grant keeps exactly one pair of tokens and a disconnected one    *)
(* stays out, for any clients, orgs and overlapping requests of the token  *)
(* endpoint; and what the endpoint's requests do to the connection and the *)
(* policy they share.                                                      *)
(***************************************************************************)
EXTENDS McpEndpoint, TLAPS

-----------------------------------------------------------------------------
(***************************************************************************)
(* The grants.                                                             *)
(***************************************************************************)
Busy(w) == job[w] # Rest

\* Whatever is named by an id was handed out.
MintedSoFar ==
  /\ \A k \in codes : k.id <= minted
  /\ \A a \in access : a.id <= minted /\ a.grant <= minted
  /\ \A w \in Workers :
       /\ Busy(w) => job[w].grant <= minted
       /\ job[w].pc \in {"refresh", "rotate"} => job[w].id <= minted
  /\ \A g \in banned : g <= minted
  /\ cut # NoCut => \A n \in cut.quiet \cup cut.found : n <= minted

OneRowPerId ==
  /\ \A a, b \in access : a.id = b.id => a = b
  /\ \A k, l \in codes : k.id = l.id => k = l

\* Nobody works on a grant whose code is still there, and it has no token yet.
UnspentIsUntouched ==
  \A k \in codes : ~InFlight(k.id) /\ \A a \in access : a.grant # k.id

\* Only rotations of a grant overlap.
JobsApart ==
  \A v, w \in Workers :
    (v # w /\ Busy(v) /\ Busy(w) /\ job[v].grant = job[w].grant) =>
      job[v].pc = "rotate" /\ job[w].pc = "rotate"

\* The first pair of a grant is its only one, and nobody can have refreshed it.
FirstIssue ==
  \A w \in Workers :
    /\ job[w].pc = "access" => \A a \in access : a.grant # job[w].grant
    /\ job[w].pc = "refresh" =>
         /\ job[w].id \notin refresh
         /\ \A a \in access : a.grant = job[w].grant <=> a.id = job[w].id
    /\ job[w].pc = "rotate" => \A a \in access : a.id = job[w].id => a.grant = job[w].grant

\* The row a first refresh token hangs on only goes with a disconnection.
FirstRowStays ==
  \A w \in Workers :
    (job[w].pc = "refresh" /\ job[w].grant \notin ended) => \E a \in access : a.id = job[w].id

\* A grant the disconnection answers for is at rest, and goes with what it found.
CutIsHonest ==
  cut # NoCut =>
    /\ \A a \in access : a.id \in cut.found => a.grant \in cut.apps
    /\ \A a \in access : a.grant \in cut.quiet => a.id \in cut.found
    /\ \A g \in cut.quiet : ~InFlight(g) /\ \A k \in codes : k.id # g

\* Nothing is left of a grant that was banned, and nothing can come of it.
BannedIsOver ==
  \A g \in banned :
    /\ ~InFlight(g)
    /\ \A k \in codes : k.id # g
    /\ \A a \in access : a.grant # g

GrantsInv ==
  /\ GrantsTypeOK /\ MintedSoFar /\ OneRowPerId /\ UnspentIsUntouched
  /\ JobsApart /\ FirstIssue /\ FirstRowStays /\ CutIsHonest /\ BannedIsOver
  /\ OnePairPerGrant /\ GrantCanContinue
-----------------------------------------------------------------------------
LEMMA JobShape ==
  ASSUME GrantsTypeOK, NEW w \in Workers
  PROVE  /\ job[w] \in Job
         /\ Busy(w) <=> job[w].pc \in {"access", "refresh", "rotate"}
         /\ ~Busy(w) <=> job[w].pc = "idle"
         /\ Busy(w) => job[w].grant \in Ids
         /\ job[w].pc \in {"access", "rotate"} => job[w].client \in Clients /\ job[w].org \in Orgs
         /\ job[w].pc \in {"refresh", "rotate"} => job[w].id \in Ids
BY DEF GrantsTypeOK, Job, Busy, Rest

LEMMA FlightIsBusy == \A g : InFlight(g) <=> \E w \in Workers : Busy(w) /\ job[w].grant = g
BY DEF InFlight, Busy

LEMMA CutShape ==
  ASSUME GrantsTypeOK, cut # NoCut
  PROVE  /\ cut \in [pc : {"delete"}, found : SUBSET Ids, quiet : SUBSET Ids, apps : SUBSET Ids]
         /\ cut.found \in SUBSET Ids /\ cut.quiet \in SUBSET Ids /\ cut.apps \in SUBSET Ids
BY DEF GrantsTypeOK

LEMMA NumberShape ==
  ASSUME GrantsTypeOK
  PROVE  /\ MaxMinted \in Nat /\ Ids = 1..MaxMinted /\ minted \in Nat /\ minted <= MaxMinted
         /\ \A k \in codes : k \in Code /\ k.id \in Nat
         /\ \A a \in access : a \in Access /\ a.id \in Nat /\ a.grant \in Nat
         /\ \A w \in Workers : /\ Busy(w) => job[w].grant \in Nat
                               /\ job[w].pc \in {"refresh", "rotate"} => job[w].id \in Nat
         /\ banned \subseteq Nat
         /\ cut # NoCut => cut.quiet \subseteq Nat /\ cut.found \subseteq Nat
<1>1. MaxMinted \in Nat /\ Ids = 1..MaxMinted /\ minted \in Nat /\ minted <= MaxMinted
  BY GrantsAssumption DEF GrantsTypeOK, Ids
<1> QED
  BY <1>1, JobShape, CutShape DEF GrantsTypeOK, Code, Access

\* What work on a grant takes out of a disconnection.
OnlyQuiets(g) ==
  /\ cut = NoCut => cut' = NoCut
  /\ cut # NoCut =>
       /\ cut' # NoCut
       /\ cut' \in [pc : {"delete"}, found : SUBSET Ids, quiet : SUBSET Ids, apps : SUBSET Ids]
       /\ cut'.found = cut.found /\ cut'.apps = cut.apps
       /\ cut'.quiet = cut.quiet \ {g}

LEMMA DisturbOnlyQuiets ==
  ASSUME GrantsTypeOK, NEW g \in Ids, Disturb(g)
  PROVE  OnlyQuiets(g)
<1>1. CASE cut = NoCut
  BY <1>1 DEF Disturb, OnlyQuiets
<1>2. CASE cut # NoCut
  <2>1. cut \in [pc : {"delete"}, found : SUBSET Ids, quiet : SUBSET Ids, apps : SUBSET Ids]
    BY <1>2, CutShape
  <2>2. cut' = [cut EXCEPT !.quiet = @ \ {g}]
    BY <1>2 DEF Disturb
  <2>3. cut' = [pc |-> "delete", found |-> cut.found, quiet |-> cut.quiet \ {g},
                apps |-> cut.apps]
    BY <2>1, <2>2
  <2> QED
    BY <1>2, <2>1, <2>3 DEF NoCut, OnlyQuiets
<1> QED
  BY <1>1, <1>2

LEMMA GrantsInvInit == GrantsInit => GrantsInv
BY GrantsAssumption DEF GrantsInit, GrantsInv, GrantsTypeOK, MintedSoFar, OneRowPerId,
   UnspentIsUntouched, JobsApart, FirstIssue, FirstRowStays, CutIsHonest, BannedIsOver,
   OnePairPerGrant, GrantCanContinue, Busy, InFlight, Job, Rest, NoCut, Ids
\* Every conjunct at work, for the steps that touch none or few of them.
LEMMA QuietStep ==
  ASSUME GrantsInv, UNCHANGED <<codes, access, refresh, job, cut, history>>,
         minted' \in minted..MaxMinted, GrantsTypeOK'
  PROVE  GrantsInv'
<1> USE DEF GrantsInv, history
<1>1. minted \in Nat /\ minted' \in Nat /\ minted <= minted' /\ Ids \subseteq Nat
  BY GrantsAssumption DEF GrantsTypeOK, Ids
<1>2. MintedSoFar'
  BY <1>1, NumberShape DEF MintedSoFar, Busy
<1>3. OneRowPerId' /\ UnspentIsUntouched' /\ JobsApart' /\ FirstIssue' /\ FirstRowStays'
      /\ CutIsHonest' /\ BannedIsOver' /\ OnePairPerGrant' /\ GrantCanContinue'
  BY DEF OneRowPerId, UnspentIsUntouched, JobsApart, FirstIssue, FirstRowStays, CutIsHonest,
         BannedIsOver, OnePairPerGrant, GrantCanContinue, InFlight, Busy
<1> QED
  BY <1>2, <1>3

LEMMA ApiAndTimeKeepGrants ==
  ASSUME GrantsInv,
         \/ \E n \in Ids : Expire(n)
         \/ \E o \in Orgs : GenerateToken(o)
         \/ \E o \in Orgs, n \in Ids : RevokeToken(o, n)
         \/ UNCHANGED gvars
  PROVE  GrantsInv'
<1>0. GrantsTypeOK /\ minted \in Nat /\ Ids = 1..MaxMinted /\ MaxMinted \in Nat
  BY GrantsAssumption DEF GrantsInv, GrantsTypeOK, Ids
<1>1. ASSUME NEW n \in Ids, Expire(n) PROVE GrantsInv'
  <2>1. GrantsTypeOK'
    BY <1>0, <1>1 DEF Expire, GrantsTypeOK, history
  <2> QED
    BY <1>0, <1>1, <2>1, QuietStep DEF Expire, GrantsTypeOK
<1>2. ASSUME NEW o \in Orgs, GenerateToken(o) PROVE GrantsInv'
  <2>1. minted' \in minted..MaxMinted /\ minted + 1 \in Ids
    BY <1>0, <1>2 DEF GenerateToken
  <2>2. DOMAIN api' \subseteq Ids /\ \A n \in DOMAIN api' : api'[n] \in Orgs
    BY <1>0, <1>2, <2>1 DEF GenerateToken, GrantsTypeOK
  <2>3. GrantsTypeOK'
    BY <1>0, <1>2, <2>1, <2>2 DEF GenerateToken, GrantsTypeOK, history
  <2> QED
    BY <1>2, <2>1, <2>3, QuietStep DEF GenerateToken
<1>3. ASSUME NEW o \in Orgs, NEW n \in Ids, RevokeToken(o, n) PROVE GrantsInv'
  <2>1. GrantsTypeOK'
    BY <1>0, <1>3 DEF RevokeToken, GrantsTypeOK, history
  <2> QED
    BY <1>0, <1>3, <2>1, QuietStep DEF RevokeToken, GrantsTypeOK
<1>4. CASE UNCHANGED gvars
  <2>1. GrantsTypeOK'
    BY <1>0, <1>4 DEF gvars, GrantsTypeOK
  <2> QED
    BY <1>0, <1>4, <2>1, QuietStep DEF gvars, history, GrantsTypeOK
<1> QED
  BY <1>1, <1>2, <1>3, <1>4

LEMMA AuthorizeKeepsGrants ==
  ASSUME GrantsInv, NEW c \in Clients, NEW o \in Orgs, Authorize(c, o)
  PROVE  GrantsInv'
<1> DEFINE new == NewCode(c, o)
<1>0. /\ GrantsTypeOK /\ minted \in Nat /\ Ids = 1..MaxMinted /\ MaxMinted \in Nat
      /\ minted + 1 \in Ids /\ minted' = minted + 1
      /\ codes' = codes \cup {new} /\ new \in Code /\ new.id = minted + 1
  BY GrantsAssumption DEF GrantsInv, GrantsTypeOK, Ids, Authorize, NewCode, Code
<1>1. UNCHANGED <<access, refresh, api, expired, job, cut, held, granted, stranded, ended, banned>>
  BY DEF Authorize, history
<1> HIDE DEF new
<1>2. GrantsTypeOK'
  BY <1>0, <1>1 DEF GrantsTypeOK
<1>3. /\ \A k \in codes : k.id # minted + 1 /\ k.id \in Nat /\ k.id <= minted
      /\ \A a \in access : a.grant # minted + 1
      /\ ~InFlight(minted + 1)
      /\ \A g \in banned : g # minted + 1
      /\ cut # NoCut => \A g \in cut.quiet : g # minted + 1
  BY <1>0, JobShape, CutShape, FlightIsBusy
     DEF GrantsInv, MintedSoFar, GrantsTypeOK, Code, Access
<1>4. MintedSoFar'
  BY <1>0, <1>1, <1>3, NumberShape DEF GrantsInv, MintedSoFar, Busy
<1>5. OneRowPerId'
  BY <1>0, <1>1, <1>3 DEF GrantsInv, OneRowPerId
<1>6. UnspentIsUntouched'
  BY <1>0, <1>1, <1>3 DEF GrantsInv, UnspentIsUntouched, InFlight
<1>7. CutIsHonest' /\ BannedIsOver'
  BY <1>0, <1>1, <1>3 DEF GrantsInv, CutIsHonest, BannedIsOver, InFlight
<1>8. JobsApart' /\ FirstIssue' /\ FirstRowStays' /\ OnePairPerGrant' /\ GrantCanContinue'
  BY <1>1 DEF GrantsInv, JobsApart, FirstIssue, FirstRowStays, OnePairPerGrant,
              GrantCanContinue, Busy
<1> QED
  BY <1>2, <1>4, <1>5, <1>6, <1>7, <1>8 DEF GrantsInv
LEMMA SpendCodeKeepsGrants ==
  ASSUME GrantsInv, NEW w \in Workers, NEW k \in codes, NEW c \in Clients,
         NEW proof \in BOOLEAN, NEW allowed \in BOOLEAN, SpendCode(w, k, c, proof, allowed)
  PROVE  GrantsInv'
<1> DEFINE new == [pc |-> "access", grant |-> k.id, client |-> k.client, org |-> k.org]
<1>0. /\ GrantsTypeOK /\ k \in Code /\ k.id \in Ids /\ k.client \in Clients /\ k.org \in Orgs
      /\ k.id <= minted /\ codes' = codes \ {k} /\ Disturb(k.id)
      /\ ~Busy(w) /\ job \in [Workers -> Job]
  BY DEF GrantsInv, GrantsTypeOK, MintedSoFar, Code, SpendCode, Busy
<1>1. UNCHANGED <<minted, access, refresh, api, expired, held, stranded, ended, banned>>
  BY DEF SpendCode
<1>2. \/ job' = job /\ granted' = granted
      \/ job' = [job EXCEPT ![w] = new] /\ granted' = granted \cup {k.id}
  BY DEF SpendCode
<1>3. new \in Job /\ new # Rest /\ new.pc = "access" /\ new.grant = k.id
  BY <1>0 DEF Job, Rest
<1> HIDE DEF new
<1>4. OnlyQuiets(k.id)
  BY <1>0, DisturbOnlyQuiets
<1>5. GrantsTypeOK'
  BY <1>0, <1>1, <1>2, <1>3, <1>4 DEF GrantsTypeOK, OnlyQuiets
<1>6. /\ \A l \in codes : l.id = k.id => l = k
      /\ \A a \in access : a.grant # k.id
      /\ \A v \in Workers : Busy(v) => job[v].grant # k.id
      /\ k.id \notin banned
  BY FlightIsBusy DEF GrantsInv, OneRowPerId, UnspentIsUntouched, BannedIsOver
<1>7. /\ Busy(w)' => job'[w] = new
      /\ \A v \in Workers : v # w => job'[v] = job[v]
      /\ job'[w] = job[w] \/ job'[w] = new
  BY <1>0, <1>2 DEF Busy
<1>8. \A g : InFlight(g)' => InFlight(g) \/ g = k.id
  BY <1>3, <1>7 DEF InFlight
<1>9. MintedSoFar'
  BY <1>0, <1>1, <1>3, <1>4, <1>7, NumberShape DEF GrantsInv, MintedSoFar, Busy, OnlyQuiets
<1>10. OneRowPerId' /\ OnePairPerGrant'
  BY <1>0, <1>1 DEF GrantsInv, OneRowPerId, OnePairPerGrant
<1>11. UnspentIsUntouched'
  BY <1>0, <1>1, <1>6, <1>8 DEF GrantsInv, UnspentIsUntouched
<1>12. JobsApart'
  BY <1>6, <1>3, <1>7 DEF GrantsInv, JobsApart, Busy
<1>13. FirstIssue' /\ FirstRowStays'
  BY <1>1, <1>3, <1>6, <1>7 DEF GrantsInv, FirstIssue, FirstRowStays
<1>14. CutIsHonest'
  BY <1>0, <1>1, <1>4, <1>8 DEF GrantsInv, CutIsHonest, OnlyQuiets
<1>15. BannedIsOver'
  BY <1>0, <1>1, <1>6, <1>8 DEF GrantsInv, BannedIsOver
<1>16. GrantCanContinue'
  <2>1. ASSUME NEW g \in granted \ (stranded \cup ended) PROVE
               \/ \E v \in Workers : job'[v].pc \in {"access", "refresh"} /\ job'[v].grant = g
               \/ \E a \in access : a.grant = g /\ a.id \in refresh \cap held
    <3>1. CASE \E v \in Workers : job[v].pc \in {"access", "refresh"} /\ job[v].grant = g
      BY <1>0, <1>7, <3>1, JobShape
    <3>2. CASE \E a \in access : a.grant = g /\ a.id \in refresh \cap held
      BY <3>2
    <3> QED
      BY <3>1, <3>2 DEF GrantsInv, GrantCanContinue
  <2>2. granted' # granted => \E v \in Workers : job'[v].pc = "access" /\ job'[v].grant = k.id
    BY <1>0, <1>2, <1>3
  <2> QED
    BY <1>1, <1>2, <2>1, <2>2 DEF GrantCanContinue
<1> QED
  BY <1>5, <1>9, <1>10, <1>11, <1>12, <1>13, <1>14, <1>15, <1>16 DEF GrantsInv
LEMMA IssueAccessKeepsGrants ==
  ASSUME GrantsInv, NEW w \in Workers, IssueAccess(w)
  PROVE  GrantsInv'
<1> DEFINE g == job[w].grant
           n == minted + 1
           row == [id |-> n, grant |-> g, client |-> job[w].client, org |-> job[w].org]
           new == [pc |-> "refresh", grant |-> g, id |-> n]
<1>0. /\ GrantsTypeOK /\ job[w].pc = "access" /\ job[w].grant = g
      /\ Busy(w) /\ g \in Ids /\ g <= minted
      /\ job \in [Workers -> Job] /\ n \in Ids /\ minted' = n /\ n = minted + 1 /\ Disturb(g)
      /\ job[w].client \in Clients /\ job[w].org \in Orgs
  BY JobShape, NumberShape DEF GrantsInv, GrantsTypeOK, MintedSoFar, IssueAccess
<1>1. UNCHANGED <<codes, refresh, api, expired, held, granted, stranded, ended, banned>>
  BY DEF IssueAccess, history
<1>2. access' = access \cup {row} /\ job' = [job EXCEPT ![w] = new]
  BY DEF IssueAccess
<1>3. /\ new \in Job /\ new # Rest /\ new.pc = "refresh" /\ new.grant = g /\ new.id = n
      /\ row \in Access /\ row.id = n /\ row.grant = g
  BY <1>0 DEF Job, Rest, Access
<1>4. OnlyQuiets(g)
  BY <1>0, DisturbOnlyQuiets
<1>5. /\ \A a \in access : a.grant # g /\ a.id # n
      /\ n \notin refresh
      /\ \A k \in codes : k.id # g
      /\ \A v \in Workers : v # w /\ Busy(v) => job[v].grant # g
      /\ \A v \in Workers : job[v].pc \in {"refresh", "rotate"} => job[v].id # n
      /\ g \notin banned
      /\ InFlight(g)
  BY <1>0, FlightIsBusy, NumberShape
     DEF GrantsInv, GrantsTypeOK, MintedSoFar, FirstIssue, UnspentIsUntouched, JobsApart,
         BannedIsOver
<1> HIDE DEF g, n, row, new
<1>6. job'[w] = new /\ \A v \in Workers : v # w => job'[v] = job[v]
  BY <1>0, <1>2
<1>7. GrantsTypeOK'
  BY <1>0, <1>1, <1>2, <1>3, <1>4, NumberShape DEF GrantsTypeOK, OnlyQuiets
<1>8. \A h : InFlight(h)' => InFlight(h)
  BY <1>3, <1>5, <1>6 DEF InFlight
<1>9. MintedSoFar'
  BY <1>0, <1>1, <1>2, <1>3, <1>4, <1>6, NumberShape DEF GrantsInv, MintedSoFar, Busy, OnlyQuiets
<1>10. OneRowPerId' /\ OnePairPerGrant'
  BY <1>1, <1>2, <1>3, <1>5 DEF GrantsInv, OneRowPerId, OnePairPerGrant
<1>11. UnspentIsUntouched'
  BY <1>1, <1>2, <1>3, <1>5, <1>8 DEF GrantsInv, UnspentIsUntouched
<1>12. JobsApart'
  BY <1>3, <1>5, <1>6 DEF GrantsInv, JobsApart, Busy
<1>13. FirstIssue'
  <2>1. ASSUME NEW v \in Workers, v # w
        PROVE  /\ job[v].pc = "access" => \A a \in access' : a.grant # job[v].grant
               /\ job[v].pc = "refresh" =>
                    /\ job[v].id \notin refresh
                    /\ \A a \in access' : a.grant = job[v].grant <=> a.id = job[v].id
               /\ job[v].pc = "rotate" =>
                    \A a \in access' : a.id = job[v].id => a.grant = job[v].grant
    <3>1. Busy(v) <=> job[v].pc \in {"access", "refresh", "rotate"}
      BY <1>0, JobShape
    <3> QED
      BY <1>2, <1>3, <1>5, <2>1, <3>1 DEF GrantsInv, FirstIssue
  <2> QED
    BY <1>1, <1>2, <1>3, <1>5, <1>6, <2>1 DEF FirstIssue
<1>14. FirstRowStays'
  BY <1>1, <1>2, <1>3, <1>6 DEF GrantsInv, FirstRowStays
<1>15. CutIsHonest'
  <2>1. cut # NoCut => n \notin cut.found
    BY <1>0, NumberShape DEF GrantsInv, MintedSoFar
  <2> QED
    BY <2>1, <1>1, <1>2, <1>3, <1>4, <1>8, NumberShape DEF GrantsInv, CutIsHonest, OnlyQuiets
<1>16. BannedIsOver'
  BY <1>1, <1>2, <1>3, <1>5, <1>8 DEF GrantsInv, BannedIsOver
<1>17. GrantCanContinue'
  BY <1>0, <1>1, <1>2, <1>3, <1>6 DEF GrantsInv, GrantCanContinue
<1> QED
  BY <1>7, <1>9, <1>10, <1>11, <1>12, <1>13, <1>14, <1>15, <1>16, <1>17 DEF GrantsInv
LEMMA IssueRefreshKeepsGrants ==
  ASSUME GrantsInv, NEW w \in Workers, NEW arrives \in BOOLEAN, IssueRefresh(w, arrives)
  PROVE  GrantsInv'
<1> DEFINE g == job[w].grant
           n == job[w].id
<1>0. /\ GrantsTypeOK /\ job[w].pc = "refresh" /\ job[w].grant = g /\ job[w].id = n
      /\ Busy(w) /\ g \in Ids /\ n \in Ids /\ Disturb(g)
      /\ job \in [Workers -> Job] /\ job' = [job EXCEPT ![w] = Rest]
  BY JobShape DEF GrantsInv, GrantsTypeOK, IssueRefresh
<1>1. UNCHANGED <<minted, codes, access, api, expired, granted, ended, banned>>
  BY DEF IssueRefresh
<1>2. \/ /\ \E a \in access : a.id = n
         /\ refresh' = refresh \cup {n}
         /\ \/ held' = held \cup {n} /\ stranded' = stranded
            \/ held' = held /\ stranded' = stranded \cup {g}
      \/ /\ \A a \in access : a.id # n
         /\ refresh' = refresh /\ held' = held /\ stranded' = stranded
  BY DEF IssueRefresh, Delivered
<1>4. OnlyQuiets(g)
  BY <1>0, DisturbOnlyQuiets
<1>5. /\ \A a \in access : a.grant = g <=> a.id = n
      /\ g \notin ended => \E a \in access : a.id = n
      /\ \A v \in Workers : v # w /\ Busy(v) => job[v].grant # g
  BY <1>0 DEF GrantsInv, FirstIssue, FirstRowStays, JobsApart
<1> HIDE DEF g, n
<1>6. job'[w] = Rest /\ \A v \in Workers : v # w => job'[v] = job[v]
  BY <1>0
<1>7. GrantsTypeOK'
  <2>1. Rest \in Job
    BY DEF Job
  <2>2. refresh' \subseteq {a.id : a \in access'}
    BY <1>0, <1>1, <1>2 DEF GrantsTypeOK
  <2> QED
    BY <1>0, <1>1, <1>2, <1>4, <2>1, <2>2 DEF GrantsTypeOK, OnlyQuiets
<1>8. \A h : InFlight(h)' => InFlight(h)
  BY <1>6 DEF InFlight
<1>9. MintedSoFar'
  BY <1>0, <1>1, <1>4, <1>6 DEF GrantsInv, MintedSoFar, Busy, Rest, OnlyQuiets
<1>10. OneRowPerId' /\ OnePairPerGrant'
  BY <1>1 DEF GrantsInv, OneRowPerId, OnePairPerGrant
<1>11. UnspentIsUntouched'
  BY <1>1, <1>8 DEF GrantsInv, UnspentIsUntouched
<1>12. JobsApart'
  BY <1>6 DEF GrantsInv, JobsApart, Busy
<1>13. FirstIssue'
  <2>1. ASSUME NEW v \in Workers, v # w, job[v].pc = "refresh" PROVE job[v].id \notin refresh'
    <3>1. Busy(v)
      BY <1>0, <2>1, JobShape
    <3> QED
      BY <1>2, <1>5, <2>1, <3>1 DEF GrantsInv, FirstIssue
  <2> QED
    BY <1>1, <1>6, <2>1 DEF GrantsInv, FirstIssue, Rest
<1>14. FirstRowStays'
  BY <1>1, <1>6 DEF GrantsInv, FirstRowStays, Rest
<1>15. CutIsHonest'
  BY <1>1, <1>4, <1>8 DEF GrantsInv, CutIsHonest, OnlyQuiets
<1>16. BannedIsOver'
  BY <1>1, <1>8 DEF GrantsInv, BannedIsOver
<1>17. GrantCanContinue'
  <2>1. ASSUME NEW h \in granted \ (stranded' \cup ended), h # g
        PROVE  \/ \E v \in Workers : job'[v].pc \in {"access", "refresh"} /\ job'[v].grant = h
               \/ \E a \in access : a.grant = h /\ a.id \in refresh' \cap held'
    <3>1. h \in granted \ (stranded \cup ended)
      BY <1>2, <2>1
    <3> QED
      BY <1>0, <1>2, <1>6, <2>1, <3>1 DEF GrantsInv, GrantCanContinue
  <2>2. ASSUME g \in granted \ (stranded' \cup ended)
        PROVE  \E a \in access : a.grant = g /\ a.id \in refresh' \cap held'
    BY <1>2, <1>5, <2>2
  <2> QED
    BY <1>1, <2>1, <2>2 DEF GrantCanContinue
<1> QED
  BY <1>7, <1>9, <1>10, <1>11, <1>12, <1>13, <1>14, <1>15, <1>16, <1>17 DEF GrantsInv

LEMMA AskRefreshKeepsGrants ==
  ASSUME GrantsInv, NEW w \in Workers, NEW n \in Ids, NEW allowed \in BOOLEAN,
         AskRefresh(w, n, allowed)
  PROVE  GrantsInv'
<1>1. PICK a \in access :
        /\ a.id = n
        /\ job' = [job EXCEPT ![w] = [pc |-> "rotate", grant |-> a.grant, client |-> a.client,
                                      org |-> a.org, id |-> n]]
        /\ Disturb(a.grant)
  BY DEF AskRefresh
<1> DEFINE g == a.grant
           new == [pc |-> "rotate", grant |-> a.grant, client |-> a.client, org |-> a.org, id |-> n]
<1>2. UNCHANGED <<minted, codes, access, refresh, api, expired, held, granted, stranded, ended,
                  banned>>
  BY DEF AskRefresh, rows, history
<1>3. /\ GrantsTypeOK /\ ~Busy(w) /\ n \in refresh /\ a.grant = g
      /\ g \in Ids /\ g <= minted /\ n <= minted
      /\ job \in [Workers -> Job] /\ job' = [job EXCEPT ![w] = new]
      /\ new \in Job /\ new # Rest /\ new.pc = "rotate" /\ new.grant = g /\ new.id = n
  BY <1>1 DEF GrantsInv, GrantsTypeOK, MintedSoFar, AskRefresh, Busy, Access, Job, Rest
<1>4. OnlyQuiets(g)
  BY <1>1, <1>3, DisturbOnlyQuiets
<1>5. /\ \A k \in codes : k.id # g
      /\ g \notin banned
      /\ \A b \in access : b.id = n => b = a
      /\ \A v \in Workers : Busy(v) /\ job[v].grant = g => job[v].pc = "rotate"
  <2>1. ASSUME NEW v \in Workers, Busy(v), job[v].grant = g PROVE job[v].pc = "rotate"
    <3>1. job[v].pc # "access"
      BY <2>1 DEF GrantsInv, FirstIssue
    <3>2. job[v].pc # "refresh"
      BY <1>1, <1>3, <2>1 DEF GrantsInv, FirstIssue
    <3> QED
      BY <1>3, <2>1, <3>1, <3>2, JobShape
  <2> QED
    BY <1>1, <2>1 DEF GrantsInv, UnspentIsUntouched, BannedIsOver, OneRowPerId
<1> HIDE DEF g, new
<1>6. job'[w] = new /\ \A v \in Workers : v # w => job'[v] = job[v]
  BY <1>3
<1>7. GrantsTypeOK'
  BY <1>2, <1>3, <1>4 DEF GrantsTypeOK, OnlyQuiets
<1>8. \A h : InFlight(h)' => InFlight(h) \/ h = g
  BY <1>3, <1>6 DEF InFlight
<1>9. MintedSoFar'
  BY <1>2, <1>3, <1>4, <1>6 DEF GrantsInv, MintedSoFar, Busy, OnlyQuiets
<1>10. OneRowPerId' /\ OnePairPerGrant'
  BY <1>2 DEF GrantsInv, OneRowPerId, OnePairPerGrant
<1>11. UnspentIsUntouched'
  BY <1>2, <1>5, <1>8 DEF GrantsInv, UnspentIsUntouched
<1>12. JobsApart'
  BY <1>3, <1>5, <1>6 DEF GrantsInv, JobsApart, Busy
<1>13. FirstIssue'
  BY <1>2, <1>3, <1>5, <1>6 DEF GrantsInv, FirstIssue
<1>14. FirstRowStays'
  BY <1>2, <1>3, <1>6 DEF GrantsInv, FirstRowStays
<1>15. CutIsHonest'
  BY <1>2, <1>4, <1>8 DEF GrantsInv, CutIsHonest, OnlyQuiets
<1>16. BannedIsOver'
  BY <1>2, <1>5, <1>8 DEF GrantsInv, BannedIsOver
<1>17. GrantCanContinue'
  BY <1>2, <1>3, <1>6, JobShape DEF GrantsInv, GrantCanContinue
<1> QED
  BY <1>7, <1>9, <1>10, <1>11, <1>12, <1>13, <1>14, <1>15, <1>16, <1>17 DEF GrantsInv
LEMMA CrashKeepsGrants ==
  ASSUME GrantsInv, NEW w \in Workers, Crash(w)
  PROVE  GrantsInv'
<1>0. /\ GrantsTypeOK /\ Busy(w) /\ job[w].grant \in Ids
      /\ job \in [Workers -> Job] /\ job' = [job EXCEPT ![w] = Rest]
  BY JobShape DEF GrantsInv, GrantsTypeOK, Crash, Busy
<1>1. UNCHANGED <<minted, codes, access, refresh, api, expired, cut, held, granted, ended,
                  banned>>
  BY DEF Crash, rows
<1>2. stranded' = IF job[w].pc \in {"access", "refresh"} THEN stranded \cup {job[w].grant}
                  ELSE stranded
  BY DEF Crash
<1>3. job'[w] = Rest /\ \A v \in Workers : v # w => job'[v] = job[v]
  BY <1>0
<1>4. GrantsTypeOK'
  <2>1. Rest \in Job
    BY DEF Job
  <2> QED
    BY <1>0, <1>1, <1>2, <2>1 DEF GrantsTypeOK
<1>5. \A h : InFlight(h)' => InFlight(h)
  BY <1>3 DEF InFlight
<1>6. MintedSoFar' /\ OneRowPerId' /\ OnePairPerGrant' /\ UnspentIsUntouched'
  BY <1>1, <1>3, <1>5 DEF GrantsInv, MintedSoFar, OneRowPerId, OnePairPerGrant,
                          UnspentIsUntouched, Busy, Rest
<1>7. JobsApart' /\ FirstIssue' /\ FirstRowStays'
  BY <1>1, <1>3 DEF GrantsInv, JobsApart, FirstIssue, FirstRowStays, Busy, Rest
<1>8. CutIsHonest' /\ BannedIsOver'
  BY <1>1, <1>5 DEF GrantsInv, CutIsHonest, BannedIsOver
<1>9. GrantCanContinue'
  <2>1. ASSUME NEW h \in granted \ (stranded' \cup ended)
        PROVE  \/ \E v \in Workers : job'[v].pc \in {"access", "refresh"} /\ job'[v].grant = h
               \/ \E a \in access : a.grant = h /\ a.id \in refresh \cap held
    <3>1. h \in granted \ (stranded \cup ended)
      BY <1>2, <2>1
    <3>2. ~(job[w].pc \in {"access", "refresh"} /\ job[w].grant = h)
      BY <1>2, <2>1
    <3> QED
      BY <1>3, <3>1, <3>2 DEF GrantsInv, GrantCanContinue
  <2> QED
    BY <1>1, <2>1 DEF GrantCanContinue
<1> QED
  BY <1>4, <1>6, <1>7, <1>8, <1>9 DEF GrantsInv

LEMMA DisconnectFindKeepsGrants ==
  ASSUME GrantsInv, NEW c \in Clients, NEW o \in Orgs, DisconnectFind(c, o)
  PROVE  GrantsInv'
<1> DEFINE F == {a.id : a \in TokensOf(c, o)}
           Q == {a.grant : a \in {b \in access : /\ b.client = c /\ b.org = o
                                                 /\ ~InFlight(b.grant)}}
           A == {a.grant : a \in {b \in access : b.client = c /\ b.org = o}}
<1>1. GrantsTypeOK /\ cut = NoCut /\ cut' = [pc |-> "delete", found |-> F, quiet |-> Q, apps |-> A]
  BY DEF GrantsInv, DisconnectFind
<1>2. UNCHANGED <<minted, codes, access, refresh, api, expired, job, held, granted, stranded,
                  ended, banned>>
  BY DEF DisconnectFind, rows, history
<1>3. /\ F \subseteq Ids /\ Q \subseteq Ids /\ A \subseteq Ids
      /\ \A n \in F \cup Q : n <= minted
  BY <1>1, NumberShape DEF GrantsInv, MintedSoFar, TokensOf, Access
<1>4. /\ \A a \in access : a.id \in F => a.grant \in A
      /\ \A a \in access : a.grant \in Q => a.id \in F
      /\ \A g \in Q : ~InFlight(g) /\ \A k \in codes : k.id # g
  <2>1. ASSUME NEW a \in access, a.id \in F PROVE a.grant \in A
    <3>1. PICK b \in access : b.client = c /\ b.org = o /\ a.id = b.id
      BY <2>1 DEF TokensOf
    <3>2. a = b
      BY <3>1 DEF GrantsInv, OneRowPerId
    <3> QED
      BY <3>1, <3>2
  <2>2. ASSUME NEW a \in access, a.grant \in Q PROVE a.id \in F
    <3>1. PICK b \in access : b.client = c /\ b.org = o /\ a.grant = b.grant
      BY <2>2
    <3>2. a = b
      BY <3>1 DEF GrantsInv, OneRowPerId, OnePairPerGrant
    <3> QED
      BY <3>1, <3>2 DEF TokensOf
  <2>3. ASSUME NEW g \in Q PROVE ~InFlight(g) /\ \A k \in codes : k.id # g
    BY DEF GrantsInv, UnspentIsUntouched
  <2> QED
    BY <2>1, <2>2, <2>3
<1> HIDE DEF F, Q, A
<1>5. /\ cut' \in [pc : {"delete"}, found : SUBSET Ids, quiet : SUBSET Ids, apps : SUBSET Ids]
      /\ cut'.found = F /\ cut'.quiet = Q /\ cut'.apps = A
  BY <1>1, <1>3
<1>6. GrantsTypeOK'
  BY <1>1, <1>2, <1>5 DEF GrantsTypeOK
<1>7. MintedSoFar'
  BY <1>2, <1>3, <1>5 DEF GrantsInv, MintedSoFar, Busy
<1>8. CutIsHonest'
  BY <1>2, <1>4, <1>5 DEF CutIsHonest, InFlight
<1>9. OneRowPerId' /\ UnspentIsUntouched' /\ JobsApart' /\ FirstIssue' /\ FirstRowStays'
      /\ BannedIsOver' /\ OnePairPerGrant' /\ GrantCanContinue'
  BY <1>2 DEF GrantsInv, OneRowPerId, UnspentIsUntouched, JobsApart, FirstIssue, FirstRowStays,
         BannedIsOver, OnePairPerGrant, GrantCanContinue, InFlight, Busy
<1> QED
  BY <1>6, <1>7, <1>8, <1>9 DEF GrantsInv
LEMMA DisconnectDeleteKeepsGrants ==
  ASSUME GrantsInv, DisconnectDelete
  PROVE  GrantsInv'
<1>0. /\ GrantsTypeOK /\ cut # NoCut /\ cut' = NoCut
      /\ access' = {a \in access : a.id \notin cut.found}
      /\ refresh' = refresh \ cut.found
      /\ ended' = ended \cup cut.apps /\ banned' = banned \cup cut.quiet
  BY DEF GrantsInv, DisconnectDelete
<1>1. UNCHANGED <<minted, codes, api, expired, job, held, granted, stranded>>
  BY DEF DisconnectDelete
<1>2. GrantsTypeOK'
  BY <1>0, <1>1, CutShape DEF GrantsTypeOK
<1>3. /\ \A a \in access : a.id \in cut.found => a.grant \in cut.apps
      /\ \A a \in access : a.grant \in cut.quiet => a.id \in cut.found
      /\ \A g \in cut.quiet : ~InFlight(g) /\ \A k \in codes : k.id # g
  BY <1>0 DEF GrantsInv, CutIsHonest
<1>4. MintedSoFar'
  BY <1>0, <1>1 DEF GrantsInv, MintedSoFar, Busy
<1>5. OneRowPerId' /\ UnspentIsUntouched' /\ JobsApart' /\ FirstIssue' /\ OnePairPerGrant'
  BY <1>0, <1>1 DEF GrantsInv, OneRowPerId, UnspentIsUntouched, JobsApart, FirstIssue,
         OnePairPerGrant, InFlight, Busy
<1>6. FirstRowStays'
  <2>1. ASSUME NEW w \in Workers, job[w].pc = "refresh", job[w].grant \notin ended'
        PROVE  \E a \in access' : a.id = job[w].id
    <3>1. PICK a \in access : a.id = job[w].id
      BY <1>0, <2>1 DEF GrantsInv, FirstRowStays
    <3>2. a.grant = job[w].grant
      BY <2>1, <3>1 DEF GrantsInv, FirstIssue
    <3> QED
      BY <1>0, <1>3, <2>1, <3>1, <3>2
  <2> QED
    BY <1>1, <2>1 DEF FirstRowStays
<1>7. CutIsHonest'
  BY <1>0 DEF CutIsHonest
<1>8. BannedIsOver'
  BY <1>0, <1>1, <1>3 DEF GrantsInv, BannedIsOver, InFlight
<1>9. GrantCanContinue'
  BY <1>0, <1>1, <1>3 DEF GrantsInv, GrantCanContinue
<1> QED
  BY <1>2, <1>4, <1>5, <1>6, <1>7, <1>8, <1>9 DEF GrantsInv

\* A rotation of a pair that is still there replaces the only pair of its grant.
LEMMA RotateKeepsGrants ==
  ASSUME GrantsInv, NEW w \in Workers, NEW arrives \in BOOLEAN, Rotate(w, arrives)
  PROVE  GrantsInv'
<1> DEFINE g == job[w].grant
           old == job[w].id
           n == minted + 1
           row == [id |-> n, grant |-> g, client |-> job[w].client, org |-> job[w].org]
<1>0. /\ GrantsTypeOK /\ job[w].pc = "rotate" /\ job[w].grant = g /\ job[w].id = old
      /\ Busy(w) /\ g \in Ids /\ g <= minted /\ old \in Ids /\ old <= minted
      /\ n \in Ids /\ n = minted + 1 /\ Disturb(g)
      /\ job[w].client \in Clients /\ job[w].org \in Orgs
      /\ job \in [Workers -> Job] /\ job' = [job EXCEPT ![w] = Rest]
  BY JobShape, NumberShape DEF GrantsInv, GrantsTypeOK, MintedSoFar, Rotate
<1>1. UNCHANGED <<codes, api, expired, granted, ended, banned>>
  BY DEF Rotate
<1>2. \/ /\ old \in refresh
         /\ access' = {a \in access : a.id # old} \cup {row}
         /\ minted' = n
         /\ refresh' = (refresh \ {old}) \cup {n}
         /\ \/ held' = held \cup {n} /\ stranded' = stranded
            \/ held' = held /\ stranded' = stranded \cup {g}
      \/ UNCHANGED <<access, minted, refresh, held, stranded>>
  <2>1. CASE old \in refresh
    BY <2>1 DEF Rotate, AfterRotation, StillThere, Delivered
  <2>2. CASE old \notin refresh
    <3>1. refresh \subseteq {a.id : a \in access}
      BY <1>0 DEF GrantsTypeOK
    <3>2. access' = access /\ refresh' = refresh \cap {a.id : a \in access'}
      BY <2>2 DEF Rotate, AfterRotation, StillThere
    <3>3. refresh' = refresh
      BY <3>1, <3>2
    <3> QED
      BY <2>2, <3>2, <3>3 DEF Rotate, StillThere
  <2> QED
    BY <2>1, <2>2
<1>3. row \in Access /\ row.id = n /\ row.grant = g /\ Rest \in Job
  BY <1>0 DEF Access, Job
<1>4. OnlyQuiets(g)
  BY <1>0, DisturbOnlyQuiets
<1>5. /\ \A a \in access : a.id # n
      /\ n \notin refresh
      /\ \A k \in codes : k.id # g
      /\ \A a \in access : a.id = old => a.grant = g
      /\ g \notin banned
      /\ \A v \in Workers : job[v].pc \in {"refresh", "rotate"} => job[v].id # n
      /\ \A v \in Workers : v # w /\ Busy(v) /\ job[v].grant = g => job[v].pc = "rotate"
      /\ cut # NoCut => n \notin cut.found
  BY <1>0, FlightIsBusy, NumberShape
     DEF GrantsInv, GrantsTypeOK, MintedSoFar, FirstIssue, UnspentIsUntouched, JobsApart,
         BannedIsOver
<1>6. job'[w] = Rest /\ \A v \in Workers : v # w => job'[v] = job[v]
  BY <1>0
<1>7. old \in refresh => \A a \in access : a.grant = g => a.id = old
  BY <1>0, <1>5 DEF GrantsInv, GrantsTypeOK, OnePairPerGrant
<1> HIDE DEF g, old, n, row
<1>8. GrantsTypeOK'
  <2>1. access' \subseteq Access /\ minted' \in 0..MaxMinted
    BY <1>0, <1>2, <1>3, NumberShape DEF GrantsTypeOK
  <2>2. refresh' \subseteq {a.id : a \in access'}
    BY <1>0, <1>2, <1>3 DEF GrantsTypeOK
  <2>3. cut' \in {NoCut} \cup [pc : {"delete"}, found : SUBSET Ids, quiet : SUBSET Ids,
                               apps : SUBSET Ids]
    BY <1>4 DEF OnlyQuiets
  <2>4. job' \in [Workers -> Job] /\ held' \subseteq Ids /\ stranded' \subseteq Ids
    BY <1>0, <1>2, <1>3 DEF GrantsTypeOK
  <2> QED
    BY <1>0, <1>1, <2>1, <2>2, <2>3, <2>4 DEF GrantsTypeOK
<1>9. \A h : InFlight(h)' => InFlight(h)
  BY <1>6 DEF InFlight
<1>10. MintedSoFar'
  <2>1. minted <= minted' /\ minted \in Nat /\ minted' \in Nat
    BY <1>0, <1>2, NumberShape
  <2> QED
    BY <1>0, <1>1, <1>2, <1>3, <1>4, <1>6, <2>1, NumberShape
       DEF GrantsInv, MintedSoFar, Busy, Rest, OnlyQuiets
<1>11. OneRowPerId' /\ OnePairPerGrant'
  BY <1>1, <1>2, <1>3, <1>5, <1>7 DEF GrantsInv, OneRowPerId, OnePairPerGrant
<1>12. UnspentIsUntouched'
  BY <1>1, <1>2, <1>3, <1>5, <1>9 DEF GrantsInv, UnspentIsUntouched
<1>13. JobsApart'
  BY <1>6 DEF GrantsInv, JobsApart, Busy
<1>14. FirstIssue'
  <2>1. ASSUME NEW v \in Workers, v # w
        PROVE  /\ job[v].pc = "access" => \A a \in access' : a.grant # job[v].grant
               /\ job[v].pc = "refresh" =>
                    /\ job[v].id \notin refresh'
                    /\ \A a \in access' : a.grant = job[v].grant <=> a.id = job[v].id
               /\ job[v].pc = "rotate" =>
                    \A a \in access' : a.id = job[v].id => a.grant = job[v].grant
    <3>1. Busy(v) <=> job[v].pc \in {"access", "refresh", "rotate"}
      BY <1>0, JobShape
    <3> QED
      BY <1>2, <1>3, <1>5, <2>1, <3>1 DEF GrantsInv, FirstIssue
  <2> QED
    BY <1>6, <2>1 DEF FirstIssue, Rest
<1>15. FirstRowStays'
  <2>1. ASSUME NEW v \in Workers, v # w, job[v].pc = "refresh", job[v].grant \notin ended
        PROVE  \E a \in access' : a.id = job[v].id
    <3>1. PICK a \in access : a.id = job[v].id
      BY <2>1 DEF GrantsInv, FirstRowStays
    <3>2. job[v].id \notin refresh
      BY <2>1 DEF GrantsInv, FirstIssue
    <3> QED
      BY <1>2, <3>1, <3>2
  <2> QED
    BY <1>1, <1>6, <2>1 DEF FirstRowStays, Rest
<1>16. CutIsHonest'
  BY <1>1, <1>2, <1>3, <1>4, <1>5, <1>9 DEF GrantsInv, CutIsHonest, OnlyQuiets
<1>17. BannedIsOver'
  BY <1>1, <1>2, <1>3, <1>5, <1>9 DEF GrantsInv, BannedIsOver
<1>18. GrantCanContinue'
  <2>1. ASSUME NEW h \in granted \ (stranded' \cup ended)
        PROVE  \/ \E v \in Workers : job'[v].pc \in {"access", "refresh"} /\ job'[v].grant = h
               \/ \E a \in access' : a.grant = h /\ a.id \in refresh' \cap held'
    <3>1. h \in granted \ (stranded \cup ended)
      BY <1>2, <2>1
    <3>2. CASE \E v \in Workers : job[v].pc \in {"access", "refresh"} /\ job[v].grant = h
      BY <1>0, <1>6, <3>2
    <3>3. CASE \E a \in access : a.grant = h /\ a.id \in refresh \cap held
      <4>1. PICK a \in access : a.grant = h /\ a.id \in refresh \cap held
        BY <3>3
      <4>2. CASE a.id # old \/ UNCHANGED <<access, minted, refresh, held, stranded>>
        BY <1>2, <4>1, <4>2
      <4>3. CASE a.id = old /\ old \in refresh
        <5>1. h = g
          BY <1>5, <4>1, <4>3
        <5> QED
          BY <1>2, <1>3, <2>1, <4>1, <5>1
      <4> QED
        BY <1>2, <4>2, <4>3
    <3> QED
      BY <3>1, <3>2, <3>3 DEF GrantsInv, GrantCanContinue
  <2> QED
    BY <1>1, <2>1 DEF GrantCanContinue
<1> QED
  BY <1>8, <1>10, <1>11, <1>12, <1>13, <1>14, <1>15, <1>16, <1>17, <1>18 DEF GrantsInv

LEMMA GrantsInvNext == GrantsInv /\ [GrantsNext]_gvars => GrantsInv'
<1> SUFFICES ASSUME GrantsInv, [GrantsNext]_gvars PROVE GrantsInv'
  OBVIOUS
<1> QED
  BY ApiAndTimeKeepGrants, AuthorizeKeepsGrants, SpendCodeKeepsGrants, IssueAccessKeepsGrants,
     IssueRefreshKeepsGrants, AskRefreshKeepsGrants, RotateKeepsGrants, CrashKeepsGrants,
     DisconnectFindKeepsGrants, DisconnectDeleteKeepsGrants DEF GrantsNext

\* However the requests of the token endpoint overlap, and wherever they die, the rows
\* keep their types (oauth.py, oauth_apps.py, tokens.py).
THEOREM GrantsTypeCorrect == GrantsSpec => []GrantsTypeOK
<1>1. GrantsInv => GrantsTypeOK
  BY DEF GrantsInv
<1> QED
  BY <1>1, GrantsInvInit, GrantsInvNext, PTL DEF GrantsSpec

\* A grant never has two live pairs, and unless an answer was lost, a process died or
\* an admin cut it off, its client holds the one it has (oauth.py:69-98).
THEOREM GrantsKeepOnePair == GrantsSpec => []GrantHasOnePair
<1>1. GrantsInv => GrantHasOnePair
  BY DEF GrantsInv, GrantHasOnePair
<1> QED
  BY <1>1, GrantsInvInit, GrantsInvNext, PTL DEF GrantsSpec

\* A grant nobody was using while its app was disconnected never works again
\* (oauth_apps.py:22-28).
THEOREM DisconnectedIsOver == GrantsSpec => []DisconnectedStaysOut
<1>1. GrantsInv => DisconnectedStaysOut
  BY DEF GrantsInv, DisconnectedStaysOut, BannedIsOver
<1> QED
  BY <1>1, GrantsInvInit, GrantsInvNext, PTL DEF GrantsSpec
-----------------------------------------------------------------------------
(***************************************************************************)
(* The endpoint over these rows.                                           *)
(***************************************************************************)
Holds(r) == req[r].line # NoLine /\ req[r].pc \in {"stamp", "tool"}

\* A connection that is dead and still held died under every request there is.
DeathIsFelt == conn = "dead" => \A r \in Requests : req[r].pc # "idle" => died[r]

\* While the policy is what its writers meant, every copy of it is the policy.
CopiesAreThePolicy ==
  kept = Mixed \/ (policy = kept /\ \A r \in Requests : Holds(r) => req[r].copy = policy)

EndpointInv ==
  /\ EndpointTypeOK
  /\ OnlyFreshDeathsAreFelt /\ DeathIsFelt
  /\ CopiesAreThePolicy

\* What a request answers with is one row of the table of requests.
LEMMA EndsRow ==
  ASSUME EndpointTypeOK, NEW r \in Requests, NEW pc \in {"leave", "broken"}, Ends(r, pc)
  PROVE  /\ req' \in [Requests -> Request]
         /\ req'[r].pc = pc /\ req'[r].line = NoLine
         /\ \A q \in Requests \ {r} : req'[q] = req[q]
BY GrantsAssumption DEF EndpointTypeOK, Request, Ends, Nothing

LEMMA FailsKeepsEndpoint ==
  ASSUME EndpointInv, NEW r \in Requests, req[r].pc # "idle", Fails(r), UNCHANGED died
  PROVE  EndpointInv'
BY EndsRow DEF EndpointInv, EndpointTypeOK, Fails, OnlyFreshDeathsAreFelt, DeathIsFelt,
   CopiesAreThePolicy, Holds

LEMMA EndsKeepsEndpoint ==
  ASSUME EndpointInv, NEW r \in Requests, Ends(r, "leave"), conn' = "open",
         UNCHANGED <<policy, kept, died>>
  PROVE  EndpointInv'
BY EndsRow DEF EndpointInv, EndpointTypeOK, OnlyFreshDeathsAreFelt, DeathIsFelt,
   CopiesAreThePolicy, Holds

LEMMA EnterKeepsEndpoint ==
  ASSUME EndpointInv, NEW r \in Requests, NEW bearer \in 0..MaxMinted, NEW memoised \in BOOLEAN,
         NEW method \in {"GET", "POST"}, NEW body \in Bodies, NEW line \in Lines \cup {NoLine},
         Enter(r, bearer, memoised, method, body, line)
  PROVE  EndpointInv'
<1> DEFINE pc == Inside(bearer, memoised, method, body)
           new == [pc |-> pc, line |-> line, copy |-> {},
                   bearer |-> IF pc = "resolve" THEN bearer ELSE 0]
<1>1. pc \in {"stream", "resolve", "leave"}
  BY DEF Inside, Sdk
<1> HIDE DEF pc
<1>2. /\ new \in Request
      /\ new.pc = pc
  BY <1>1, GrantsAssumption DEF Request
<1>3. /\ req' = [req EXCEPT ![r] = new] /\ conn' = "none"
      /\ died' = [died EXCEPT ![r] = FALSE] /\ UNCHANGED <<policy, kept>>
  BY DEF Enter, AtEntry, Reset, pc
<1> HIDE DEF new
<1>4. req'[r] = new /\ \A q \in Requests \ {r} : req'[q] = req[q] /\ died'[q] = died[q]
  BY <1>3 DEF EndpointInv, EndpointTypeOK
<1>5. EndpointTypeOK'
  BY <1>2, <1>3 DEF EndpointInv, EndpointTypeOK
<1> QED
  BY <1>1, <1>2, <1>3, <1>4, <1>5
     DEF EndpointInv, OnlyFreshDeathsAreFelt, DeathIsFelt, CopiesAreThePolicy, Holds

LEMMA StepKeepsEndpoint ==
  ASSUME EndpointInv, NEW r \in Requests, Step(r)
  PROVE  EndpointInv'
<1>0. EndpointTypeOK
  BY DEF EndpointInv
<1>1. ASSUME NEW next \in {"stamp", "tool", "leave"}, Resolve(r, next) PROVE EndpointInv'
  <2>1. UNCHANGED died /\ req[r].pc = "resolve"
    BY <1>1 DEF Resolve
  <2>2. CASE Fails(r)
    BY <2>1, <2>2, FailsKeepsEndpoint
  <2>3. CASE conn' = "open" /\ Ends(r, "leave") /\ UNCHANGED <<policy, kept>>
    BY <2>1, <2>3, EndsKeepsEndpoint
  <2>4. CASE /\ next \in {"stamp", "tool"} /\ conn' = "open" /\ UNCHANGED <<policy, kept>>
             /\ req' = [req EXCEPT ![r].pc = next,
                                   ![r].copy = IF req[r].line = NoLine THEN {} ELSE policy]
    <3>1. /\ req'[r].pc = next /\ req'[r].line = req[r].line
          /\ req'[r].copy = IF req[r].line = NoLine THEN {} ELSE policy
          /\ \A q \in Requests \ {r} : req'[q] = req[q]
      BY <1>0, <2>4 DEF EndpointTypeOK, Request
    <3>2. EndpointTypeOK'
      <4> DEFINE new == [pc |-> next, bearer |-> req[r].bearer, line |-> req[r].line,
                         copy |-> IF req[r].line = NoLine THEN {} ELSE policy]
      <4>1. new \in Request
        BY <1>0, <2>4 DEF EndpointTypeOK, Request
      <4>2. req'[r] = new
        BY <1>0, <2>4 DEF EndpointTypeOK, Request
      <4> HIDE DEF new
      <4>3. req' = [q \in Requests |-> req'[q]]
        BY <1>0, <2>4 DEF EndpointTypeOK, Request
      <4> QED
        BY <1>0, <2>1, <2>4, <3>1, <4>1, <4>2, <4>3 DEF EndpointTypeOK, Request
    <3> QED
      BY <2>1, <2>4, <3>1, <3>2
         DEF EndpointInv, OnlyFreshDeathsAreFelt, DeathIsFelt, CopiesAreThePolicy, Holds
  <2> QED
    BY <1>1, <2>2, <2>3, <2>4 DEF Resolve
<1>2. CASE Stamp(r)
  <2>1. UNCHANGED died /\ req[r].pc = "stamp"
    BY <1>2 DEF Stamp
  <2>2. CASE Fails(r)
    BY <2>1, <2>2, FailsKeepsEndpoint
  <2>3. CASE conn' = "open" /\ Ends(r, "leave") /\ UNCHANGED <<policy, kept>>
    BY <2>1, <2>3, EndsKeepsEndpoint
  <2>4. CASE /\ conn' = "open" /\ UNCHANGED <<policy, kept>>
             /\ req' = [req EXCEPT ![r].pc = "tool"]
    <3>1. /\ req'[r].pc = "tool" /\ req'[r].line = req[r].line /\ req'[r].copy = req[r].copy
          /\ \A q \in Requests \ {r} : req'[q] = req[q]
      BY <1>0, <2>4 DEF EndpointTypeOK, Request
    <3>2. EndpointTypeOK'
      BY <1>0, <2>1, <2>4 DEF EndpointTypeOK, Request
    <3> QED
      BY <2>1, <2>4, <3>1, <3>2
         DEF EndpointInv, OnlyFreshDeathsAreFelt, DeathIsFelt, CopiesAreThePolicy, Holds
  <2> QED
    BY <1>2, <2>2, <2>3, <2>4 DEF Stamp
<1>3. CASE Tool(r)
  <2>1. UNCHANGED died /\ req[r].pc = "tool"
    BY <1>3 DEF Tool
  <2>2. CASE Fails(r)
    BY <2>1, <2>2, FailsKeepsEndpoint
  <2>3. CASE conn' = "open" /\ Ends(r, "leave") /\ UNCHANGED <<policy, kept>>
    BY <2>1, <2>3, EndsKeepsEndpoint
  <2>4. CASE /\ conn' = "open" /\ Ends(r, "leave") /\ req[r].line # NoLine
             /\ policy' = req[r].copy \cup {req[r].line}
             /\ kept' = IF kept = Mixed \/ CopiedBy(Requests \ {r}) THEN Mixed
                        ELSE kept \cup {req[r].line}
    <3>1. req[r].line \in Lines /\ req[r].copy \subseteq Lines
      BY <1>0, <2>4 DEF EndpointTypeOK, Request
    <3>2. EndpointTypeOK'
      BY <1>0, <2>1, <2>4, <3>1, EndsRow DEF EndpointTypeOK, Request
    <3>3. CopiesAreThePolicy'
      <4>1. /\ \A q \in Requests \ {r} : Holds(q)' <=> Holds(q)
            /\ ~Holds(r)'
        BY <1>0, <2>4, EndsRow DEF Holds
      <4>2. kept' = Mixed \/ (kept # Mixed /\ \A q \in Requests \ {r} : ~Holds(q))
        BY <2>4 DEF CopiedBy, Holds
      <4>3. kept # Mixed => policy = kept /\ req[r].copy = policy
        BY <2>1, <2>4 DEF EndpointInv, CopiesAreThePolicy, Holds
      <4>4. CASE kept' = Mixed
        BY <4>4 DEF CopiesAreThePolicy
      <4>5. CASE kept # Mixed /\ kept' # Mixed
        <5>1. policy' = kept'
          BY <2>4, <4>3, <4>5
        <5> QED
          BY <4>1, <4>2, <4>5, <5>1 DEF CopiesAreThePolicy
      <4> QED
        BY <4>2, <4>4, <4>5
    <3> QED
      BY <1>0, <2>1, <2>4, <3>2, <3>3, EndsRow
         DEF EndpointInv, OnlyFreshDeathsAreFelt, DeathIsFelt
  <2> QED
    BY <1>3, <2>2, <2>3, <2>4 DEF Tool, WithLine
<1>4. CASE Leave(r)
  <2>1. /\ req' = [req EXCEPT ![r] = Nothing] /\ conn' = "none"
        /\ died' = [died EXCEPT ![r] = FALSE] /\ UNCHANGED <<policy, kept>>
    BY <1>4 DEF Leave, Reset
  <2>2. /\ Nothing \in Request
        /\ Nothing.pc = "idle"
    BY GrantsAssumption DEF Nothing, Request
  <2>3. req'[r] = Nothing /\ \A q \in Requests \ {r} : req'[q] = req[q] /\ died'[q] = died[q]
    BY <1>0, <2>1 DEF EndpointTypeOK, Request
  <2>4. EndpointTypeOK'
    BY <1>0, <2>1, <2>2 DEF EndpointTypeOK, Request
  <2> QED
    BY <2>1, <2>2, <2>3, <2>4
       DEF EndpointInv, OnlyFreshDeathsAreFelt, DeathIsFelt, CopiesAreThePolicy, Holds
<1> QED
  BY <1>1, <1>2, <1>3, <1>4 DEF Step

LEMMA EndpointInvInit == EndpointInit => EndpointInv
BY GrantsAssumption
   DEF EndpointInit, EndpointInv, EndpointTypeOK, Request, Nothing, OnlyFreshDeathsAreFelt,
   DeathIsFelt, CopiesAreThePolicy, Holds

LEMMA EndpointInvNext == EndpointInv /\ [Next]_vars => EndpointInv'
<1> SUFFICES ASSUME EndpointInv, [Next]_vars PROVE EndpointInv'
  OBVIOUS
<1>1. CASE FarEndCloses
  BY <1>1 DEF FarEndCloses, EndpointInv, EndpointTypeOK, OnlyFreshDeathsAreFelt, DeathIsFelt,
              CopiesAreThePolicy, Holds
<1>2. ASSUME NEW text \in SUBSET Lines, PersonRewrites(text) PROVE EndpointInv'
  BY <1>2 DEF PersonRewrites, EndpointInv, EndpointTypeOK, OnlyFreshDeathsAreFelt, DeathIsFelt,
              CopiesAreThePolicy, Holds, CopiedBy
<1>3. CASE UNCHANGED evars
  BY <1>3 DEF evars, EndpointInv, EndpointTypeOK, OnlyFreshDeathsAreFelt, DeathIsFelt,
              CopiesAreThePolicy, Holds
<1> QED
  BY <1>1, <1>2, <1>3, EnterKeepsEndpoint, StepKeepsEndpoint DEF Next, EndpointNext, vars, evars

-----------------------------------------------------------------------------
\* The endpoint reads the rows of the grants and never writes one: its behaviours are
\* behaviours of the grants, so that what is proved of them holds beside any traffic
\* (mcp/auth.py:61-151, server.py).
THEOREM EndpointKeepsGrants == Spec => GrantsSpec
<1>1. Init => GrantsInit
  BY DEF Init
<1>2. [Next]_vars => [GrantsNext]_gvars
  <2>1. EndpointNext => UNCHANGED gvars
    BY DEF EndpointNext, Enter, Step, Resolve, Stamp, Tool, Leave, FarEndCloses, PersonRewrites
  <2>2. UNCHANGED vars => UNCHANGED gvars
    BY DEF vars, gvars
  <2> QED
    BY <2>1, <2>2 DEF Next
<1> QED
  BY <1>1, <1>2, PTL DEF Spec, GrantsSpec

\* Every variable of the endpoint and of the grants keeps its type.
THEOREM EndpointTypeCorrect == Spec => []TypeOK
<1>1. GrantsTypeOK /\ EndpointInv => TypeOK
  BY DEF EndpointInv, TypeOK
<1>2. Init => EndpointInv
  BY EndpointInvInit DEF Init
<1> QED
  BY <1>1, <1>2, EndpointInvNext, EndpointKeepsGrants, GrantsTypeCorrect, PTL DEF Spec

\* A request only ever fails of a connection that died while it was being served, for
\* any number of requests on the one thread (transport.py:186-210).
THEOREM DeathsFeltAreFresh == Spec => []OnlyFreshDeathsAreFelt
<1>1. EndpointInv => OnlyFreshDeathsAreFelt
  BY DEF EndpointInv
<1>2. Init => EndpointInv
  BY EndpointInvInit DEF Init
<1> QED
  BY <1>1, <1>2, EndpointInvNext, PTL DEF Spec

\* The policy is what its writers meant one after the other, unless it was written
\* while a request held a copy of it (orgs.py:207-227).
THEOREM PolicyIsAsWritten == Spec => []PolicyAsWritten
<1>1. EndpointInv => PolicyAsWritten
  BY DEF EndpointInv, CopiesAreThePolicy, PolicyAsWritten
<1>2. Init => EndpointInv
  BY EndpointInvInit DEF Init
<1> QED
  BY <1>1, <1>2, EndpointInvNext, PTL DEF Spec
=============================================================================
