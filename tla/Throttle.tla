------------------------------ MODULE Throttle ------------------------------
(***************************************************************************)
(* The rate limit of the MCP endpoint in one server process: the dict of   *)
(* token buckets (services/ratelimit.py), the policy over it (one bucket   *)
(* per agent connection, one per org), the memo that turns a refused       *)
(* bearer away without the database, and the ThrottleEpisode rows an       *)
(* operator reads (services/throttle.py).  A request looks at the memo on  *)
(* the event loop and is then checked on the one executor thread, so       *)
(* requests that passed the memo wait while others are refused.            *)
(***************************************************************************)
EXTENDS Integers, FiniteSets

CONSTANTS
  Conns,        \* agent connections: (client, user, org) or an API token
  Orgs,
  OrgOf,        \* the org of a connection
  Bearers,      \* bearer strings; they rotate, so a connection has several
  ConnOf,       \* the connection a bearer resolves to
  Burst, Rate,  \* per connection and per org, in parts of a token
  Cost,         \* the parts of one token
  SweepEvery,   \* _SWEEP_EVERY
  Memo,         \* BLOCK_MEMO_SECONDS
  Suppress,     \* EPISODE_SUPPRESS_SECONDS
  MaxTime,      \* bound on the clock
  MaxWaiting    \* bound on the requests of one bearer that wait

Keys == Conns \cup Orgs

ASSUME SettingsAssumption == /\ Burst \in [Keys -> Nat]
                             /\ Rate \in [Keys -> Nat \ {0}]
                             /\ Cost \in Nat \ {0}
                             /\ SweepEvery \in Nat \ {0}
                             /\ Memo \in Nat /\ Suppress \in Nat
                             /\ MaxTime \in Nat /\ MaxWaiting \in Nat
ASSUME ConnectionsAssumption == /\ ConnOf \in [Bearers -> Conns]
                                /\ OrgOf \in [Conns -> Orgs]
                                /\ Conns \cap Orgs = {}

VARIABLES
  buckets,    \* _buckets: key -> [tokens, updated]; full_after is Burst / Rate
  calls,      \* _calls modulo SweepEvery
  memo,       \* _blocked_until: bearer -> deadline
  recorded,   \* _last_recorded: connection -> time
  episodes,   \* the ThrottleEpisode rows: <<connection, time>>
  waiting,    \* per bearer: requests past the memo, not yet checked
  now,
  from, spent \* history: the measuring window of TokenBucket

vars == <<buckets, calls, memo, recorded, episodes, waiting, now, from, spent>>

TypeOK ==
  /\ DOMAIN buckets \subseteq Keys
  /\ \A k \in DOMAIN buckets : /\ buckets[k].tokens \in 0..Burst[k]
                               /\ buckets[k].updated \in 0..now
  /\ calls \in 0..(SweepEvery - 1)
  /\ DOMAIN memo \subseteq Bearers
  /\ \A b \in DOMAIN memo : memo[b] \in 0..(now + Memo)
  /\ DOMAIN recorded \subseteq Conns
  /\ episodes \subseteq Conns \X (0..now)
  /\ waiting \in [Bearers -> 0..MaxWaiting]
  /\ now \in 0..MaxTime /\ from \in 0..now
  /\ spent \in [Keys -> Nat]

Init == /\ buckets = [k \in {} |-> 0] /\ calls = 0
        /\ memo = [b \in {} |-> 0]
        /\ recorded = [c \in {} |-> 0] /\ episodes = {}
        /\ waiting = [b \in Bearers |-> 0]
        /\ now = 0 /\ from = 0 /\ spent = [k \in Keys |-> 0]

-----------------------------------------------------------------------------
\* ratelimit.allow and _sweep, on a dict d at time t.
Lesser(a, b) == IF a <= b THEN a ELSE b

Level(d, k, t) ==
  IF k \in DOMAIN d
  THEN Lesser(Burst[k], d[k].tokens + (t - d[k].updated) * Rate[k])
  ELSE Burst[k]

\* Mutant: buckets idle for half the time they need to fill are dropped too.
Swept_Early(d, t) ==
  [k \in {j \in DOMAIN d : 2 * (t - d[j].updated) * Rate[j] < Burst[j]} |-> d[k]]

Swept(d, t) ==
  [k \in {j \in DOMAIN d : (t - d[j].updated) * Rate[j] < Burst[j]} |-> d[k]]

\* The dict as the n-th call finds it, n counted modulo SweepEvery.
Visited(d, n, t) == IF n = 0 THEN Swept(d, t) ELSE d

Allows(d, k, t) == Level(d, k, t) >= Cost

AfterAllow(d, k, t) ==
  [j \in DOMAIN d \cup {k} |->
     IF j /= k THEN d[j]
     ELSE [tokens |-> IF Allows(d, k, t) THEN Level(d, k, t) - Cost ELSE Level(d, k, t),
           updated |-> t]]

Succ(n) == (n + 1) % SweepEvery

-----------------------------------------------------------------------------
MemoBlocked(b) == b \in DOMAIN memo /\ memo[b] > now

\* Mutant: the sweep keeps the expired and drops the live.
MemoAfterBlock_Swapped(b) ==
  [a \in {c \in DOMAIN memo : memo[c] <= now} \cup {b} |->
     IF a = b THEN now + Memo ELSE memo[a]]

MemoAfterBlock(b) ==
  [a \in {c \in DOMAIN memo : memo[c] > now} \cup {b} |->
     IF a = b THEN now + Memo ELSE memo[a]]

\* Mutant: the time of the last row is not remembered.
RecordEpisode_Always(c) ==
  /\ episodes' = episodes \cup {<<c, now>>}
  /\ UNCHANGED recorded

RecordEpisode(c) ==
  IF c \in DOMAIN recorded /\ now - recorded[c] < Suppress
  THEN UNCHANGED <<recorded, episodes>>
  ELSE /\ recorded' = [a \in DOMAIN recorded \cup {c} |-> IF a = c THEN now ELSE recorded[a]]
       /\ episodes' = episodes \cup {<<c, now>>}

\* The middleware lets a request of b through to the executor's queue.
Arrive(b) ==
  /\ ~ MemoBlocked(b)
  /\ waiting[b] < MaxWaiting
  /\ waiting' = [waiting EXCEPT ![b] = @ + 1]
  /\ UNCHANGED <<buckets, calls, memo, recorded, episodes, now, from, spent>>

\* The dict after the connection's bucket was asked, and what the org's call finds.
AfterConn(c) == AfterAllow(Visited(buckets, Succ(calls), now), c, now)
ForOrg(c) == Visited(AfterConn(c), Succ(Succ(calls)), now)

Take(b) == /\ waiting[b] > 0
           /\ waiting' = [waiting EXCEPT ![b] = @ - 1]
           /\ UNCHANGED <<now, from>>

Paid(S) == spent' = [k \in Keys |-> IF k \in S THEN spent[k] + Cost ELSE spent[k]]

\* Refused by its connection's bucket: one episode at most, and the memo.
RefuseConn(b, c) ==
  /\ Take(b)
  /\ ~ Allows(Visited(buckets, Succ(calls), now), c, now)
  /\ buckets' = AfterConn(c)
  /\ calls' = Succ(calls)
  /\ memo' = MemoAfterBlock(b)
  /\ RecordEpisode(c)
  /\ Paid({})

\* Refused by its org's bucket: the connection's token is spent all the same.
RefuseOrg(b, c) ==
  /\ Take(b)
  /\ Allows(Visited(buckets, Succ(calls), now), c, now)
  /\ ~ Allows(ForOrg(c), OrgOf[c], now)
  /\ buckets' = AfterAllow(ForOrg(c), OrgOf[c], now)
  /\ calls' = Succ(Succ(calls))
  /\ memo' = MemoAfterBlock(b)
  /\ Paid({c})
  /\ UNCHANGED <<recorded, episodes>>

Serve(b, c) ==
  /\ Take(b)
  /\ Allows(Visited(buckets, Succ(calls), now), c, now)
  /\ Allows(ForOrg(c), OrgOf[c], now)
  /\ buckets' = AfterAllow(ForOrg(c), OrgOf[c], now)
  /\ calls' = Succ(Succ(calls))
  /\ Paid({c, OrgOf[c]})
  /\ UNCHANGED <<memo, recorded, episodes>>

Tick == /\ now < MaxTime
        /\ now' = now + 1
        /\ UNCHANGED <<buckets, calls, memo, recorded, episodes, waiting, from, spent>>

OpenWindow == /\ from' = now
              /\ spent' = [k \in Keys |-> 0]
              /\ UNCHANGED <<buckets, calls, memo, recorded, episodes, waiting, now>>

Next == \/ \E b \in Bearers : \/ Arrive(b)
                              \/ RefuseConn(b, ConnOf[b])
                              \/ RefuseOrg(b, ConnOf[b])
                              \/ Serve(b, ConnOf[b])
        \/ Tick
        \/ OpenWindow

Spec == Init /\ [][Next]_vars

-----------------------------------------------------------------------------
\* The eager bucket the dict stands for: an absent key is a full one.
Credit == [k \in Keys |-> Level(buckets, k, now)]

Bucket == INSTANCE TokenBucket WITH credit <- Credit

\* Lazy refill and the sweep are invisible: every key behaves as a bucket that
\* is refilled at every tick and never dropped.
ImplementsBucket == Bucket!Spec

\* Served calls of a window never exceed a burst plus the window's refill.
WindowBound == Bucket!WindowBound

\* ThrottleEpisode: one row per episode, then nothing for Suppress -- which is
\* what bounds a hammering connection to twelve rows an hour.
EpisodesSpaced ==
  \A e, f \in episodes : (e[1] = f[1] /\ e[2] < f[2]) => f[2] - e[2] >= Suppress

\* memo_block and is_memo_blocked: a bearer is turned away only when its own
\* request was refused within the last Memo ticks, whatever was swept since.
MemoFollowsRefusal ==
  [][\A b \in Bearers :
       LET blocked == b \in DOMAIN memo /\ memo[b] > now IN
       ~ blocked /\ (b \in DOMAIN memo' /\ memo'[b] > now')
         => /\ waiting'[b] < waiting[b]
            /\ memo'[b] = now + Memo
            /\ \A a \in Bearers \ {b} : (a \in DOMAIN memo /\ memo[a] > now)
                                          => a \in DOMAIN memo' /\ memo'[a] = memo[a]]_vars

=============================================================================
