--------------------------- MODULE Throttle_proofs --------------------------
(***************************************************************************)
(* That the lazy, swept dict keeps the promise of the eager bucket, for    *)
(* every number of connections, every burst, rate and sweep interval.      *)
(***************************************************************************)
EXTENDS Throttle, TLAPS

LEMMA ClockStep == \A r \in Nat, a \in Nat : r * (a + 1) = r * a + r /\ (a + 1) * r = a * r + r
OBVIOUS

LEMMA ProductIsNat == \A r \in Nat, a \in Nat : r * a \in Nat
OBVIOUS

-----------------------------------------------------------------------------
\* The dict alone: what allow and _sweep do to the credit it stands for.

IsDict(d, t) == /\ DOMAIN d \subseteq Keys
                /\ \A k \in DOMAIN d : /\ d[k].tokens \in 0..Burst[k]
                                       /\ d[k].updated \in 0..t

LEMMA LevelRange ==
  ASSUME NEW t \in Nat, NEW d, IsDict(d, t), NEW k \in Keys
  PROVE  Level(d, k, t) \in 0..Burst[k]
<1>1. Burst[k] \in Nat /\ Rate[k] \in Nat
  BY SettingsAssumption
<1>2. CASE k \in DOMAIN d
  <2>1. d[k].tokens \in 0..Burst[k] /\ d[k].updated \in 0..t
    BY <1>2 DEF IsDict
  <2>2. t - d[k].updated \in Nat
    BY <2>1
  <2>3. (t - d[k].updated) * Rate[k] \in Nat
    BY <1>1, <2>2, ProductIsNat
  <2> QED
    BY <1>1, <1>2, <2>1, <2>3 DEF Level, Lesser
<1>3. CASE k \notin DOMAIN d
  BY <1>1, <1>3 DEF Level
<1> QED
  BY <1>2, <1>3

\* Discarding a bucket that must be full by now changes nobody's credit.
LEMMA SweepInvisible ==
  ASSUME NEW t \in Nat, NEW d, IsDict(d, t)
  PROVE  /\ IsDict(Swept(d, t), t)
         /\ \A k \in Keys : Level(Swept(d, t), k, t) = Level(d, k, t)
<1> DEFINE s == Swept(d, t)
<1>1. /\ DOMAIN s \subseteq DOMAIN d
      /\ \A k \in DOMAIN s : s[k] = d[k]
      /\ \A k \in DOMAIN d \ DOMAIN s : ~ ((t - d[k].updated) * Rate[k] < Burst[k])
  BY DEF Swept
<1> HIDE DEF s
<1>2. IsDict(s, t)
  BY <1>1 DEF IsDict
<1>3. ASSUME NEW k \in Keys PROVE Level(s, k, t) = Level(d, k, t)
  <2>1. Burst[k] \in Nat /\ Rate[k] \in Nat
    BY SettingsAssumption
  <2>2. CASE k \in DOMAIN s \/ k \notin DOMAIN d
    BY <1>1, <2>2 DEF Level
  <2>3. CASE k \in DOMAIN d /\ k \notin DOMAIN s
    <3>1. d[k].tokens \in 0..Burst[k] /\ d[k].updated \in 0..t
      BY <2>3 DEF IsDict
    <3>2. t - d[k].updated \in Nat
      BY <3>1
    <3>3. (t - d[k].updated) * Rate[k] \in Nat
      BY <2>1, <3>2, ProductIsNat
    <3>4. Burst[k] <= d[k].tokens + (t - d[k].updated) * Rate[k]
      BY <1>1, <2>1, <2>3, <3>1, <3>3
    <3> QED
      BY <2>1, <2>3, <3>1, <3>3, <3>4 DEF Level, Lesser
  <2> QED
    BY <2>2, <2>3
<1> QED
  BY <1>2, <1>3 DEF s

LEMMA VisitInvisible ==
  ASSUME NEW t \in Nat, NEW d, NEW n, IsDict(d, t)
  PROVE  /\ IsDict(Visited(d, n, t), t)
         /\ \A k \in Keys : Level(Visited(d, n, t), k, t) = Level(d, k, t)
BY SweepInvisible DEF Visited

\* One call of allow spends a token of its key, if there is one, and nothing else.
LEMMA AllowSpends ==
  ASSUME NEW t \in Nat, NEW d, IsDict(d, t), NEW k \in Keys
  PROVE  /\ IsDict(AfterAllow(d, k, t), t)
         /\ \A j \in Keys :
              Level(AfterAllow(d, k, t), j, t) =
                IF j = k /\ Allows(d, k, t) THEN Level(d, j, t) - Cost ELSE Level(d, j, t)
<1> DEFINE a == AfterAllow(d, k, t)
           rest == IF Allows(d, k, t) THEN Level(d, k, t) - Cost ELSE Level(d, k, t)
<1>1. /\ DOMAIN a = DOMAIN d \cup {k}
      /\ a[k].tokens = rest /\ a[k].updated = t
      /\ \A j \in DOMAIN d \ {k} : a[j] = d[j]
  BY DEF AfterAllow
<1>2. Burst[k] \in Nat /\ Rate[k] \in Nat /\ Cost \in Nat /\ Level(d, k, t) \in 0..Burst[k]
  BY LevelRange, SettingsAssumption
<1>3. rest \in 0..Burst[k]
  BY <1>2 DEF Allows
<1> HIDE DEF a
<1>4. IsDict(a, t)
  <2> SUFFICES ASSUME NEW j \in DOMAIN a
               PROVE  a[j].tokens \in 0..Burst[j] /\ a[j].updated \in 0..t
    BY <1>1 DEF IsDict
  <2> QED
    BY <1>1, <1>3 DEF IsDict
<1>5. Level(a, k, t) = rest
  <2>1. (t - t) * Rate[k] = 0
    BY <1>2
  <2> QED
    BY <1>1, <1>2, <1>3, <2>1 DEF Level, Lesser
<1>6. ASSUME NEW j \in Keys, j /= k PROVE Level(a, j, t) = Level(d, j, t)
  BY <1>1, <1>6 DEF Level
<1> QED
  BY <1>4, <1>5, <1>6 DEF a

LEMMA LevelPresent ==
  ASSUME NEW d, NEW k \in DOMAIN d, NEW u
  PROVE  Level(d, k, u) = Lesser(Burst[k], d[k].tokens + (u - d[k].updated) * Rate[k])
BY DEF Level

\* A tick adds one tick's refill to what the dict stands for.
LEMMA TickRefills ==
  ASSUME NEW t \in Nat, NEW d, IsDict(d, t), NEW k \in Keys
  PROVE  Level(d, k, t + 1) = Lesser(Burst[k], Level(d, k, t) + Rate[k])
<1>1. Burst[k] \in Nat /\ Rate[k] \in Nat
  BY SettingsAssumption
<1>2. CASE k \in DOMAIN d
  <2>1. d[k].tokens \in 0..Burst[k] /\ d[k].updated \in 0..t
    BY <1>2 DEF IsDict
  <2> DEFINE a == t - d[k].updated
  <2>2. a \in Nat /\ (t + 1) - d[k].updated = a + 1
    BY <2>1
  <2>3. (a + 1) * Rate[k] = a * Rate[k] + Rate[k] /\ a * Rate[k] \in Nat
    BY <1>1, <2>2, ClockStep, ProductIsNat
  <2>4. Level(d, k, t + 1) = Lesser(Burst[k], d[k].tokens + (a * Rate[k] + Rate[k]))
    <3>1. Level(d, k, t + 1) =
            Lesser(Burst[k], d[k].tokens + ((t + 1) - d[k].updated) * Rate[k])
      BY <1>2, LevelPresent, Zenon
    <3> HIDE DEF a
    <3>2. ((t + 1) - d[k].updated) * Rate[k] = a * Rate[k] + Rate[k]
      BY <2>2, <2>3
    <3> QED
      BY <3>1, <3>2
  <2>5. Level(d, k, t) = Lesser(Burst[k], d[k].tokens + a * Rate[k])
    BY <1>2 DEF Level
  <2> HIDE DEF a
  <2> QED
    BY <1>1, <2>1, <2>3, <2>4, <2>5 DEF Lesser
<1>3. CASE k \notin DOMAIN d
  BY <1>1, <1>3 DEF Level, Lesser
<1> QED
  BY <1>2, <1>3

-----------------------------------------------------------------------------
\* The state machine.
DictOK == IsDict(buckets, now)

LEMMA TypeInit == Init => TypeOK
<1> SUFFICES ASSUME Init PROVE TypeOK
  OBVIOUS
<1>1. DOMAIN buckets = {} /\ DOMAIN memo = {} /\ DOMAIN recorded = {}
  BY DEF Init
<1>2. calls \in 0..(SweepEvery - 1) /\ now \in 0..MaxTime /\ from \in 0..now
  BY SettingsAssumption DEF Init
<1>3. waiting \in [Bearers -> 0..MaxWaiting]
  BY SettingsAssumption DEF Init
<1> QED
  BY <1>1, <1>2, <1>3 DEF Init, TypeOK


LEMMA SuccType == \A n \in Nat : Succ(n) \in 0..(SweepEvery - 1)
BY SettingsAssumption DEF Succ

\* What the two calls of a check do to the dict, whichever of them refuses.
LEMMA CheckSpends ==
  ASSUME NEW c \in Conns, DictOK, now \in Nat
  PROVE  LET first == AfterConn(c)
             both  == AfterAllow(ForOrg(c), OrgOf[c], now)
             ok    == Level(buckets, c, now) >= Cost
             okOrg == Level(buckets, OrgOf[c], now) >= Cost
         IN  /\ IsDict(first, now) /\ IsDict(both, now)
             /\ Allows(Visited(buckets, Succ(calls), now), c, now) <=> ok
             /\ Allows(ForOrg(c), OrgOf[c], now) <=> okOrg
             /\ \A k \in Keys : Level(first, k, now) =
                  IF k = c /\ ok THEN Level(buckets, k, now) - Cost ELSE Level(buckets, k, now)
             /\ \A k \in Keys : Level(both, k, now) =
                  IF (k = c /\ ok) \/ (k = OrgOf[c] /\ okOrg)
                  THEN Level(buckets, k, now) - Cost ELSE Level(buckets, k, now)
<1> DEFINE v == Visited(buckets, Succ(calls), now)
           first == AfterConn(c)
           w == ForOrg(c)
           o == OrgOf[c]
           both == AfterAllow(w, o, now)
           ok == Level(buckets, c, now) >= Cost
           okOrg == Level(buckets, o, now) >= Cost
<1>1. c \in Keys /\ o \in Keys /\ c /= o
  BY ConnectionsAssumption DEF Keys
<1>2. IsDict(v, now) /\ \A k \in Keys : Level(v, k, now) = Level(buckets, k, now)
  BY VisitInvisible DEF DictOK
<1>3. Allows(v, c, now) <=> ok
  BY <1>1, <1>2 DEF Allows
<1>4. /\ IsDict(first, now)
      /\ \A k \in Keys : Level(first, k, now) =
           IF k = c /\ ok THEN Level(buckets, k, now) - Cost ELSE Level(buckets, k, now)
  BY <1>1, <1>2, <1>3, AllowSpends DEF AfterConn
<1>5. IsDict(w, now) /\ \A k \in Keys : Level(w, k, now) = Level(first, k, now)
  BY <1>4, VisitInvisible DEF ForOrg
<1>6. Allows(w, o, now) <=> okOrg
  BY <1>1, <1>4, <1>5 DEF Allows
<1>7. /\ IsDict(both, now)
      /\ \A k \in Keys : Level(both, k, now) =
           IF k = o /\ Allows(w, o, now) THEN Level(w, k, now) - Cost ELSE Level(w, k, now)
  BY <1>1, <1>5, AllowSpends
<1> HIDE DEF both, w, first, v, o
<1>8. \A k \in Keys : Level(both, k, now) =
        IF (k = c /\ ok) \/ (k = o /\ okOrg)
        THEN Level(buckets, k, now) - Cost ELSE Level(buckets, k, now)
  BY <1>1, <1>4, <1>5, <1>6, <1>7
<1> QED
  BY <1>3, <1>4, <1>6, <1>7, <1>8 DEF both, w, first, v, o

\* Each step either leaves the dict alone or runs the check of one request.
LEMMA TypeNext == TypeOK /\ [Next]_vars => TypeOK'
<1> SUFFICES ASSUME TypeOK, [Next]_vars PROVE TypeOK'
  OBVIOUS
<1>0. /\ now \in Nat /\ calls \in Nat /\ DictOK
      /\ Cost \in Nat /\ SweepEvery \in Nat \ {0} /\ Memo \in Nat /\ MaxTime \in Nat
  BY SettingsAssumption DEF TypeOK, DictOK, IsDict
<1>a. ASSUME NEW d, IsDict(d, now), buckets' = d, now' = now
      PROVE  /\ DOMAIN buckets' \subseteq Keys
             /\ \A k \in DOMAIN buckets' : /\ buckets'[k].tokens \in 0..Burst[k]
                                           /\ buckets'[k].updated \in 0..now'
  BY <1>a DEF IsDict
<1>b. ASSUME NEW S, Paid(S) PROVE spent' \in [Keys -> Nat]
  BY <1>0, <1>b DEF Paid, TypeOK
<1>c. ASSUME NEW b \in Bearers, Take(b)
      PROVE  /\ waiting' \in [Bearers -> 0..MaxWaiting]
             /\ now' = now /\ from' = from
  BY <1>c, SettingsAssumption DEF Take, TypeOK
<1>d. ASSUME NEW b \in Bearers, memo' = MemoAfterBlock(b), now' = now
      PROVE  /\ DOMAIN memo' \subseteq Bearers
             /\ \A a \in DOMAIN memo' : memo'[a] \in 0..(now' + Memo)
  BY <1>0, <1>d DEF MemoAfterBlock, TypeOK
<1>e. ASSUME NEW c \in Conns, RecordEpisode(c), now' = now
      PROVE  /\ DOMAIN recorded' \subseteq Conns
             /\ episodes' \subseteq Conns \X (0..now')
  BY <1>0, <1>e DEF RecordEpisode, TypeOK
<1>f. Succ(calls) \in 0..(SweepEvery - 1) /\ Succ(Succ(calls)) \in 0..(SweepEvery - 1)
  BY <1>0, SuccType
<1>1. ASSUME NEW b \in Bearers, Arrive(b) PROVE TypeOK'
  BY <1>0, <1>1, SettingsAssumption DEF Arrive, TypeOK
<1>2. ASSUME NEW b \in Bearers, RefuseConn(b, ConnOf[b]) PROVE TypeOK'
  <2>1. ConnOf[b] \in Conns
    BY ConnectionsAssumption
  <2>2. IsDict(AfterConn(ConnOf[b]), now)
    BY <1>0, <2>1, CheckSpends
  <2>3. /\ DOMAIN buckets' \subseteq Keys
        /\ \A k \in DOMAIN buckets' : /\ buckets'[k].tokens \in 0..Burst[k]
                                      /\ buckets'[k].updated \in 0..now'
    BY <1>2, <1>a, <1>c, <2>2 DEF RefuseConn
  <2> QED
    BY <1>2, <1>b, <1>c, <1>d, <1>e, <1>f, <2>1, <2>3 DEF RefuseConn, TypeOK
<1>3. ASSUME NEW b \in Bearers, \/ RefuseOrg(b, ConnOf[b])
                                \/ Serve(b, ConnOf[b])
      PROVE  TypeOK'
  <2> DEFINE c == ConnOf[b]
             d == AfterAllow(ForOrg(c), OrgOf[c], now)
  <2>1. c \in Conns
    BY ConnectionsAssumption
  <2>2. IsDict(d, now)
    BY <1>0, <2>1, CheckSpends
  <2>3. /\ Take(b) /\ buckets' = d /\ calls' = Succ(Succ(calls))
        /\ Paid({c}) \/ Paid({c, OrgOf[c]})
        /\ memo' = MemoAfterBlock(b) \/ memo' = memo
        /\ UNCHANGED <<recorded, episodes>>
    BY <1>3 DEF RefuseOrg, Serve
  <2> HIDE DEF d
  <2>4. /\ DOMAIN buckets' \subseteq Keys
        /\ \A k \in DOMAIN buckets' : /\ buckets'[k].tokens \in 0..Burst[k]
                                      /\ buckets'[k].updated \in 0..now'
    BY <1>a, <1>c, <2>2, <2>3
  <2>5. /\ DOMAIN memo' \subseteq Bearers
        /\ \A a \in DOMAIN memo' : memo'[a] \in 0..(now' + Memo)
    BY <1>c, <1>d, <2>3 DEF TypeOK
  <2>6. spent' \in [Keys -> Nat]
    BY <1>b, <2>3
  <2> QED
    BY <1>c, <1>f, <2>3, <2>4, <2>5, <2>6 DEF TypeOK
<1>4. CASE Tick
  <2>1. now' = now + 1 /\ now' \in 0..MaxTime
    BY <1>0, <1>4 DEF Tick, TypeOK
  <2> QED
    BY <1>0, <1>4, <2>1 DEF Tick, TypeOK
<1>5. CASE OpenWindow
  BY <1>0, <1>5 DEF OpenWindow, TypeOK
<1>6. CASE UNCHANGED vars
  BY <1>6 DEF vars, TypeOK
<1> QED
  BY <1>1, <1>2, <1>3, <1>4, <1>5, <1>6 DEF Next

\* Every variable keeps its type.
THEOREM TypeCorrect == Spec => []TypeOK
BY TypeInit, TypeNext, PTL DEF Spec

-----------------------------------------------------------------------------
LEMMA SameLesser == \A a, b : Bucket!Lesser(a, b) = Lesser(a, b)
BY DEF Lesser, Bucket!Lesser

LEMMA InitRefines == Init => Bucket!Init
BY SettingsAssumption DEF Init, Bucket!Init, Credit, Level

LEMMA StepRefines == TypeOK /\ [Next]_vars => [Bucket!Next]_(Bucket!vars)
<1> SUFFICES ASSUME TypeOK, [Next]_vars
             PROVE  Bucket!Next \/ UNCHANGED Bucket!vars
  OBVIOUS
<1>0. now \in Nat /\ DictOK
  BY SettingsAssumption DEF TypeOK, DictOK, IsDict
<1>1. ASSUME NEW b \in Bearers, Arrive(b) PROVE UNCHANGED Bucket!vars
  BY <1>1 DEF Arrive, Bucket!vars, Credit
\* One request spends a token of the keys that let it through.
<1>2. ASSUME NEW S \in SUBSET Keys, Paid(S), UNCHANGED <<now, from>>,
             \A k \in S : Level(buckets, k, now) >= Cost,
             \A k \in Keys : Level(buckets', k, now) =
               IF k \in S THEN Level(buckets, k, now) - Cost ELSE Level(buckets, k, now)
      PROVE  Bucket!Next
  <2>1. \A k \in S : Credit[k] >= Cost
    BY <1>2 DEF Credit
  <2>2. Credit' = [k \in Keys |-> IF k \in S THEN Credit[k] - Cost ELSE Credit[k]]
    BY <1>2 DEF Credit
  <2>3. Bucket!Spend(S)
    BY <1>2, <2>1, <2>2 DEF Bucket!Spend, Paid
  <2> QED
    BY <1>2, <2>3 DEF Bucket!Next
<1>3. ASSUME NEW b \in Bearers, RefuseConn(b, ConnOf[b]) PROVE Bucket!Next
  <2> DEFINE c == ConnOf[b]
  <2>1. c \in Conns
    BY ConnectionsAssumption
  <2>2. /\ Paid({}) /\ UNCHANGED <<now, from>> /\ buckets' = AfterConn(c)
        /\ ~ Allows(Visited(buckets, Succ(calls), now), c, now)
    BY <1>3 DEF RefuseConn, Take
  <2>3. \A k \in Keys : Level(buckets', k, now) = Level(buckets, k, now)
    BY <1>0, <2>1, <2>2, CheckSpends
  <2> QED
    BY <1>2, <2>2, <2>3
<1>4. ASSUME NEW b \in Bearers, RefuseOrg(b, ConnOf[b]) PROVE Bucket!Next
  <2> DEFINE c == ConnOf[b]
  <2>1. c \in Conns /\ c \in Keys
    BY ConnectionsAssumption DEF Keys
  <2>2. /\ Paid({c}) /\ UNCHANGED <<now, from>>
        /\ buckets' = AfterAllow(ForOrg(c), OrgOf[c], now)
        /\ Allows(Visited(buckets, Succ(calls), now), c, now)
        /\ ~ Allows(ForOrg(c), OrgOf[c], now)
    BY <1>4 DEF RefuseOrg, Take
  <2> HIDE DEF c
  <2>3. /\ Level(buckets, c, now) >= Cost
        /\ \A k \in Keys : Level(buckets', k, now) =
             IF k = c THEN Level(buckets, k, now) - Cost ELSE Level(buckets, k, now)
    BY <1>0, <2>1, <2>2, CheckSpends
  <2> QED
    BY <1>2, <2>1, <2>2, <2>3
<1>5. ASSUME NEW b \in Bearers, Serve(b, ConnOf[b]) PROVE Bucket!Next
  <2> DEFINE c == ConnOf[b]
  <2>1. c \in Conns /\ c \in Keys /\ OrgOf[c] \in Keys
    BY ConnectionsAssumption DEF Keys
  <2>2. /\ Paid({c, OrgOf[c]}) /\ UNCHANGED <<now, from>>
        /\ buckets' = AfterAllow(ForOrg(c), OrgOf[c], now)
        /\ Allows(Visited(buckets, Succ(calls), now), c, now)
        /\ Allows(ForOrg(c), OrgOf[c], now)
    BY <1>5 DEF Serve, Take
  <2> HIDE DEF c
  <2>3. /\ Level(buckets, c, now) >= Cost /\ Level(buckets, OrgOf[c], now) >= Cost
        /\ \A k \in Keys : Level(buckets', k, now) =
             IF k \in {c, OrgOf[c]} THEN Level(buckets, k, now) - Cost
             ELSE Level(buckets, k, now)
    BY <1>0, <2>1, <2>2, CheckSpends
  <2> QED
    BY <1>2, <2>1, <2>2, <2>3
<1>6. CASE Tick
  <2>1. now' = now + 1 /\ now < MaxTime /\ UNCHANGED <<buckets, from, spent>>
    BY <1>6 DEF Tick
  <2>2. \A k \in Keys : Level(buckets, k, now + 1) =
                          Lesser(Burst[k], Level(buckets, k, now) + Rate[k])
    BY <1>0, TickRefills DEF DictOK
  <2>3. Credit' = [k \in Keys |-> Bucket!Lesser(Burst[k], Credit[k] + Rate[k])]
    BY <2>1, <2>2, SameLesser DEF Credit
  <2> QED
    BY <2>1, <2>3 DEF Bucket!Next, Bucket!Tick
<1>7. CASE OpenWindow
  <2>1. Bucket!OpenWindow
    BY <1>7 DEF OpenWindow, Bucket!OpenWindow, Credit
  <2> QED
    BY <2>1 DEF Bucket!Next
<1>8. CASE UNCHANGED vars
  BY <1>8 DEF vars, Bucket!vars, Credit
<1> QED
  BY <1>1, <1>3, <1>4, <1>5, <1>6, <1>7, <1>8 DEF Next

\* The lazily refilled, swept dict implements a bucket per key that is refilled
\* at every tick and never dropped.
THEOREM DictImplementsBucket == Spec => ImplementsBucket
BY InitRefines, StepRefines, TypeInit, TypeNext, PTL DEF Spec, ImplementsBucket, Bucket!Spec

-----------------------------------------------------------------------------
\* What a key has spent and what it still has never exceed what it was given.
Balance == \A k \in Keys : spent[k] + Credit[k] <= Burst[k] + Rate[k] * (now - from)

LEMMA CreditRange == TypeOK => \A k \in Keys : Credit[k] \in 0..Burst[k]
<1> SUFFICES ASSUME TypeOK, NEW k \in Keys PROVE Credit[k] \in 0..Burst[k]
  OBVIOUS
<1>1. now \in Nat /\ IsDict(buckets, now)
  BY SettingsAssumption DEF TypeOK, IsDict
<1> QED
  BY <1>1, LevelRange DEF Credit

LEMMA BalanceInit == Init => Balance
<1> SUFFICES ASSUME Init, NEW k \in Keys
             PROVE  spent[k] + Credit[k] <= Burst[k] + Rate[k] * (now - from)
  BY DEF Balance
<1>1. Credit[k] = Burst[k] /\ spent[k] = 0 /\ now - from = 0
  BY SettingsAssumption DEF Init, Credit, Level
<1>2. Burst[k] \in Nat /\ Rate[k] * 0 = 0
  BY SettingsAssumption
<1> QED
  BY <1>1, <1>2

LEMMA BalanceNext == TypeOK /\ Balance /\ [Bucket!Next]_(Bucket!vars) => Balance'
<1> SUFFICES ASSUME TypeOK, Balance, [Bucket!Next]_(Bucket!vars), NEW k \in Keys
             PROVE  spent'[k] + Credit'[k] <= Burst[k] + Rate[k] * (now' - from')
  BY DEF Balance
<1>0. /\ Burst[k] \in Nat /\ Rate[k] \in Nat /\ Cost \in Nat
      /\ now \in Nat /\ from \in Nat /\ now - from \in Nat
      /\ spent[k] \in Nat /\ Credit[k] \in 0..Burst[k]
      /\ spent[k] + Credit[k] <= Burst[k] + Rate[k] * (now - from)
  BY SettingsAssumption, CreditRange DEF TypeOK, Balance
<1>1. Rate[k] * (now - from) \in Nat
  BY <1>0, ProductIsNat
<1>2. ASSUME NEW S \in SUBSET Keys, Bucket!Spend(S)
      PROVE  spent'[k] + Credit'[k] <= Burst[k] + Rate[k] * (now' - from')
  <2>1. now' = now /\ from' = from
    BY <1>2 DEF Bucket!Spend
  <2>2. /\ spent'[k] = IF k \in S THEN spent[k] + Cost ELSE spent[k]
        /\ Credit'[k] = IF k \in S THEN Credit[k] - Cost ELSE Credit[k]
    BY <1>2 DEF Bucket!Spend
  <2>3. spent'[k] + Credit'[k] = spent[k] + Credit[k]
    BY <1>0, <2>2
  <2> QED
    BY <1>0, <2>1, <2>3
<1>3. CASE Bucket!Tick
  <2>1. /\ now' = now + 1 /\ from' = from /\ spent'[k] = spent[k]
        /\ Credit'[k] = Lesser(Burst[k], Credit[k] + Rate[k])
    BY <1>3, SameLesser DEF Bucket!Tick
  <2>2. now' - from' = (now - from) + 1
    BY <1>0, <2>1
  <2>3. Rate[k] * ((now - from) + 1) = Rate[k] * (now - from) + Rate[k]
    BY <1>0, ClockStep
  <2>4. Credit'[k] <= Credit[k] + Rate[k] /\ Credit'[k] \in Nat
    BY <1>0, <2>1 DEF Lesser
  <2> QED
    BY <1>0, <1>1, <2>1, <2>2, <2>3, <2>4
<1>4. CASE Bucket!OpenWindow
  <2>1. from' = now /\ now' = now /\ spent'[k] = 0 /\ Credit'[k] = Credit[k]
    BY <1>4 DEF Bucket!OpenWindow
  <2>2. now' - from' = 0 /\ Rate[k] * 0 = 0
    BY <1>0, <2>1
  <2> QED
    BY <1>0, <2>1, <2>2
<1>5. CASE UNCHANGED Bucket!vars
  BY <1>0, <1>5 DEF Bucket!vars
<1> QED
  BY <1>2, <1>3, <1>4, <1>5 DEF Bucket!Next

\* In any window, of any length and however the calls are spread, a connection
\* or an org is served at most its burst and the window's refill.
THEOREM ServedIsBounded == Spec => []WindowBound
<1>1. TypeOK /\ Balance => WindowBound
  <2> SUFFICES ASSUME TypeOK, Balance, NEW k \in Keys
               PROVE  spent[k] <= Burst[k] + Rate[k] * (now - from)
    BY DEF WindowBound, Bucket!WindowBound
  <2>1. /\ Burst[k] \in Nat /\ Rate[k] \in Nat /\ now - from \in Nat
        /\ spent[k] \in Nat /\ Credit[k] \in 0..Burst[k]
        /\ spent[k] + Credit[k] <= Burst[k] + Rate[k] * (now - from)
    BY SettingsAssumption, CreditRange DEF TypeOK, Balance
  <2>2. Rate[k] * (now - from) \in Nat
    BY <2>1, ProductIsNat
  <2> QED
    BY <2>1, <2>2
<1> QED
  BY <1>1, TypeInit, TypeNext, BalanceInit, BalanceNext, StepRefines, PTL DEF Spec

-----------------------------------------------------------------------------
\* _last_recorded holds the time of the connection's newest row.
EpisodeInv ==
  /\ EpisodesSpaced
  /\ \A e \in episodes : e[1] \in DOMAIN recorded /\ e[2] <= recorded[e[1]]
  /\ \A c \in DOMAIN recorded : recorded[c] \in 0..now

LEMMA EpisodeInit == Init => EpisodeInv
BY DEF Init, EpisodeInv, EpisodesSpaced

LEMMA EpisodeNext == TypeOK /\ EpisodeInv /\ [Next]_vars => EpisodeInv'
<1> SUFFICES ASSUME TypeOK, EpisodeInv, [Next]_vars PROVE EpisodeInv'
  OBVIOUS
<1>0. /\ now \in Nat /\ Suppress \in Nat
      /\ \A e \in episodes : e[2] \in 0..now
  BY SettingsAssumption DEF TypeOK
<1>1. ASSUME NEW c \in Conns, RecordEpisode(c), now' = now PROVE EpisodeInv'
  <2>1. CASE UNCHANGED <<recorded, episodes>>
    BY <1>1, <2>1 DEF EpisodeInv, EpisodesSpaced
  <2>2. CASE /\ ~ (c \in DOMAIN recorded /\ now - recorded[c] < Suppress)
             /\ recorded' = [a \in DOMAIN recorded \cup {c} |->
                               IF a = c THEN now ELSE recorded[a]]
             /\ episodes' = episodes \cup {<<c, now>>}
    <3>1. \A e \in episodes : e[1] = c => now - e[2] >= Suppress
      <4> SUFFICES ASSUME NEW e \in episodes, e[1] = c PROVE now - e[2] >= Suppress
        OBVIOUS
      <4>1. c \in DOMAIN recorded /\ e[2] <= recorded[c] /\ recorded[c] \in 0..now
        BY DEF EpisodeInv
      <4> QED
        BY <1>0, <2>2, <4>1
    <3>2. EpisodesSpaced'
      <4> SUFFICES ASSUME NEW e \in episodes', NEW f \in episodes', e[1] = f[1], e[2] < f[2]
                   PROVE  f[2] - e[2] >= Suppress
        BY DEF EpisodesSpaced
      <4>1. CASE f \in episodes /\ e \in episodes
        BY <4>1 DEF EpisodeInv, EpisodesSpaced
      <4>2. CASE f = <<c, now>> /\ e \in episodes
        BY <3>1, <4>2
      <4>3. CASE e = <<c, now>>
        BY <1>0, <2>2, <4>3
      <4> QED
        BY <2>2, <4>1, <4>2, <4>3
    <3>3. \A e \in episodes' : e[1] \in DOMAIN recorded' /\ e[2] <= recorded'[e[1]]
      BY <1>0, <2>2 DEF EpisodeInv
    <3>4. \A a \in DOMAIN recorded' : recorded'[a] \in 0..now'
      BY <1>0, <1>1, <2>2 DEF EpisodeInv
    <3> QED
      BY <3>2, <3>3, <3>4 DEF EpisodeInv
  <2> QED
    BY <1>1, <2>1, <2>2 DEF RecordEpisode
<1>2. ASSUME UNCHANGED <<recorded, episodes>>, now' = now \/ now' = now + 1
      PROVE  EpisodeInv'
  BY <1>0, <1>2 DEF EpisodeInv, EpisodesSpaced
<1>3. CASE \E b \in Bearers : RefuseConn(b, ConnOf[b])
  BY <1>1, <1>3, ConnectionsAssumption DEF RefuseConn, Take
<1>4. CASE \E b \in Bearers : Arrive(b) \/ RefuseOrg(b, ConnOf[b]) \/ Serve(b, ConnOf[b])
  BY <1>2, <1>4 DEF Arrive, RefuseOrg, Serve, Take
<1>5. CASE Tick \/ OpenWindow \/ UNCHANGED vars
  BY <1>2, <1>5 DEF Tick, OpenWindow, vars
<1> QED
  BY <1>3, <1>4, <1>5 DEF Next

\* Rows of one connection are at least the suppression interval apart.
THEOREM EpisodesAreSpaced == Spec => []EpisodesSpaced
<1>1. EpisodeInv => EpisodesSpaced
  BY DEF EpisodeInv
<1> QED
  BY <1>1, TypeInit, TypeNext, EpisodeInit, EpisodeNext, PTL DEF Spec

-----------------------------------------------------------------------------
Blocked(b) == b \in DOMAIN memo /\ memo[b] > now
BlockedNext(b) == b \in DOMAIN memo' /\ memo'[b] > now'

\* A refusal blocks its own bearer, and takes no other off the list or onto it.
LEMMA RefusalBlocksItsOwn ==
  ASSUME TypeOK, NEW b \in Bearers, Take(b), memo' = MemoAfterBlock(b)
  PROVE  /\ waiting'[b] < waiting[b] /\ memo'[b] = now + Memo
         /\ \A a \in Bearers \ {b} : BlockedNext(a) <=> Blocked(a)
         /\ \A a \in Bearers \ {b} : Blocked(a) => a \in DOMAIN memo' /\ memo'[a] = memo[a]
<1>1. waiting'[b] < waiting[b]
  BY SettingsAssumption DEF TypeOK, Take
<1>2. /\ DOMAIN memo' = {c \in DOMAIN memo : memo[c] > now} \cup {b} /\ now' = now
      /\ memo'[b] = now + Memo
      /\ \A a \in DOMAIN memo' \ {b} : memo'[a] = memo[a]
  BY DEF MemoAfterBlock, Take
<1> QED
  BY <1>1, <1>2 DEF Blocked, BlockedNext

\* is_memo_blocked turns a bearer away only because memo_block saw a request of that very
\* bearer refused at most Memo ticks ago, and no sweep of the memo lets another one off early
\* (throttle.py).
THEOREM OnlyTheRefusedAreBlocked == Spec => MemoFollowsRefusal
<1> DEFINE Followed(b) ==
      ~ Blocked(b) /\ BlockedNext(b)
        => /\ waiting'[b] < waiting[b]
           /\ memo'[b] = now + Memo
           /\ \A a \in Bearers \ {b} : Blocked(a) => a \in DOMAIN memo' /\ memo'[a] = memo[a]
<1>1. ASSUME TypeOK, [Next]_vars, NEW b \in Bearers, ~ Blocked(b), BlockedNext(b)
      PROVE  /\ waiting'[b] < waiting[b]
             /\ memo'[b] = now + Memo
             /\ \A a \in Bearers \ {b} : Blocked(a) => a \in DOMAIN memo' /\ memo'[a] = memo[a]
  <2>1. memo' # memo
    <3>1. SUFFICES ASSUME memo' = memo PROVE FALSE
      OBVIOUS
    <3>2. now' \in {now, now + 1} /\ now \in Nat
      <4>1. now' \in {now, now + 1}
        BY <1>1 DEF Next, Arrive, RefuseConn, RefuseOrg, Serve, Take, Tick, OpenWindow, vars
      <4> QED
        BY <1>1, <4>1, SettingsAssumption DEF TypeOK
    <3>3. b \in DOMAIN memo /\ memo[b] \in Int
      BY <1>1, <3>1, <3>2, SettingsAssumption DEF BlockedNext, TypeOK
    <3> QED
      BY <1>1, <3>1, <3>2, <3>3 DEF Blocked, BlockedNext
  <2>2. PICK a \in Bearers : Take(a) /\ memo' = MemoAfterBlock(a)
    BY <1>1, <2>1 DEF Next, Arrive, RefuseConn, RefuseOrg, Serve, Tick, OpenWindow, vars
  <2>3. a = b
    BY <1>1, <2>2, RefusalBlocksItsOwn
  <2> QED
    BY <1>1, <2>2, <2>3, RefusalBlocksItsOwn
<1>2. TypeOK /\ [Next]_vars => [\A b \in Bearers : Followed(b)]_vars
  BY <1>1
<1> QED
  BY <1>2, TypeCorrect, PTL DEF Spec, MemoFollowsRefusal, Blocked, BlockedNext
=============================================================================
