------------------------- MODULE BoardWrites_proofs -------------------------
(***************************************************************************)
(* What holds of the steps of a slice and of the batches of update_slice,  *)
(* for any number of rows, requests, processes and statuses: ranks tie     *)
(* only in a race, a step lands where it was asked to and is what it was   *)
(* last meant to be, and a batch writes all of its slices or none.         *)
(***************************************************************************)
EXTENDS Checklist, SliceBatch, SequenceTheorems, FiniteSetTheorems,
        WellFoundedInduction, TLAPS

-----------------------------------------------------------------------------
\* Sets of keys have a lowest and a highest member: they are bounded.

LEMMA LeastNatural ==
  ASSUME NEW S \in SUBSET Nat, S # {}
  PROVE  \E x \in S : \A y \in S : x <= y
<1>1. PICK x \in S : \A y \in S : ~ (<<y, x>> \in OpToRel(<, Nat))
  BY NatLessThanWellFounded, WFMin, Zenon
<1>2. \A y \in S : ~ (y < x)
  BY <1>1 DEF OpToRel
<1> QED
  BY <1>2

LEMMA KeysAreIntegers == /\ Keys \subseteq Int /\ 0 \in Keys
                         /\ \A k \in Keys : -MaxWhole * Scale <= k /\ k <= (MaxWhole + 1) * Scale
<1>1. MaxWhole * Scale \in Nat /\ (MaxWhole + 1) * Scale \in Nat \ {0}
  BY RanksAssumption
<1>2. -MaxWhole * Scale \in Int /\ -MaxWhole * Scale <= 0
  BY <1>1, RanksAssumption
<1> QED
  BY <1>1, <1>2 DEF Keys

LEMMA LowestIs ==
  ASSUME NEW S \in SUBSET Keys, S # {}
  PROVE  Lowest(S) \in S /\ \A k \in S : Lowest(S) <= k
<1> DEFINE floor == -MaxWhole * Scale
           T == {k - floor : k \in S}
<1>1. floor \in Int /\ S \subseteq Int /\ \A k \in S : floor <= k
  BY KeysAreIntegers, RanksAssumption
<1> HIDE DEF floor
<1>2. T \in SUBSET Nat /\ T # {}
  <2>1. \A k \in S : k - floor \in Nat
    BY <1>1
  <2>2. PICK k \in S : TRUE
    OBVIOUS
  <2>3. k - floor \in T
    BY <2>2
  <2> QED
    BY <2>1, <2>3, Zenon
<1>3. PICK t \in T : \A u \in T : t <= u
  BY <1>2, LeastNatural
<1>4. PICK k \in S : t = k - floor
  BY <1>3
<1>5. \A l \in S : k <= l
  <2>1. \A l \in S : t <= l - floor
    BY <1>3, Zenon
  <2> QED
    BY <1>1, <1>4, <2>1
<1>6. Min(S) \in S /\ \A l \in S : Min(S) <= l
  <2>1. \E x \in S : \A l \in S : x <= l
    BY <1>5
  <2> QED
    BY <2>1, Zenon DEF Min
<1> QED
  BY <1>6 DEF Lowest

LEMMA HighestIs ==
  ASSUME NEW S \in SUBSET Keys, S # {}
  PROVE  Highest(S) \in S /\ \A k \in S : k <= Highest(S)
<1> DEFINE ceiling == (MaxWhole + 1) * Scale
           T == {ceiling - k : k \in S}
<1>1. ceiling \in Int /\ S \subseteq Int /\ \A k \in S : k <= ceiling
  BY KeysAreIntegers, RanksAssumption
<1> HIDE DEF ceiling
<1>2. T \in SUBSET Nat /\ T # {}
  <2>1. \A k \in S : ceiling - k \in Nat
    BY <1>1
  <2>2. PICK k \in S : TRUE
    OBVIOUS
  <2>3. ceiling - k \in T
    BY <2>2
  <2> QED
    BY <2>1, <2>3, Zenon
<1>3. PICK t \in T : \A u \in T : t <= u
  BY <1>2, LeastNatural
<1>4. PICK k \in S : t = ceiling - k
  BY <1>3
<1>5. \A l \in S : k >= l
  <2>1. \A l \in S : t <= ceiling - l
    BY <1>3, Zenon
  <2> QED
    BY <1>1, <1>4, <2>1
<1>6. Max(S) \in S /\ \A l \in S : Max(S) >= l
  <2>1. \E x \in S : \A l \in S : x >= l
    BY <1>5
  <2> QED
    BY <2>1, Zenon DEF Max
<1> QED
  BY <1>1, <1>6 DEF Highest

\* The whole keys are Scale apart, and a key is less than that above its own.
LEMMA WholeIs ==
  ASSUME NEW k \in Int
  PROVE  Whole(k) \in Int /\ Whole(k) <= k /\ k < Whole(k) + Scale
BY RanksAssumption DEF Whole

LEMMA WholesAreApart ==
  ASSUME NEW a \in Int, NEW b \in Int, a < b, Whole(a) # Whole(b)
  PROVE  Whole(a) + Scale <= b
<1> DEFINE m == a \div Scale
           n == b \div Scale
<1>1. m \in Int /\ n \in Int /\ m * Scale <= a /\ a < m * Scale + Scale /\ n * Scale <= b
      /\ b < n * Scale + Scale /\ Scale \in Nat \ {0} /\ m # n
  BY RanksAssumption DEF Whole
<1> HIDE DEF m, n
<1>2. m < n
  BY <1>1
<1>3. (m + 1) * Scale <= n * Scale /\ (m + 1) * Scale = m * Scale + Scale
  BY <1>1, <1>2
<1> QED
  BY <1>1, <1>3 DEF Whole, m

\* generate_key_between is strictly between what it was given.
LEMMA RankIsBetween ==
  ASSUME NEW a \in Int \cup {None}, NEW b \in Int \cup {None},
         a # None /\ b # None => a < b,
         Fits(RankBetween(a, b))
  PROVE  /\ RankBetween(a, b) \in Keys
         /\ a # None => a < RankBetween(a, b)
         /\ b # None => RankBetween(a, b) < b
<1> DEFINE k == RankBetween(a, b)
<1>0. k \in Keys /\ k # None /\ k \in Int /\ Scale \in Nat \ {0}
  BY KeysAreIntegers, RanksAssumption DEF Fits
<1>1. CASE a = None
  <2>1. CASE b # None
    BY <1>0, <1>1, <2>1, WholeIs DEF RankBetween
  <2> QED
    BY <1>0, <1>1, <2>1
<1>2. CASE a # None /\ b = None
  BY <1>0, <1>2, WholeIs DEF RankBetween
<1>3. CASE a # None /\ b # None
  <2>0. a \in Int /\ b \in Int /\ a < b /\ Whole(a) \in Int /\ Whole(a) <= a /\ a < Whole(a) + Scale
    BY <1>3, WholeIs
  <2>1. CASE Whole(a) + Scale < b
    BY <1>0, <1>3, <2>0, <2>1 DEF RankBetween
  <2>2. CASE ~ (Whole(a) + Scale < b)
    <3> DEFINE x == IF Whole(a) = Whole(b) THEN b ELSE Whole(a) + Scale
    <3>1. x \in Int /\ a < x /\ x <= b
      BY <1>0, <2>0, WholesAreApart
    <3>2. k = Halfway(a, x)
      BY <1>3, <2>2 DEF RankBetween
    <3>3. k = (a + x) \div 2 /\ x - a > 1
      BY <1>0, <3>2 DEF Halfway
    <3> HIDE DEF x, k
    <3> QED
      BY <1>0, <2>0, <3>1, <3>3 DEF k
  <2> QED
    BY <2>1, <2>2
<1> QED
  BY <1>0, <1>1, <1>2, <1>3

\* What rank_for returns no row has, and it stands where it was asked to.
LEMMA RankForIs ==
  ASSUME NEW keys \in SUBSET Keys, NEW before \in Keys \cup {None}, NEW after \in Keys \cup {None},
         Fits(RankFor(keys, before, after))
  PROVE  LET k == RankFor(keys, before, after) IN
         /\ k \in Keys /\ k \notin keys
         /\ after # None => after < k /\ ~ \E c \in keys : after < c /\ c < k
         /\ after = None /\ before # None => k < before /\ ~ \E c \in keys : k < c /\ c < before
         /\ after = None /\ before = None => \A c \in keys : c < k
<1> DEFINE k == RankFor(keys, before, after)
<1>0. Keys \subseteq Int /\ keys \subseteq Int /\ None \notin Keys
      /\ Fits(k)
  BY KeysAreIntegers, RanksAssumption
<1> SUFFICES
         /\ k \in Keys /\ k \notin keys
         /\ after # None => after < k /\ ~ \E c \in keys : after < c /\ c < k
         /\ after = None /\ before # None => k < before /\ ~ \E c \in keys : k < c /\ c < before
         /\ after = None /\ before = None => \A c \in keys : c < k
  OBVIOUS
<1> HIDE DEF k
<1>1. CASE after # None
  <2> DEFINE above == {c \in keys : c > after}
             next == Lowest(above)
  <2>1. next \in Keys \cup {None} /\ (next # None => next > after)
       /\ (\A c \in above : next # None /\ next <= c)
    BY <1>0, <1>1, LowestIs DEF Lowest
  <2>2. k = RankBetween(after, next)
    BY <1>1 DEF RankFor, k
  <2> HIDE DEF next
  <2>3. k \in Keys /\ after < k /\ (next # None => k < next)
    BY <1>0, <1>1, <2>1, <2>2, RankIsBetween
  <2> QED
    BY <1>0, <1>1, <2>1, <2>3
<1>2. CASE after = None /\ before # None
  <2> DEFINE below == {c \in keys : c < before}
             next == Highest(below)
  <2>1. next \in Keys \cup {None} /\ (next # None => next < before)
       /\ (\A c \in below : next # None /\ next >= c)
    BY <1>0, <1>2, HighestIs DEF Highest
  <2>2. k = RankBetween(next, before)
    BY <1>2 DEF RankFor, k
  <2> HIDE DEF next
  <2>3. k \in Keys /\ k < before /\ (next # None => next < k)
    BY <1>0, <1>2, <2>1, <2>2, RankIsBetween
  <2> QED
    BY <1>0, <1>2, <2>1, <2>3
<1>3. CASE after = None /\ before = None
  <2> DEFINE next == Highest(keys)
  <2>1. next \in Keys \cup {None} /\ (\A c \in keys : next # None /\ next >= c)
    BY <1>0, HighestIs DEF Highest
  <2>2. k = RankBetween(next, None)
    BY <1>3 DEF RankFor, k
  <2> HIDE DEF next
  <2>3. k \in Keys /\ (next # None => next < k)
    BY <1>0, <2>1, <2>2, RankIsBetween
  <2> QED
    BY <1>0, <1>3, <2>1, <2>3
<1> QED
  BY <1>1, <1>2, <1>3

-----------------------------------------------------------------------------
\* The rows of a slice as a function, and the requests by what they hold.

LEMMA WithIs ==
  ASSUME NEW f, NEW b, NEW v
  PROVE  /\ DOMAIN With(f, b, v) = DOMAIN f \cup {b}
         /\ With(f, b, v)[b] = v
         /\ \A c \in DOMAIN f : c # b => With(f, b, v)[c] = f[c]
BY DEF With

LEMMA WithoutIs ==
  ASSUME NEW f, NEW b
  PROVE  /\ DOMAIN Without(f, b) = DOMAIN f \ {b}
         /\ \A c \in DOMAIN f : c # b => Without(f, b)[c] = f[c]
BY DEF Without

LEMMA RequestKinds ==
  ASSUME NEW q \in Request
  PROVE  /\ q.at \in {"add", "insert"} => q \in Adds
         /\ q.at \in {"near", "place", "save"} => q \in Edits
         /\ q.at \in {"toggle", "delete"} => q \in Ticks
         /\ q.at = "idle" => q = Idle
         /\ q.at \in {"idle", "add", "insert", "near", "place", "save", "toggle", "delete"}
BY DEF Request, Idle, Adds, Edits, Ticks

OthersStay(f, g, b) ==
  DOMAIN f \ {b} = DOMAIN g \ {b} /\ \A c \in DOMAIN f \ {b} : g[c] = f[c]
SameRanks(f, g) == DOMAIN f = DOMAIN g /\ \A c \in DOMAIN f : f[c].rank = g[c].rank

\* The rank an update_bite holds has its place next to the neighbour it named.
Stands(q, f) ==
  /\ q.near \in DOMAIN f /\ q.copy.rank \notin RanksOf(f)
  /\ q.side = "after" =>
       /\ f[q.near].rank < q.copy.rank
       /\ ~ \E c \in DOMAIN f : f[q.near].rank < f[c].rank /\ f[c].rank < q.copy.rank
  /\ q.side = "before" =>
       /\ q.copy.rank < f[q.near].rank
       /\ ~ \E c \in DOMAIN f : q.copy.rank < f[c].rank /\ f[c].rank < f[q.near].rank

\* What a request has read still holds of the rows, unless one was written meanwhile.
HoldsRank(q, f) ==
  /\ q.at = "insert" => q.rank \in Keys /\ (~ q.stale => \A c \in DOMAIN f : f[c].rank < q.rank)
  /\ q.at \in {"near", "place"} => q.side # "stay"
  /\ q.at = "place" =>
       q.key \in Keys /\ (~ q.stale => q.near \in DOMAIN f /\ f[q.near].rank = q.key)
  /\ q.at = "save" /\ q.side # "stay" /\ ~ q.stale => Stands(q, f)
  /\ q.at = "save" /\ q.side = "stay" /\ ~ q.stale =>
       q.bite \in DOMAIN f /\ f[q.bite].rank = q.copy.rank

HoldsRow(q, f, ids) ==
  /\ q.at \in {"near", "place", "save", "toggle", "delete"} => q.bite \in ids
  /\ q.at \in {"near", "place", "save"} /\ ~ q.old =>
       q.bite \in DOMAIN f /\ f[q.bite].status = q.copy.status

Holds(q, f, ids) == HoldsRank(q, f) /\ HoldsRow(q, f, ids)

ChecklistInv ==
  /\ TypeOK /\ TiesAreRaces /\ AsLastMeant
  /\ \A r \in Requests : Holds(req[r], bites, used)

LEMMA IdleHolds == ASSUME NEW f, NEW ids PROVE Holds(Idle, f, ids) /\ Idle \in Request
BY DEF Holds, HoldsRank, HoldsRow, Idle, Request

\* A request that only reads.
LEMMA GoesKeeps ==
  ASSUME ChecklistInv, NEW r \in Requests, NEW q \in Request, Holds(q, bites, used),
         Goes(r, q), UNCHANGED <<bites, used, raced, meant, clobbered>>
  PROVE  ChecklistInv'
<1>1. TypeOK'
  BY DEF ChecklistInv, TypeOK, Goes
<1>2. TiesAreRaces' /\ AsLastMeant'
  BY DEF ChecklistInv, TiesAreRaces, AsLastMeant
<1>3. \A o \in Requests : Holds(req'[o], bites, used)
  BY DEF ChecklistInv, TypeOK, Goes
<1> QED
  BY <1>1, <1>2, <1>3 DEF ChecklistInv

\* Ranks that stayed are where they were.
LEMMA SameRanksHold ==
  ASSUME NEW q \in Request, NEW f, NEW g, SameRanks(f, g), HoldsRank(q, f)
  PROVE  HoldsRank(q, g)
<1>1. RanksOf(f) = RanksOf(g)
  BY DEF RanksOf, SameRanks
<1> QED
  BY <1>1 DEF HoldsRank, SameRanks, Stands

\* A write ages the copies that are out.
LEMMA AgedHolds ==
  ASSUME NEW q \in Request, NEW b, NEW moved \in BOOLEAN,
         Holds(q, bites, used), used \subseteq used',
         OthersStay(bites, bites', b),
         moved \/ SameRanks(bites, bites')
  PROVE  /\ Aged(q, b, moved) \in Request
         /\ Aged(q, b, moved).at = q.at
         /\ Holds(Aged(q, b, moved), bites', used')
<1> DEFINE p == Aged(q, b, moved)
<1>1. CASE q.at \in {"idle", "toggle", "delete"}
  <2>1. p = q
    BY <1>1 DEF Aged
  <2> QED
    BY <1>1, <2>1 DEF Holds, HoldsRank, HoldsRow
<1>2. CASE q.at \in {"add", "insert"}
  <2>1. q \in Adds /\ p = [q EXCEPT !.stale = q.stale \/ moved]
    BY <1>2, RequestKinds DEF Aged
  <2> HIDE DEF p
  <2>2. p \in Adds /\ p.at = q.at /\ p.rank = q.rank /\ p.stale = (q.stale \/ moved)
    BY <2>1 DEF Adds
  <2>3. HoldsRank(p, bites')
    BY <1>2, <2>2 DEF Holds, HoldsRank, SameRanks
  <2> QED
    BY <1>2, <2>2, <2>3 DEF p, Request, Holds, HoldsRow
<1>3. CASE q.at \in {"near", "place", "save"}
  <2> DEFINE old == q.old \/ (q.bite = b /\ Turned(b))
  <2>0. old \in BOOLEAN
    BY <1>3, RequestKinds DEF Edits
  <2>1. q \in Edits /\ p = [q EXCEPT !.stale = q.stale \/ moved, !.old = old]
    BY <1>3, RequestKinds DEF Aged
  <2> HIDE DEF p, old
  <2>2. /\ p \in Edits /\ p.at = q.at /\ p.bite = q.bite /\ p.copy = q.copy /\ p.side = q.side
        /\ p.near = q.near /\ p.key = q.key /\ p.stale = (q.stale \/ moved) /\ p.old = old
    BY <2>0, <2>1 DEF Edits
  <2>3. HoldsRank(p, bites')
    <3>1. CASE moved
      BY <1>3, <2>2, <3>1 DEF Holds, HoldsRank
    <3>2. CASE ~ moved
      <4>1. HoldsRank(q, bites')
        BY <3>2, SameRanksHold DEF Holds
      <4> QED
        BY <1>3, <2>2, <3>2, <4>1 DEF HoldsRank, Stands
    <3> QED
      BY <3>1, <3>2
  <2>4. HoldsRow(p, bites', used')
    <3>1. CASE q.bite = b
      BY <1>3, <2>2, <3>1 DEF Holds, HoldsRow, Turned, old
    <3>2. CASE q.bite # b
      <4>1. q.bite \in DOMAIN bites => q.bite \in DOMAIN bites' /\ bites'[q.bite] = bites[q.bite]
        BY <3>2 DEF OthersStay
      <4>2. ~ p.old => ~ q.old
        BY <2>2, <3>2 DEF old
      <4> QED
        BY <1>3, <2>2, <4>1, <4>2 DEF Holds, HoldsRow
    <3> QED
      BY <3>1, <3>2
  <2> QED
    BY <2>2, <2>3, <2>4 DEF p, Request, Holds
<1> QED
  BY <1>1, <1>2, <1>3, RequestKinds

LEMMA WritesKeeps ==
  ASSUME ChecklistInv, NEW r \in Requests, NEW q \in Request, Holds(q, bites', used'),
         NEW b, NEW moved \in BOOLEAN, Writes(r, q, b, moved), used \subseteq used',
         OthersStay(bites, bites', b),
         moved \/ SameRanks(bites, bites')
  PROVE  /\ req' \in [Requests -> Request]
         /\ \A o \in Requests : Holds(req'[o], bites', used')
<1>1. \A o \in Requests : req'[o] = IF o = r THEN q ELSE Aged(req[o], b, moved)
  BY DEF Writes
<1>2. ASSUME NEW o \in Requests
      PROVE  /\ Aged(req[o], b, moved) \in Request
             /\ Holds(Aged(req[o], b, moved), bites', used')
  BY AgedHolds DEF ChecklistInv, TypeOK
<1>3. \A o \in Requests : req'[o] \in Request /\ Holds(req'[o], bites', used')
  BY <1>1, <1>2
<1> QED
  BY <1>3 DEF Writes

-----------------------------------------------------------------------------
\* One lemma per operation.

LEMMA RanksAreKeys ==
  ASSUME TypeOK
  PROVE  RanksOf(bites) \in SUBSET Keys /\ \A c \in DOMAIN bites : bites[c].rank \in RanksOf(bites)
<1>1. \A c \in DOMAIN bites : bites[c] \in Bite
  BY DEF TypeOK
<1> QED
  BY <1>1 DEF RanksOf, Bite

LEMMA AskAddKeeps ==
  ASSUME ChecklistInv, NEW r \in Requests, NEW n \in 1..MaxBatch, AskAdd(r, n)
  PROVE  ChecklistInv'
<1> DEFINE q == [at |-> "add", left |-> n, rank |-> None, stale |-> FALSE]
<1>1. q \in Request
  BY DEF Request, Adds
<1>2. Holds(q, bites, used)
  BY DEF Holds, HoldsRank, HoldsRow
<1> QED
  BY <1>1, <1>2, GoesKeeps DEF AskAdd

LEMMA AddLookKeeps ==
  ASSUME ChecklistInv, NEW r \in Requests, AddLook(r)
  PROVE  ChecklistInv'
<1> DEFINE key == RankFor(RanksOf(bites), None, None)
           q == [req[r] EXCEPT !.at = "insert", !.rank = key, !.stale = FALSE]
<1>1. req[r] \in Adds
  BY RequestKinds DEF AddLook, ChecklistInv, TypeOK
<1>2. Fits(key) /\ Goes(r, q) /\ UNCHANGED <<bites, used, raced, meant, clobbered>>
  BY DEF AddLook
<1>3. key \in Keys /\ \A c \in DOMAIN bites : bites[c].rank < key
  <2>1. RanksOf(bites) \in SUBSET Keys /\ \A c \in DOMAIN bites : bites[c].rank \in RanksOf(bites)
    BY RanksAreKeys DEF ChecklistInv
  <2>2. key \in Keys /\ \A k \in RanksOf(bites) : k < key
    BY <1>2, <2>1, RankForIs
  <2> QED
    BY <2>1, <2>2
<1> HIDE DEF key
<1>4. q \in Adds /\ q.at = "insert" /\ q.rank = key
  BY <1>1, <1>3 DEF Adds
<1> HIDE DEF q
<1>5. Holds(q, bites, used)
  BY <1>3, <1>4 DEF Holds, HoldsRank, HoldsRow
<1> QED
  BY <1>2, <1>4, <1>5, GoesKeeps DEF Request

LEMMA AskEditKeeps ==
  ASSUME ChecklistInv, NEW r \in Requests, NEW b \in Bites, NEW status \in Statuses \cup {Keep},
         NEW side \in {"before", "after", "stay"}, NEW near \in Bites \cup {None},
         AskEdit(r, b, status, side, near)
  PROVE  ChecklistInv'
<1> DEFINE copy == IF side = "stay" THEN bites[b] ELSE [bites[b] EXCEPT !.rank = 0]
           q == [at |-> IF side = "stay" THEN "save" ELSE "near", bite |-> b,
                 copy |-> copy, status |-> status, side |-> side, near |-> near, key |-> None,
                 stale |-> FALSE, old |-> FALSE]
<1>1. /\ b \in DOMAIN bites /\ Goes(r, q) /\ UNCHANGED <<bites, used, raced, meant, clobbered>>
  BY DEF AskEdit
<1>2. bites[b] \in Bite /\ b \in used
  BY <1>1 DEF ChecklistInv, TypeOK
<1>3. copy \in Bite /\ copy.status = bites[b].status /\ (side = "stay" => copy.rank = bites[b].rank)
  BY <1>2, KeysAreIntegers DEF Bite
<1> HIDE DEF copy
<1>4. q \in Edits
  BY <1>3 DEF Edits
<1>5. Holds(q, bites, used)
  BY <1>1, <1>2, <1>3 DEF Holds, HoldsRank, HoldsRow
<1> HIDE DEF q
<1> QED
  BY <1>1, <1>4, <1>5, GoesKeeps DEF Request

LEMMA EditNearKeeps ==
  ASSUME ChecklistInv, NEW r \in Requests, EditNear(r)
  PROVE  ChecklistInv'
<1>0. UNCHANGED <<bites, used, raced, meant, clobbered>>
  BY DEF EditNear
<1>1. CASE req[r].near \notin DOMAIN bites
  BY <1>0, <1>1, IdleHolds, GoesKeeps DEF EditNear
<1>2. CASE req[r].near \in DOMAIN bites
  <2> DEFINE q == [req[r] EXCEPT !.at = "place", !.key = bites[req[r].near].rank]
  <2>1. req[r] \in Edits /\ Goes(r, q) /\ req[r].at = "near" /\ Holds(req[r], bites, used)
    BY <1>2, RequestKinds DEF EditNear, ChecklistInv, TypeOK
  <2>2. bites[req[r].near].rank \in Keys
    BY <1>2 DEF ChecklistInv, TypeOK, Bite
  <2>3. /\ q \in Edits /\ q.at = "place" /\ q.key = bites[req[r].near].rank /\ q.near = req[r].near
        /\ q.side = req[r].side /\ q.bite = req[r].bite /\ q.copy = req[r].copy
        /\ q.old = req[r].old
    BY <2>1, <2>2 DEF Edits
  <2> HIDE DEF q
  <2>4. Holds(q, bites, used)
    BY <1>2, <2>1, <2>2, <2>3 DEF Holds, HoldsRank, HoldsRow
  <2> QED
    BY <1>0, <2>1, <2>3, <2>4, GoesKeeps DEF Request
<1> QED
  BY <1>1, <1>2

LEMMA EditPlaceKeeps ==
  ASSUME ChecklistInv, NEW r \in Requests, EditPlace(r)
  PROVE  ChecklistInv'
<1> DEFINE p == req[r]
           before == IF p.side = "before" THEN p.key ELSE None
           after == IF p.side = "after" THEN p.key ELSE None
           key == RankFor(RanksOf(bites), before, after)
           q == [p EXCEPT !.at = "save", !.copy.rank = key, !.key = None]
<1>1. /\ Fits(key) /\ Goes(r, q) /\ p.at = "place"
      /\ UNCHANGED <<bites, used, raced, meant, clobbered>>
  BY DEF EditPlace
<1>2. /\ p \in Edits /\ p.side \in {"before", "after"} /\ p.key \in Keys
      /\ ~ p.stale => p.near \in DOMAIN bites /\ bites[p.near].rank = p.key
      /\ p.bite \in used
      /\ ~ p.old => p.bite \in DOMAIN bites /\ bites[p.bite].status = p.copy.status
  <2>1. p \in Edits /\ Holds(p, bites, used)
    BY <1>1, RequestKinds DEF ChecklistInv, TypeOK
  <2>2. p.side \in {"before", "after", "stay"}
    BY <2>1 DEF Edits
  <2> QED
    BY <1>1, <2>1, <2>2 DEF Holds, HoldsRank, HoldsRow
<1> HIDE DEF p
<1>3. before \in Keys \cup {None} /\ after \in Keys \cup {None}
      /\ (before # None <=> p.side = "before") /\ (after # None <=> p.side = "after")
  BY <1>2, KeysAreIntegers, RanksAssumption
<1>4. /\ key \in Keys /\ key \notin RanksOf(bites)
      /\ p.side = "after" => p.key < key /\ ~ \E c \in RanksOf(bites) : p.key < c /\ c < key
      /\ p.side = "before" => key < p.key /\ ~ \E c \in RanksOf(bites) : key < c /\ c < p.key
  <2> HIDE DEF before, after
  <2>1. /\ key \in Keys /\ key \notin RanksOf(bites)
        /\ after # None => after < key /\ ~ \E c \in RanksOf(bites) : after < c /\ c < key
        /\ after = None /\ before # None =>
             key < before /\ ~ \E c \in RanksOf(bites) : key < c /\ c < before
    <3>1. RanksOf(bites) \in SUBSET Keys
      BY RanksAreKeys DEF ChecklistInv
    <3> QED
      BY <1>1, <1>3, <3>1, RankForIs
  <2> HIDE DEF key
  <2> QED
    BY <1>3, <2>1 DEF before, after
<1> HIDE DEF key
<1>5. /\ q \in Edits /\ q.at = "save" /\ q.near = p.near /\ q.side = p.side /\ q.bite = p.bite
      /\ q.old = p.old /\ q.stale = p.stale /\ q.copy.rank = key /\ q.copy.status = p.copy.status
  <2>1. p.copy \in Bite
    BY <1>2 DEF Edits
  <2>2. [p.copy EXCEPT !.rank = key] \in Bite
    BY <1>4, <2>1 DEF Bite
  <2>3. q = [p EXCEPT !.at = "save", !.copy = [p.copy EXCEPT !.rank = key], !.key = None]
    BY <1>2 DEF Edits
  <2> QED
    BY <1>2, <2>1, <2>2, <2>3 DEF Edits, Bite
<1> HIDE DEF q
<1>6. Holds(q, bites, used)
  <2>1. ASSUME ~ p.stale PROVE Stands(q, bites)
    BY <1>2, <1>4, <1>5, <2>1, RanksAreKeys DEF Stands, ChecklistInv
  <2> QED
    BY <1>2, <1>5, <2>1 DEF Holds, HoldsRank, HoldsRow
<1> QED
  BY <1>1, <1>5, <1>6, GoesKeeps DEF Request

LEMMA AskTickKeeps ==
  ASSUME ChecklistInv, NEW r \in Requests, NEW b \in Bites, AskToggle(r, b) \/ AskDelete(r, b)
  PROVE  ChecklistInv'
<1>1. b \in used /\ b \in DOMAIN bites /\ bites[b].status \in Statuses
  BY DEF ChecklistInv, TypeOK, AskToggle, AskDelete, Bite
<1>2. PICK at \in {"toggle", "delete"}, status \in Statuses :
        Goes(r, [at |-> at, bite |-> b, status |-> status])
  BY <1>1, ChecklistAssumption DEF AskToggle, AskDelete
<1> DEFINE q == [at |-> at, bite |-> b, status |-> status]
<1>3. q \in Request
  BY DEF Request, Ticks
<1>4. Holds(q, bites, used)
  BY <1>1 DEF Holds, HoldsRank, HoldsRow
<1> QED
  BY <1>2, <1>3, <1>4, GoesKeeps DEF AskToggle, AskDelete

LEMMA EndsKeeps ==
  ASSUME ChecklistInv, NEW r \in Requests, Ends(r)
  PROVE  ChecklistInv'
BY IdleHolds, GoesKeeps DEF Ends

\* A rank that no other row has, or whose row is marked, ties with none.
LEMMA TiesKeep ==
  ASSUME TypeOK, TiesAreRaces, NEW b, NEW rows, OthersStay(bites, rows, b), NEW marked,
         raced \ {b} \subseteq marked,
         b \in DOMAIN rows /\ b \notin marked =>
           \/ \A c \in DOMAIN bites \ {b} : bites[c].rank # rows[b].rank
           \/ b \in DOMAIN bites /\ b \notin raced /\ bites[b].rank = rows[b].rank,
         NEW c \in DOMAIN rows, NEW d \in DOMAIN rows, c # d, rows[c].rank = rows[d].rank
  PROVE  c \in marked \/ d \in marked
BY DEF OthersStay, TiesAreRaces

LEMMA AddInsertKeeps ==
  ASSUME ChecklistInv, NEW r \in Requests, NEW b \in Bites, NEW status \in Statuses,
         AddInsert(r, b, status)
  PROVE  ChecklistInv'
<1> DEFINE p == req[r]
           row == [rank |-> p.rank, status |-> status]
           q == IF p.left = 1 THEN Idle ELSE [p EXCEPT !.at = "add", !.left = @ - 1, !.rank = None]
<1>0. TypeOK /\ TiesAreRaces /\ AsLastMeant
  BY DEF ChecklistInv
<1>1. /\ p.at = "insert" /\ b \notin used /\ bites' = With(bites, b, row)
      /\ used' = used \cup {b} /\ Writes(r, q, b, TRUE) /\ raced' = Mark(raced, b, p.stale)
      /\ meant' = With(meant, b, status) /\ clobbered' = clobbered
  BY DEF AddInsert
<1>2. /\ p \in Adds /\ p.rank \in Keys
      /\ ~ p.stale => \A c \in DOMAIN bites : bites[c].rank < p.rank
  <2>1. p \in Adds /\ Holds(p, bites, used)
    BY <1>1, RequestKinds DEF ChecklistInv, TypeOK
  <2> QED
    BY <1>1, <2>1 DEF Holds, HoldsRank
<1>3. q \in Request /\ Holds(q, bites', used')
  <2>1. CASE p.left = 1
    BY <2>1, IdleHolds
  <2>2. CASE p.left # 1
    <3>0. p.left \in 1..MaxBatch /\ p.left - 1 \in 1..MaxBatch
      BY <1>2, <2>2, ChecklistAssumption DEF Adds
    <3> HIDE DEF p
    <3>1. q \in Adds /\ q.at = "add"
      BY <1>2, <2>2, <3>0 DEF Adds
    <3> HIDE DEF q
    <3> QED
      BY <3>1 DEF Request, Holds, HoldsRank, HoldsRow
  <2> QED
    BY <2>1, <2>2
<1> HIDE DEF p, q, row
<1>4. /\ DOMAIN bites' = DOMAIN bites \cup {b} /\ bites'[b] = row
      /\ \A c \in DOMAIN bites : bites'[c] = bites[c]
      /\ OthersStay(bites, bites', b)
      /\ b \notin DOMAIN bites
  <2>1. b \notin DOMAIN bites
    BY <1>0, <1>1 DEF TypeOK
  <2>2. DOMAIN bites' = DOMAIN bites \cup {b} /\ bites'[b] = row
        /\ \A c \in DOMAIN bites : c # b => bites'[c] = bites[c]
    BY <1>1 DEF With
  <2> QED
    BY <2>1, <2>2 DEF OthersStay
<1>5. /\ req' \in [Requests -> Request]
      /\ \A o \in Requests : Holds(req'[o], bites', used')
  BY <1>1, <1>3, <1>4, WritesKeeps
<1>6. TypeOK'
  <2>1. bites' \in [DOMAIN bites' -> Bite]
    <3>1. row \in Bite
      BY <1>2 DEF Bite, row
    <3>2. \A c \in DOMAIN bites' : bites'[c] \in Bite
      BY <1>0, <1>4, <3>1 DEF TypeOK
    <3>3. bites' = [c \in DOMAIN bites' |-> bites'[c]]
      BY <1>1 DEF With
    <3> QED
      BY <3>2, <3>3
  <2>2. meant' \in [used' -> Statuses \cup {Gone}]
    BY <1>0, <1>1 DEF TypeOK, With
  <2>3. raced' \subseteq used' /\ clobbered' \subseteq used'
    BY <1>0, <1>1 DEF TypeOK, Mark
  <2> QED
    BY <1>0, <1>1, <1>4, <1>5, <2>1, <2>2, <2>3 DEF TypeOK
<1>7. TiesAreRaces'
  <2>1. p.stale \in BOOLEAN /\ (b \in raced' <=> p.stale) /\ raced \ {b} \subseteq raced'
    BY <1>1, <1>2 DEF Adds, Mark
  <2>2. b \notin raced' => \A c \in DOMAIN bites \ {b} : bites[c].rank # bites'[b].rank
    <3>1. \A c \in DOMAIN bites : bites[c].rank \in Int
      BY <1>0, KeysAreIntegers DEF TypeOK, Bite
    <3> QED
      BY <1>2, <1>4, <2>1, <3>1, KeysAreIntegers DEF row
  <2> QED
    BY <1>0, <1>4, <2>1, <2>2, TiesKeep DEF TiesAreRaces
<1>8. AsLastMeant'
  <2>0. DOMAIN meant = used
    BY <1>0 DEF TypeOK
  <2>1. meant'[b] = status /\ \A c \in used : meant'[c] = meant[c]
    BY <1>1, <2>0 DEF With
  <2> QED
    BY <1>0, <1>1, <1>4, <2>1, ChecklistAssumption DEF AsLastMeant, row
<1> QED
  BY <1>5, <1>6, <1>7, <1>8 DEF ChecklistInv

LEMMA ToggleSaveKeeps ==
  ASSUME ChecklistInv, NEW r \in Requests, ToggleSave(r)
  PROVE  ChecklistInv'
<1> DEFINE p == req[r]
           b == p.bite
<1>0. TypeOK /\ TiesAreRaces /\ AsLastMeant
  BY DEF ChecklistInv
<1>1. /\ p.at = "toggle" /\ bites' = Ticked(b, p.status) /\ Writes(r, Idle, b, FALSE)
      /\ used' = used /\ raced' = raced
      /\ b \in DOMAIN bites => meant' = With(meant, b, p.status) /\ clobbered' = clobbered \ {b}
      /\ b \notin DOMAIN bites => meant' = meant /\ clobbered' = clobbered
  BY DEF ToggleSave
<1>2. b \in Bites /\ p.status \in Statuses /\ b \in used
  <2>1. p \in Ticks /\ Holds(p, bites, used)
    BY <1>1, RequestKinds DEF ChecklistInv, TypeOK
  <2> QED
    BY <1>1, <2>1 DEF Ticks, Holds, HoldsRow
<1> HIDE DEF p, b
<1>3. /\ DOMAIN bites' = DOMAIN bites
      /\ bites' \in [DOMAIN bites -> Bite]
      /\ \A c \in DOMAIN bites : bites'[c].rank = bites[c].rank
      /\ \A c \in DOMAIN bites : c # b => bites'[c] = bites[c]
      /\ b \in DOMAIN bites => bites'[b].status = p.status
  <2>1. \A c \in DOMAIN bites : bites[c] \in Bite
    BY <1>0 DEF TypeOK
  <2>2. bites = [c \in DOMAIN bites |-> bites[c]]
    BY <1>0 DEF TypeOK
  <2>3. CASE b \notin DOMAIN bites
    BY <1>1, <2>1, <2>2, <2>3 DEF Ticked
  <2>4. CASE b \in DOMAIN bites
    <3>1. bites' = [bites EXCEPT ![b] = [bites[b] EXCEPT !.status = p.status]]
      BY <1>1, <2>4 DEF Ticked
    <3> DEFINE row == [bites[b] EXCEPT !.status = p.status]
    <3>2. row \in Bite /\ row.rank = bites[b].rank /\ row.status = p.status
      BY <1>2, <2>1, <2>4 DEF Bite
    <3> HIDE DEF row
    <3>3. bites' = [bites EXCEPT ![b] = row]
      BY <3>1 DEF row
    <3> QED
      BY <2>1, <2>2, <2>4, <3>2, <3>3
  <2> QED
    BY <2>3, <2>4
<1>4. OthersStay(bites, bites', b) /\ SameRanks(bites, bites')
  BY <1>3 DEF OthersStay, SameRanks
<1>5. /\ req' \in [Requests -> Request]
      /\ \A o \in Requests : Holds(req'[o], bites', used')
  BY <1>1, <1>4, WritesKeeps, IdleHolds
<1>6. TypeOK'
  <2>1. bites' \in [DOMAIN bites' -> Bite]
    BY <1>3
  <2>2. meant' \in [used' -> Statuses \cup {Gone}] /\ clobbered' \subseteq used'
    BY <1>0, <1>1, <1>2 DEF TypeOK, With
  <2> QED
    BY <1>0, <1>1, <1>3, <1>5, <2>1, <2>2 DEF TypeOK
<1>7. TiesAreRaces'
  BY <1>0, <1>1, <1>3 DEF TiesAreRaces
<1>8. AsLastMeant'
  <2>1. CASE b \notin DOMAIN bites
    BY <1>0, <1>1, <1>3, <2>1 DEF AsLastMeant
  <2>2. CASE b \in DOMAIN bites
    <3>0. DOMAIN meant = used
      BY <1>0 DEF TypeOK
    <3>1. meant'[b] = p.status /\ \A c \in used : c # b => meant'[c] = meant[c]
      BY <1>1, <2>2, <3>0 DEF With
    <3> QED
      BY <1>0, <1>1, <1>2, <1>3, <2>2, <3>1, ChecklistAssumption DEF AsLastMeant
  <2> QED
    BY <2>1, <2>2
<1> QED
  BY <1>5, <1>6, <1>7, <1>8 DEF ChecklistInv

LEMMA DeleteKeeps ==
  ASSUME ChecklistInv, NEW r \in Requests, Delete(r)
  PROVE  ChecklistInv'
<1> DEFINE p == req[r]
           b == p.bite
<1>0. TypeOK /\ TiesAreRaces /\ AsLastMeant
  BY DEF ChecklistInv
<1>1. /\ p.at = "delete" /\ bites' = Without(bites, b) /\ Writes(r, Idle, b, TRUE)
      /\ used' = used /\ meant' = With(meant, b, Gone)
      /\ clobbered' = clobbered \ {b} /\ raced' = raced \ {b}
  BY DEF Delete
<1>2. b \in used
  BY <1>1 DEF ChecklistInv, Holds, HoldsRow
<1> HIDE DEF p, b
<1>3. /\ DOMAIN bites' = DOMAIN bites \ {b}
      /\ \A c \in DOMAIN bites' : bites'[c] = bites[c]
  BY <1>1, WithoutIs
<1>4. OthersStay(bites, bites', b)
  BY <1>3 DEF OthersStay
<1>5. /\ req' \in [Requests -> Request]
      /\ \A o \in Requests : Holds(req'[o], bites', used')
  BY <1>1, <1>4, WritesKeeps, IdleHolds
<1>6. TypeOK'
  <2>1. bites' \in [DOMAIN bites' -> Bite]
    <3>1. bites' = [c \in DOMAIN bites' |-> bites'[c]]
      BY <1>1 DEF Without
    <3> QED
      BY <1>0, <1>3, <3>1 DEF TypeOK
  <2>2. meant' \in [used' -> Statuses \cup {Gone}]
    BY <1>0, <1>1, <1>2 DEF TypeOK, With
  <2> QED
    BY <1>0, <1>1, <1>3, <1>5, <2>1, <2>2 DEF TypeOK
<1>7. TiesAreRaces'
  BY <1>0, <1>1, <1>3 DEF TiesAreRaces
<1>8. AsLastMeant'
  <2>0. DOMAIN meant = used
    BY <1>0 DEF TypeOK
  <2>1. meant'[b] = Gone /\ \A c \in used : c # b => meant'[c] = meant[c]
    BY <1>1, <2>0 DEF With
  <2> QED
    BY <1>0, <1>1, <1>3, <2>1 DEF AsLastMeant
<1> QED
  BY <1>5, <1>6, <1>7, <1>8 DEF ChecklistInv

\* The whole row of a copy is written back.
LEMMA EditSaveKeeps ==
  ASSUME ChecklistInv, NEW r \in Requests, EditSave(r)
  PROVE  ChecklistInv'
<1> DEFINE p == req[r]
           b == p.bite
           row == Edited(p)
           moved == b \notin DOMAIN bites \/ bites[b].rank # p.copy.rank
<1>0. TypeOK /\ TiesAreRaces /\ AsLastMeant
  BY DEF ChecklistInv
<1>1. /\ p.at = "save" /\ bites' = With(bites, b, row) /\ Writes(r, Idle, b, moved)
      /\ raced' = (IF moved THEN Mark(raced, b, p.stale) ELSE raced)
      /\ meant' = (IF p.status = Keep THEN meant ELSE With(meant, b, p.status))
      /\ clobbered' = Mark(clobbered, b, p.old \/ (b \in clobbered /\ p.status = Keep))
      /\ used' = used
  BY DEF EditSave
<1>2. p \in Edits /\ Holds(p, bites, used)
  BY <1>1, RequestKinds DEF ChecklistInv, TypeOK
<1>3. /\ b \in used /\ b \in Bites /\ p.stale \in BOOLEAN /\ p.old \in BOOLEAN
      /\ p.status \in Statuses \cup {Keep}
      /\ ~ p.old => b \in DOMAIN bites /\ bites[b].status = p.copy.status
      /\ ~ p.stale /\ moved => \A c \in DOMAIN bites : bites[c].rank # p.copy.rank
  <2>1. ~ p.stale /\ moved => Stands(p, bites)
    BY <1>1, <1>2 DEF Holds, HoldsRank
  <2> QED
    BY <1>1, <1>2, <2>1 DEF Holds, HoldsRow, Edits, Stands, RanksOf
<1>4. /\ row \in Bite /\ row.rank = p.copy.rank
      /\ row.status = IF p.status = Keep THEN p.copy.status ELSE p.status
  <2>1. p.copy \in Bite
    BY <1>2 DEF Edits
  <2> QED
    BY <1>3, <2>1 DEF Edited, Bite
<1> HIDE DEF p, b, row
<1>5. /\ DOMAIN bites' = DOMAIN bites \cup {b} /\ bites'[b] = row
      /\ \A c \in DOMAIN bites : c # b => bites'[c] = bites[c]
  BY <1>1 DEF With
<1>6. /\ moved \in BOOLEAN /\ OthersStay(bites, bites', b)
      /\ ~ moved => b \in DOMAIN bites /\ SameRanks(bites, bites')
  BY <1>4, <1>5 DEF OthersStay, SameRanks
<1>7. /\ req' \in [Requests -> Request]
      /\ \A o \in Requests : Holds(req'[o], bites', used')
  BY <1>1, <1>6, WritesKeeps, IdleHolds
<1>8. TypeOK'
  <2>1. bites' \in [DOMAIN bites' -> Bite]
    <3>1. \A c \in DOMAIN bites' : bites'[c] \in Bite
      BY <1>0, <1>4, <1>5 DEF TypeOK
    <3>2. bites' = [c \in DOMAIN bites' |-> bites'[c]]
      BY <1>1 DEF With
    <3> QED
      BY <3>1, <3>2
  <2>2. meant' \in [used' -> Statuses \cup {Gone}]
    BY <1>0, <1>1, <1>3 DEF TypeOK, With
  <2>3. raced' \subseteq used' /\ clobbered' \subseteq used'
    BY <1>0, <1>1, <1>3 DEF TypeOK, Mark
  <2> QED
    BY <1>0, <1>1, <1>3, <1>5, <1>7, <2>1, <2>2, <2>3 DEF TypeOK
<1>9. TiesAreRaces'
  <2>1. raced \ {b} \subseteq raced'
    BY <1>1 DEF Mark
  <2>2. b \notin raced' =>
           \/ \A c \in DOMAIN bites \ {b} : bites[c].rank # bites'[b].rank
           \/ b \in DOMAIN bites /\ b \notin raced /\ bites[b].rank = bites'[b].rank
    <3>1. CASE moved
      BY <1>1, <1>3, <1>4, <1>5, <3>1 DEF Mark
    <3>2. CASE ~ moved
      BY <1>1, <1>4, <1>5, <3>2
    <3> QED
      BY <3>1, <3>2
  <2> QED
    BY <1>0, <1>6, <2>1, <2>2, TiesKeep DEF TiesAreRaces
<1>10. AsLastMeant'
  <2>0. DOMAIN meant = used
    BY <1>0 DEF TypeOK
  <2>1. /\ \A c \in used : c # b => meant'[c] = meant[c]
        /\ meant'[b] = IF p.status = Keep THEN meant[b] ELSE p.status
    BY <1>1, <2>0 DEF With
  <2>2. /\ \A c \in used : c # b => (c \in clobbered' <=> c \in clobbered)
        /\ b \notin clobbered' => ~ p.old /\ (p.status = Keep => b \notin clobbered)
    BY <1>1, <1>3 DEF Mark
  <2>3. ASSUME NEW c \in used, c # b, c \notin clobbered
        PROVE  IF meant'[c] = Gone THEN c \notin DOMAIN bites'
               ELSE c \in DOMAIN bites' /\ bites'[c].status = meant'[c]
    BY <1>0, <1>5, <2>1, <2>3 DEF AsLastMeant
  <2>4. ASSUME b \notin clobbered'
        PROVE  meant'[b] # Gone /\ bites'[b].status = meant'[b]
    <3>1. ~ p.old /\ b \in DOMAIN bites /\ bites[b].status = p.copy.status
      BY <1>3, <2>2, <2>4
    <3>2. CASE p.status = Keep
      BY <1>0, <1>3, <1>4, <1>5, <2>1, <2>2, <2>4, <3>1, <3>2 DEF AsLastMeant
    <3>3. CASE p.status # Keep
      BY <1>3, <1>4, <1>5, <2>1, <3>3, ChecklistAssumption
    <3> QED
      BY <3>2, <3>3
  <2> QED
    BY <1>1, <1>5, <2>2, <2>3, <2>4 DEF AsLastMeant
<1> QED
  BY <1>7, <1>8, <1>9, <1>10 DEF ChecklistInv

LEMMA ChecklistInit == Init => ChecklistInv
<1> SUFFICES ASSUME Init PROVE ChecklistInv
  OBVIOUS
<1>1. TypeOK
  BY IdleHolds DEF Init, TypeOK
<1>2. TiesAreRaces /\ AsLastMeant
  BY DEF Init, TiesAreRaces, AsLastMeant
<1>3. \A r \in Requests : Holds(req[r], bites, used)
  BY IdleHolds DEF Init
<1> QED
  BY <1>1, <1>2, <1>3 DEF ChecklistInv

LEMMA ChecklistStep == ChecklistInv /\ [Next]_vars => ChecklistInv'
<1> SUFFICES ASSUME ChecklistInv, [Next]_vars PROVE ChecklistInv'
  OBVIOUS
<1>1. CASE UNCHANGED vars
  BY <1>1 DEF vars, ChecklistInv, TypeOK, TiesAreRaces, AsLastMeant
<1>2. ASSUME NEW r \in Requests, AddLook(r) \/ EditNear(r) \/ EditPlace(r) \/ EditSave(r)
                                 \/ ToggleSave(r) \/ Delete(r) \/ Ends(r)
      PROVE  ChecklistInv'
  BY <1>2, AddLookKeeps, EditNearKeeps, EditPlaceKeeps, EditSaveKeeps, ToggleSaveKeeps,
     DeleteKeeps, EndsKeeps
<1> QED
  BY <1>1, <1>2, AskAddKeeps, AddInsertKeeps, AskTickKeeps, AskEditKeeps DEF Next

\* Type invariant of the steps and of the requests on them.
THEOREM ChecklistTypeCorrect == Spec => []TypeOK
<1>1. ChecklistInv => TypeOK
  BY DEF ChecklistInv
<1> QED
  BY <1>1, ChecklistInit, ChecklistStep, PTL DEF Spec

\* Two steps of a slice have one rank only if one of them was placed in a race with
\* another write of a rank (ranking_helpers.py:4-21).
THEOREM TiesComeFromRaces == Spec => []TiesAreRaces
<1>1. ChecklistInv => TiesAreRaces
  BY DEF ChecklistInv
<1> QED
  BY <1>1, ChecklistInit, ChecklistStep, PTL DEF Spec

\* A step is what the last request that said so meant it to be, unless an update_bite
\* has written an old copy over it (bites.py:68-87).
THEOREM StepsAreAsMeant == Spec => []AsLastMeant
<1>1. ChecklistInv => AsLastMeant
  BY DEF ChecklistInv
<1> QED
  BY <1>1, ChecklistInit, ChecklistStep, PTL DEF Spec

\* What a step does to a request that is not its own.
LEMMA OthersWait ==
  ASSUME TypeOK, NEW r \in Requests, NEW o \in Requests, o # r, NEW q, NEW b, NEW moved \in BOOLEAN,
         Goes(o, q) \/ Writes(o, q, b, moved)
  PROVE  req'[r].at = req[r].at
<1>0. req \in [Requests -> Request]
  BY DEF TypeOK
<1>1. CASE Goes(o, q)
  BY <1>0, <1>1 DEF Goes
<1>2. CASE Writes(o, q, b, moved)
  <2>1. req'[r] = Aged(req[r], b, moved)
    BY <1>2 DEF Writes
  <2>2. Aged(req[r], b, moved).at = req[r].at
    <3>1. req[r] \in Request /\ req[r].at \in {"idle", "add", "insert", "near", "place", "save",
                                               "toggle", "delete"}
      BY <1>0, RequestKinds
    <3>2. CASE req[r].at \in {"add", "insert"}
      BY <3>1, <3>2, RequestKinds DEF Aged, Adds
    <3>3. CASE req[r].at \in {"near", "place", "save"}
      BY <3>1, <3>3, RequestKinds DEF Aged, Edits
    <3> QED
      BY <3>1, <3>2, <3>3 DEF Aged
  <2> QED
    BY <2>1, <2>2
<1> QED
  BY <1>1, <1>2

\* A step is some request's, and no other request gets any further by it.
LEMMA OneAtATime ==
  ASSUME TypeOK, Next
  PROVE  \E o \in Requests :
           /\ \/ \E b \in Bites, status \in Statuses : AddInsert(o, b, status)
              \/ used' = used /\ EditSave(o)
              \/ used' = used /\ req[o].at # "save"
              \/ used' = used /\ bites' = bites
           /\ \A r \in Requests \ {o} : req'[r].at = req[r].at
<1>1. PICK o \in Requests :
        \/ \E n \in 1..MaxBatch : AskAdd(o, n)
        \/ AddLook(o) \/ EditNear(o) \/ EditPlace(o) \/ EditSave(o)
        \/ ToggleSave(o) \/ Delete(o) \/ Ends(o)
        \/ \E b \in Bites, status \in Statuses : AddInsert(o, b, status)
        \/ \E b \in Bites : AskToggle(o, b) \/ AskDelete(o, b)
        \/ \E b \in Bites, status \in Statuses \cup {Keep}, side \in {"before", "after", "stay"},
              near \in Bites \cup {None} : AskEdit(o, b, status, side, near)
  BY DEF Next
<1>2. \E q, b : \E moved \in BOOLEAN : Goes(o, q) \/ Writes(o, q, b, moved)
  <2>1. CASE \E q : Goes(o, q)
    BY <2>1
  <2>2. CASE ~ \E q : Goes(o, q)
    <3>1. EditSave(o) \/ ToggleSave(o) \/ Delete(o)
          \/ \E b \in Bites, status \in Statuses : AddInsert(o, b, status)
      BY <1>1, <2>2, Zenon
      DEF AskAdd, AddLook, EditNear, EditPlace, Ends, AskToggle, AskDelete, AskEdit
    <3>2. \E q, b, moved : moved \in BOOLEAN /\ Writes(o, q, b, moved)
      BY <3>1, Zenon DEF EditSave, ToggleSave, Delete, AddInsert
    <3> QED
      BY <3>2
  <2> QED
    BY <2>1, <2>2
<1>3. \A r \in Requests \ {o} : req'[r].at = req[r].at
  BY <1>2, OthersWait
<1>4. \/ \E b \in Bites, status \in Statuses : AddInsert(o, b, status)
      \/ used' = used /\ EditSave(o)
      \/ used' = used /\ req[o].at # "save"
      \/ used' = used /\ bites' = bites
  BY <1>1 DEF AskAdd, AddLook, EditNear, EditPlace, EditSave, ToggleSave, Delete, Ends,
              AskToggle, AskDelete, AskEdit
<1> QED
  BY <1>3, <1>4

LEMMA LandStep ==
  ASSUME ChecklistInv, [Next]_vars, NEW r \in Requests, NEW b \in Bites
  PROVE  LandsLast(r, b) /\ LandsBeside(r, b)
<1>0. TypeOK /\ Holds(req[r], bites, used)
  BY DEF ChecklistInv
<1>1. ASSUME req[r].at = "insert", ~ req[r].stale, b \in used' \ used, req'[r].at # "insert",
             NEW c \in DOMAIN bites
      PROVE  InFront(bites', c, b)
  <2>1. Next
    BY <1>1 DEF vars
  <2>2. PICK status \in Statuses : AddInsert(r, b, status)
    <3>1. PICK o \in Requests :
            /\ \/ \E d \in Bites, status \in Statuses : AddInsert(o, d, status)
               \/ used' = used
            /\ \A s \in Requests \ {o} : req'[s].at = req[s].at
      BY <1>0, <2>1, OneAtATime
    <3>2. o = r
      BY <1>1, <3>1
    <3>3. PICK d \in Bites, status \in Statuses : AddInsert(r, d, status)
      BY <1>1, <3>1, <3>2
    <3>4. d = b
      BY <1>1, <3>3 DEF AddInsert
    <3> QED
      BY <3>3, <3>4
  <2>3. bites' = With(bites, b, [rank |-> req[r].rank, status |-> status]) /\ b \notin used
    BY <2>2 DEF AddInsert
  <2>4. bites'[b].rank = req[r].rank /\ bites'[c] = bites[c]
    BY <1>0, <1>1, <2>3 DEF With, TypeOK
  <2>5. bites[c].rank < req[r].rank
    BY <1>0, <1>1 DEF Holds, HoldsRank
  <2> QED
    BY <2>4, <2>5 DEF InFront
<1>2. ASSUME req[r].at = "save", ~ req[r].stale, req[r].bite = b, req'[r] = Idle, bites' # bites,
             req[r].near \in DOMAIN bites \ {b}
      PROVE  /\ req[r].side = "after" =>
                  /\ InFront(bites', req[r].near, b)
                  /\ ~\E c \in DOMAIN bites' :
                        InFront(bites', req[r].near, c) /\ InFront(bites', c, b)
             /\ req[r].side = "before" =>
                  /\ InFront(bites', b, req[r].near)
                  /\ ~\E c \in DOMAIN bites' :
                        InFront(bites', b, c) /\ InFront(bites', c, req[r].near)
  <2> DEFINE a == req[r].near
             key == req[r].copy.rank
  <2>1. Next
    BY <1>2 DEF vars
  <2>2. EditSave(r)
    <3>1. PICK o \in Requests :
            /\ \/ \E d \in Bites, status \in Statuses : AddInsert(o, d, status)
               \/ EditSave(o)
               \/ req[o].at # "save"
               \/ bites' = bites
            /\ \A s \in Requests \ {o} : req'[s].at = req[s].at
      BY <1>0, <2>1, OneAtATime
    <3>2. o = r
      BY <1>2, <3>1 DEF Idle
    <3> QED
      BY <1>2, <3>1, <3>2 DEF AddInsert
  <2>3. bites' = With(bites, b, Edited(req[r])) /\ req[r] \in Edits
    BY <1>0, <1>2, <2>2, RequestKinds DEF EditSave, TypeOK
  <2>4. Edited(req[r]).rank = key
    <3>1. req[r].copy \in Bite
      BY <2>3 DEF Edits
    <3> QED
      BY <3>1 DEF Edited, Bite
  <2>5. /\ DOMAIN bites' = DOMAIN bites \cup {b} /\ bites'[b].rank = key
        /\ \A c \in DOMAIN bites : c # b => bites'[c] = bites[c]
    BY <2>3, <2>4 DEF With
  <2>6. /\ key \in Int
        /\ \A c \in DOMAIN bites : bites[c].rank \in Int
    BY <1>0, <2>3, KeysAreIntegers DEF TypeOK, Bite, Edits
  <2>7. req[r].side # "stay" => Stands(req[r], bites)
    BY <1>0, <1>2 DEF Holds, HoldsRank
  <2>8. a \in DOMAIN bites /\ a # b /\ bites'[a] = bites[a]
    BY <1>2, <2>5
  <2> HIDE DEF a, key
  <2> SUFFICES
         /\ req[r].side = "after" =>
              /\ InFront(bites', a, b)
              /\ ~\E c \in DOMAIN bites' : InFront(bites', a, c) /\ InFront(bites', c, b)
         /\ req[r].side = "before" =>
              /\ InFront(bites', b, a)
              /\ ~\E c \in DOMAIN bites' : InFront(bites', b, c) /\ InFront(bites', c, a)
    BY DEF a
  <2>9. CASE req[r].side = "after"
    <3>1. bites[a].rank < key
          /\ ~ \E c \in DOMAIN bites : bites[a].rank < bites[c].rank /\ bites[c].rank < key
      BY <2>7, <2>9 DEF Stands, a, key
    <3> QED
      BY <2>5, <2>6, <2>8, <2>9, <3>1 DEF InFront
  <2>10. CASE req[r].side = "before"
    <3>1. key < bites[a].rank
          /\ ~ \E c \in DOMAIN bites : key < bites[c].rank /\ bites[c].rank < bites[a].rank
      BY <2>7, <2>10 DEF Stands, a, key
    <3> QED
      BY <2>5, <2>6, <2>8, <2>10, <3>1 DEF InFront
  <2> QED
    BY <2>9, <2>10
<1> QED
  BY <1>1, <1>2 DEF LandsLast, LandsBeside

\* A step lands where the request put it, nothing between it and the neighbour it
\* named, and an added one behind all others, unless a rank was written meanwhile
\* (ranking_helpers.py:4-21, bites.py:38-87).
THEOREM StepsLandWhereAsked == Spec => LandsWhereAsked
<1>1. ChecklistInv /\ [Next]_vars =>
        [\A r \in Requests, b \in Bites : LandsLast(r, b) /\ LandsBeside(r, b)]_vars
  BY LandStep
<1> QED
  BY <1>1, ChecklistInit, ChecklistStep, PTL DEF Spec, LandsWhereAsked

-----------------------------------------------------------------------------
\* The batches.  A call that is under way has written the slices it has gone through,
\* and no other, and nothing of them is committed.

Progress(t) ==
  /\ t.left # <<>> /\ Len(t.left) <= Len(t.ids)
  /\ \A j \in 1..Len(t.left) : t.left[j] = t.ids[Len(t.ids) - Len(t.left) + j]
  /\ {e.slice : e \in t.wrote} = {t.ids[i] : i \in 1..(Len(t.ids) - Len(t.left))}
  /\ t.at = "save" => Head(t.left) \in Rows

BatchInv ==
  /\ BatchTypeOK /\ AllOrNothing
  /\ \A c \in Calls : Running(c) => Progress(tx[c])
  /\ \A w \in Writers : /\ tx[w].at = "save" => tx[w].left # <<>>
                        /\ tx[w].at = "new" \/ w \in Sweeps => tx[w].wrote = {}

LEMMA BatchInitInv == BatchInit => BatchInv
<1> SUFFICES ASSUME BatchInit PROVE BatchInv
  OBVIOUS
<1>1. New \in Transaction
  BY DEF New, Transaction, Decisions
<1>2. BatchTypeOK
  BY <1>1 DEF BatchInit, BatchTypeOK, Decisions, New
<1>3. \A w \in Writers : tx[w].at = "new" /\ tx[w].wrote = {}
  BY DEF BatchInit, New
<1> QED
  BY <1>2, <1>3 DEF BatchInit, BatchInv, AllOrNothing, Running, Writers

\* A transaction that goes on without committing.
LEMMA MovesKeeps ==
  ASSUME BatchInv, NEW w \in Writers, NEW t \in Transaction, Moves(w, t),
         \A e \in t.wrote : e.by = w,
         tx[w].at # "done", t.at # "done",
         w \in Calls /\ t.at \in {"load", "save"} => Progress(t),
         t.at = "save" => t.left # <<>>, t.at = "new" \/ w \in Sweeps => t.wrote = {},
         holder' \in [Rows -> Writers \cup {NoOne}], UNCHANGED <<process, statusOf, saved>>
  PROVE  BatchInv'
<1>0. BatchTypeOK /\ AllOrNothing
  BY DEF BatchInv
<1>1. \A v \in Writers : tx'[v] = IF v = w THEN t ELSE tx[v]
  BY <1>0 DEF Moves, BatchTypeOK
<1>2. BatchTypeOK'
  BY <1>0, <1>1 DEF BatchTypeOK, Moves
<1>3. AllOrNothing'
  BY <1>0, <1>1 DEF AllOrNothing, Writers
<1>4. \A c \in Calls : Running(c)' => Progress(tx'[c])
  BY <1>1 DEF BatchInv, Running, Writers
<1>5. \A v \in Writers : /\ tx'[v].at = "save" => tx'[v].left # <<>>
                         /\ tx'[v].at = "new" \/ v \in Sweeps => tx'[v].wrote = {}
  BY <1>1 DEF BatchInv
<1> QED
  BY <1>2, <1>3, <1>4, <1>5 DEF BatchInv

LEMMA RollsBackKeeps ==
  ASSUME BatchInv, NEW w \in Writers, Running(w), RollsBack(w)
  PROVE  BatchInv'
<1>1. AfterFailure(w) \in Transaction /\ AfterFailure(w).at = "failed" /\ AfterFailure(w).wrote = {}
  <2>1. AfterFailure(w) = [at |-> "failed", ids |-> <<>>, left |-> <<>>, to |-> "open",
                           old |-> "open", wrote |-> {}]
    BY DEF AfterFailure, New
  <2> QED
    BY <2>1 DEF Transaction, Decisions
<1>2. holder' \in [Rows -> Writers \cup {NoOne}]
  BY DEF BatchInv, BatchTypeOK, RollsBack, Released
<1>3. tx[w].at # "done"
  BY DEF Running
<1>4. Moves(w, AfterFailure(w)) /\ UNCHANGED <<process, statusOf, saved>>
  BY DEF RollsBack
<1> HIDE DEF AfterFailure
<1> QED
  BY <1>1, <1>2, <1>3, <1>4, MovesKeeps

\* Whom the database aborts is waiting, and so is under way.
LEMMA InCircleIsRunning ==
  ASSUME NEW w \in Writers, InCircle(w)
  PROVE  Running(w)
<1>1. PICK circle \in SUBSET Writers : w \in circle /\ {BlockerOf(v) : v \in circle} = circle
  BY DEF InCircle
<1>2. BlockerOf(w) \in Writers
  BY <1>1
<1>3. NoOne \notin Writers
  BY BatchAssumption DEF Writers
<1> QED
  BY <1>2, <1>3 DEF BlockerOf, Running

LEMMA AskKeeps ==
  ASSUME BatchInv, NEW c \in Calls, NEW ids \in IdLists, NEW to \in Decisions,
         NEW textual \in BOOLEAN, Ask(c, ids, to, textual)
  PROVE  BatchInv'
<1>0. /\ c \in Writers /\ tx[c] \in Transaction /\ tx[c].at = "new" /\ tx[c].wrote = {}
      /\ c \notin Sweeps
      /\ holder \in [Rows -> Writers \cup {NoOne}]
  BY BatchAssumption DEF Writers, BatchInv, BatchTypeOK, Ask
<1>1. ids \in Seq(Rows \cup {Unknown})
  BY BatchAssumption DEF IdLists, SeqOf
<1>2. CASE ~ Accepts(ids, textual)
  <2> DEFINE t == [tx[c] EXCEPT !.at = "failed"]
  <2>1. t \in Transaction /\ t.at = "failed" /\ t.wrote = tx[c].wrote
    BY <1>0 DEF Transaction
  <2>2. Moves(c, t) /\ UNCHANGED <<process, statusOf, holder, saved>>
    BY <1>2 DEF Ask
  <2> HIDE DEF t
  <2> QED
    BY <1>0, <2>1, <2>2, MovesKeeps
<1>3. CASE Accepts(ids, textual)
  <2> DEFINE t == [tx[c] EXCEPT !.at = "load", !.ids = ids, !.left = ids, !.to = to]
  <2>1. /\ t \in Transaction /\ t.at = "load" /\ t.wrote = tx[c].wrote
        /\ t.ids = ids /\ t.left = ids
    BY <1>0, <1>1 DEF Transaction
  <2>2. Moves(c, t) /\ UNCHANGED <<process, statusOf, holder, saved>>
    BY <1>3 DEF Ask
  <2> HIDE DEF t
  <2>3. ids # <<>>
    BY <1>3 DEF Accepts
  <2>4. tx[c].wrote = {}
    BY <1>0
  <2>5. Progress(t)
    BY <1>1, <2>1, <2>3, <2>4 DEF Progress
  <2> QED
    BY <1>0, <2>1, <2>2, <2>3, <2>5, MovesKeeps
<1> QED
  BY <1>2, <1>3

LEMMA SweepKeeps ==
  ASSUME BatchInv, NEW w \in Sweeps, NEW ids \in SetToSeqs(Rows), Sweep(w, ids)
  PROVE  BatchInv'
<1> DEFINE t == [tx[w] EXCEPT !.at = "save", !.ids = ids, !.left = ids]
<1>0. /\ w \in Writers /\ tx[w] \in Transaction /\ tx[w].at = "new" /\ tx[w].wrote = {}
      /\ w \notin Calls /\ holder \in [Rows -> Writers \cup {NoOne}]
      /\ ids # <<>> /\ Moves(w, t) /\ UNCHANGED <<process, statusOf, holder, saved>>
  BY BatchAssumption DEF Writers, BatchInv, BatchTypeOK, Sweep
<1>1. ids \in Seq(Rows \cup {Unknown})
  <2>1. Cardinality(Rows) \in Nat /\ ids \in [1..Cardinality(Rows) -> Rows]
    BY BatchAssumption, FS_CardinalityType DEF SetToSeqs
  <2> QED
    BY <2>1
<1>2. t \in Transaction /\ t.at = "save" /\ t.wrote = {} /\ t.left = ids
  BY <1>0, <1>1 DEF Transaction
<1> HIDE DEF t
<1> QED
  BY <1>0, <1>2, MovesKeeps

LEMMA LoadKeeps ==
  ASSUME BatchInv, NEW c \in Writers, Load(c)
  PROVE  BatchInv'
<1> DEFINE s == Head(tx[c].left)
           t == [tx[c] EXCEPT !.at = "save", !.old = statusOf[s]]
<1>0. /\ c \in Calls /\ c \notin Sweeps /\ tx[c] \in Transaction /\ tx[c].at = "load" /\ Running(c)
      /\ Progress(tx[c]) /\ \A e \in tx[c].wrote : e.by = c
      /\ holder \in [Rows -> Writers \cup {NoOne}] /\ statusOf \in [Rows -> Decisions]
  BY BatchAssumption DEF BatchInv, BatchTypeOK, Load, Running
<1>1. CASE s = Unknown
  BY <1>0, <1>1, RollsBackKeeps DEF Load
<1>2. CASE s # Unknown
  <2>1. Moves(c, t) /\ UNCHANGED <<process, statusOf, holder, saved>>
    BY <1>2 DEF Load
  <2>2. s \in Rows
    BY <1>0, <1>2 DEF Transaction, Progress
  <2>3. /\ t \in Transaction /\ t.at = "save" /\ t.wrote = tx[c].wrote /\ t.left = tx[c].left
        /\ t.ids = tx[c].ids
    BY <1>0, <2>2 DEF Transaction
  <2> HIDE DEF t
  <2>4. Progress(t)
    BY <1>0, <2>2, <2>3 DEF Progress
  <2>5. t.left # <<>>
    BY <1>0, <2>3 DEF Progress
  <2> QED
    BY <1>0, <2>1, <2>3, <2>4, <2>5, MovesKeeps
<1> QED
  BY <1>1, <1>2

\* What a transaction has written when it has also saved its next row.
LEMMA WrittenIs ==
  ASSUME BatchInv, NEW w \in Writers, tx[w].at = "save"
  PROVE  LET s == Head(tx[w].left) IN
         /\ Written(w, s) \subseteq Row /\ \A e \in Written(w, s) : e.by = w
         /\ w \in Sweeps => Written(w, s) = {}
         /\ w \in Calls => {e.slice : e \in Written(w, s)} = {e.slice : e \in tx[w].wrote} \cup {s}
<1> DEFINE s == Head(tx[w].left)
           e0 == [by |-> w, slice |-> s, event |-> tx[w].old # tx[w].to]
<1>0. tx[w] \in Transaction /\ tx[w].wrote \subseteq Row /\ \A e \in tx[w].wrote : e.by = w
  BY DEF BatchInv, BatchTypeOK, Transaction
<1>1. CASE w \in Sweeps
  BY <1>1, <1>0, BatchAssumption DEF Written, BatchInv
<1>2. CASE w \in Calls
  <2>1. s \in Rows
    BY <1>2 DEF BatchInv, Running, Progress
  <2>2. e0 \in Row /\ e0.by = w /\ e0.slice = s
    BY <2>1 DEF Row
  <2>3. Written(w, s) = tx[w].wrote \cup {e0} /\ w \notin Sweeps
    BY <1>2, BatchAssumption DEF Written
  <2> HIDE DEF e0, s
  <2>4. /\ Written(w, s) \subseteq Row /\ \A e \in Written(w, s) : e.by = w
        /\ {e.slice : e \in Written(w, s)} = {e.slice : e \in tx[w].wrote} \cup {s}
    BY <1>0, <2>2, <2>3
  <2> QED
    BY <1>2, <2>3, <2>4 DEF s
<1> QED
  BY <1>1, <1>2 DEF Writers

\* The rows a call has gone through, with the next.
LEMMA ProgressGoesOn ==
  ASSUME NEW t \in Transaction, Progress(t)
  PROVE  {e.slice : e \in t.wrote} \cup {Head(t.left)}
           = {t.ids[i] : i \in 1..(Len(t.ids) - Len(t.left) + 1)}
<1> DEFINE k == Len(t.ids) - Len(t.left)
<1>1. t.left \in Seq(Rows \cup {Unknown}) /\ t.ids \in Seq(Rows \cup {Unknown}) /\ t.left # <<>>
  BY DEF Transaction, Progress
<1>2. Len(t.left) \in Nat \ {0} /\ k \in Nat
  BY <1>1 DEF Progress
<1>3. Head(t.left) = t.ids[k + 1]
  <2>1. Head(t.left) = t.left[1]
    BY <1>1
  <2>2. 1 \in 1..Len(t.left)
    BY <1>2
  <2>3. t.left[1] = t.ids[k + 1]
    BY <2>2 DEF Progress
  <2> QED
    BY <2>1, <2>3
<1>4. {e.slice : e \in t.wrote} = {t.ids[i] : i \in 1..k}
  BY DEF Progress
<1> HIDE DEF k
<1>5. 1..(k + 1) = 1..k \cup {k + 1}
  BY <1>2
<1>6. {t.ids[i] : i \in 1..(k + 1)} = {t.ids[i] : i \in 1..k} \cup {t.ids[k + 1]}
  BY <1>5
<1> QED
  BY <1>3, <1>4, <1>6 DEF k

LEMMA TailIs ==
  ASSUME NEW S, NEW q \in Seq(S), q # <<>>, Len(q) # 1
  PROVE  /\ Len(q) \in Nat /\ Len(q) >= 2 /\ Tail(q) \in Seq(S) /\ Tail(q) # <<>>
         /\ Len(Tail(q)) = Len(q) - 1
         /\ \A j \in 1..Len(Tail(q)) : Tail(q)[j] = q[j + 1]
<1>1. Len(q) \in Nat /\ Len(q) >= 2
  <2> DEFINE n == Len(q)
  <2>1. n \in Nat /\ n # 0 /\ n # 1
    OBVIOUS
  <2> HIDE DEF n
  <2>2. n >= 2
    BY <2>1
  <2> QED
    BY <2>1, <2>2 DEF n
<1>2. Tail(q) \in Seq(S) /\ Len(Tail(q)) = Len(q) - 1
  BY <1>1
<1> QED
  BY <1>1, <1>2

LEMMA SaveGoesOn ==
  ASSUME BatchInv, NEW w \in Writers, Save(w), Len(tx[w].left) # 1
  PROVE  BatchInv'
<1> DEFINE p == tx[w]
           s == Head(p.left)
           wrote == Written(w, s)
           t == [p EXCEPT !.at = AfterSave(w), !.left = Tail(p.left), !.wrote = wrote]
<1>0. /\ p \in Transaction /\ p.at = "save" /\ p.left # <<>> /\ p.left \in Seq(Rows \cup {Unknown})
      /\ p.ids \in Seq(Rows \cup {Unknown})
      /\ Moves(w, t) /\ holder' = [holder EXCEPT ![s] = w] /\ UNCHANGED <<process, statusOf, saved>>
  BY DEF BatchInv, BatchTypeOK, Transaction, Save, SaveOne
<1>1. /\ wrote \subseteq Row /\ (\A e \in wrote : e.by = w) /\ (w \in Sweeps => wrote = {})
      /\ w \in Calls => {e.slice : e \in wrote} = {e.slice : e \in p.wrote} \cup {s}
  BY <1>0, WrittenIs
<1>2. holder' \in [Rows -> Writers \cup {NoOne}]
  BY <1>0 DEF BatchInv, BatchTypeOK
<1> HIDE DEF wrote
<1>3. /\ Len(p.left) \in Nat /\ Tail(p.left) \in Seq(Rows \cup {Unknown})
      /\ Len(Tail(p.left)) = Len(p.left) - 1 /\ Tail(p.left) # <<>> /\ Len(p.ids) \in Nat
      /\ \A j \in 1..Len(Tail(p.left)) : Tail(p.left)[j] = p.left[j + 1]
  BY <1>0, TailIs
<1>4. /\ t \in Transaction /\ t.at = AfterSave(w) /\ t.wrote = wrote /\ t.left = Tail(p.left)
      /\ t.ids = p.ids
  BY <1>0, <1>1, <1>3 DEF Transaction, AfterSave
<1>5. ASSUME w \in Calls PROVE Progress(t) /\ t.at = "load"
  <2>1. Progress(p)
    BY <1>0, <1>5 DEF BatchInv, Running
  <2>2. {e.slice : e \in wrote} = {p.ids[i] : i \in 1..(Len(p.ids) - Len(p.left) + 1)}
    BY <1>0, <1>1, <1>5, <2>1, ProgressGoesOn
  <2> HIDE DEF t
  <2>3. t.at = "load"
    BY <1>4, <1>5 DEF AfterSave
  <2>4. Len(p.ids) - Len(p.left) + 1 = Len(t.ids) - Len(t.left) /\ Len(t.left) <= Len(t.ids)
    <3>1. Len(p.left) <= Len(p.ids)
      BY <2>1 DEF Progress
    <3>2. Len(t.ids) = Len(p.ids) /\ Len(t.left) = Len(p.left) - 1
      BY <1>3, <1>4
    <3> HIDE DEF p
    <3> QED
      BY <1>3, <3>1, <3>2
  <2>5. \A j \in 1..Len(t.left) : t.left[j] = t.ids[Len(t.ids) - Len(t.left) + j]
    <3> SUFFICES ASSUME NEW j \in 1..Len(t.left)
                 PROVE  t.left[j] = t.ids[Len(t.ids) - Len(t.left) + j]
      OBVIOUS
    <3>1. t.left[j] = p.left[j + 1] /\ j + 1 \in 1..Len(p.left)
      BY <1>3, <1>4
    <3>2. p.left[j + 1] = p.ids[Len(p.ids) - Len(p.left) + (j + 1)]
      BY <2>1, <3>1 DEF Progress
    <3>3. Len(p.ids) - Len(p.left) + (j + 1) = Len(t.ids) - Len(t.left) + j
      <4>1. Len(t.ids) = Len(p.ids) /\ Len(t.left) = Len(p.left) - 1 /\ j \in Int
        BY <1>3, <1>4
      <4> DEFINE m == Len(p.ids)
                 n == Len(p.left)
      <4>2. m \in Nat /\ n \in Nat
        BY <1>3
      <4> HIDE DEF m, n
      <4>3. m - n + (j + 1) = m - (n - 1) + j
        BY <4>1, <4>2
      <4> QED
        BY <4>1, <4>3 DEF m, n
    <3> QED
      BY <1>4, <3>1, <3>2, <3>3
  <2> QED
    BY <1>3, <1>4, <2>2, <2>3, <2>4, <2>5 DEF Progress
<1>6. \A e \in t.wrote : e.by = w
  BY <1>1, <1>4
<1>7. t.at \in {"load", "save"} /\ t.left # <<>> /\ (w \in Sweeps => t.wrote = {})
  BY <1>1, <1>3, <1>4 DEF AfterSave
<1> HIDE DEF t, p
<1> QED
  BY <1>0, <1>2, <1>4, <1>5, <1>6, <1>7, MovesKeeps DEF p

LEMMA SaveCommits ==
  ASSUME BatchInv, NEW w \in Writers, Save(w), Len(tx[w].left) = 1
  PROVE  BatchInv'
<1> DEFINE p == tx[w]
           s == Head(p.left)
           wrote == Written(w, s)
           t == [p EXCEPT !.at = "done", !.left = <<>>, !.wrote = {}]
<1>0. /\ p \in Transaction /\ p.at = "save"
      /\ p.left \in Seq(Rows \cup {Unknown}) /\ p.ids \in Seq(Rows \cup {Unknown})
      /\ Moves(w, t) /\ saved' = saved \cup wrote /\ holder' = Released(w) /\ process' = process
      /\ statusOf' = [r \in Rows |-> IF \E e \in wrote : e.slice = r THEN p.to ELSE statusOf[r]]
      /\ BatchTypeOK /\ AllOrNothing
  BY DEF BatchInv, BatchTypeOK, Transaction, Save, SaveOne, Commits
<1>1. /\ wrote \subseteq Row /\ (\A e \in wrote : e.by = w)
      /\ w \in Calls => {e.slice : e \in wrote} = {e.slice : e \in p.wrote} \cup {s}
  BY <1>0, WrittenIs
<1> HIDE DEF wrote
<1>2. t \in Transaction /\ t.at = "done" /\ t.wrote = {} /\ t.ids = p.ids
  <2>1. <<>> \in Seq(Rows \cup {Unknown}) /\ {} \subseteq Row
    OBVIOUS
  <2> QED
    BY <1>0, <2>1 DEF Transaction
<1> HIDE DEF t
<1>3. \A v \in Writers : tx'[v] = IF v = w THEN t ELSE tx[v]
  BY <1>0 DEF Moves, BatchTypeOK
<1>4. BatchTypeOK'
  <2>1. p.to \in Decisions
    BY <1>0 DEF Transaction
  <2>2. statusOf' \in [Rows -> Decisions] /\ holder' \in [Rows -> Writers \cup {NoOne}]
    BY <1>0, <2>1 DEF BatchTypeOK, Released
  <2>3. tx' \in [Writers -> Transaction]
    BY <1>0, <1>2 DEF Moves, BatchTypeOK
  <2>4. \A v \in Writers : \A e \in tx'[v].wrote : e.by = v
    BY <1>0, <1>2, <1>3 DEF BatchTypeOK
  <2> QED
    BY <1>0, <1>1, <2>2, <2>3, <2>4 DEF BatchTypeOK
<1>5. ASSUME w \in Calls PROVE {e.slice : e \in wrote} = ToSet(t.ids)
  <2>1. Progress(p)
    BY <1>0, <1>5 DEF BatchInv, Running
  <2>2. {e.slice : e \in wrote} = {p.ids[i] : i \in 1..(Len(p.ids) - Len(p.left) + 1)}
    BY <1>0, <1>1, <1>5, <2>1, ProgressGoesOn
  <2>3. Len(p.ids) - Len(p.left) + 1 = Len(p.ids) /\ DOMAIN p.ids = 1..Len(p.ids)
    BY <1>0
  <2> QED
    BY <1>2, <2>2, <2>3 DEF ToSet
<1>6. AllOrNothing'
  <2> SUFFICES ASSUME NEW c \in Calls
               PROVE  LET mine == {e \in saved' : e.by = c} IN
                      /\ tx'[c].at = "done" => {e.slice : e \in mine} = ToSet(tx'[c].ids)
                      /\ tx'[c].at # "done" => mine = {}
    BY DEF AllOrNothing
  <2>1. CASE c = w
    <3>1. {e \in saved : e.by = c} = {}
      BY <1>0, <2>1 DEF AllOrNothing
    <3>2. {e \in saved' : e.by = c} = wrote
      BY <1>0, <1>1, <2>1, <3>1
    <3> QED
      BY <1>2, <1>3, <1>5, <2>1, <3>2
  <2>2. CASE c # w
    <3>1. {e \in saved' : e.by = c} = {e \in saved : e.by = c} /\ tx'[c] = tx[c]
      BY <1>0, <1>1, <1>3, <2>2 DEF Writers
    <3> QED
      BY <1>0, <3>1 DEF AllOrNothing
  <2> QED
    BY <2>1, <2>2
<1>7. \A c \in Calls : Running(c)' => Progress(tx'[c])
  BY <1>2, <1>3 DEF BatchInv, Running, Writers
<1>8. \A v \in Writers : /\ tx'[v].at = "save" => tx'[v].left # <<>>
                         /\ tx'[v].at = "new" \/ v \in Sweeps => tx'[v].wrote = {}
  BY <1>2, <1>3 DEF BatchInv
<1> QED
  BY <1>4, <1>6, <1>7, <1>8 DEF BatchInv

LEMMA BatchStep == BatchInv /\ [BatchNext]_bvars => BatchInv'
<1> SUFFICES ASSUME BatchInv, [BatchNext]_bvars PROVE BatchInv'
  OBVIOUS
<1>1. CASE UNCHANGED bvars
  BY <1>1 DEF bvars, BatchInv, BatchTypeOK, AllOrNothing, Running
<1>2. ASSUME NEW w \in Writers, Load(w) \/ Save(w) \/ DatabaseAborts(w) \/ Dies(w)
      PROVE  BatchInv'
  BY <1>2, LoadKeeps, SaveGoesOn, SaveCommits, RollsBackKeeps, InCircleIsRunning
     DEF DatabaseAborts, Dies
<1> QED
  BY <1>1, <1>2, AskKeeps, SweepKeeps DEF BatchNext, Step

\* Type invariant of the batches and of the rows they lock.
THEOREM BatchTypeCorrect == BatchSpec => []BatchTypeOK
<1>1. BatchInv => BatchTypeOK
  BY DEF BatchInv
<1> QED
  BY <1>1, BatchInitInv, BatchStep, PTL DEF BatchSpec

\* A batch that failed left no trace and a batch that is done wrote every slice it was
\* asked for, however many calls and sweeps meet on the rows (server.py:515-526).
THEOREM BatchesAreAllOrNothing == BatchSpec => []AllOrNothing
<1>1. BatchInv => AllOrNothing
  BY DEF BatchInv
<1> QED
  BY <1>1, BatchInitInv, BatchStep, PTL DEF BatchSpec

=============================================================================
