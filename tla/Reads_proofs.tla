--------------------------- MODULE Reads_proofs ----------------------------
(***************************************************************************)
(* What holds of the screens and what keeps them up to date, for any       *)
(* members, tabs, slices and areas.  The live cursor: no event reaches a   *)
(* tab twice, and as long as rows are committed in the order of their ids  *)
(* a tab misses only what lies at or below the answer to a write of its    *)
(* own.  Home: news is badged once.  The checklist: it never comes back,   *)
(* and hears the agent.  The boards: every slice is on one, and all        *)
(* screens list and count alike.  The export: its zip is whole.            *)
(***************************************************************************)
EXTENDS LiveCursor, HomeVisit, GetStarted, BoardViews, Export, FiniteSetTheorems,
        WellFoundedInduction, TLAPS

-----------------------------------------------------------------------------
(***************************************************************************)
(* Counting and listing.  A claim about all finite sets is proved of the   *)
(* smallest set that would break it; a recursive sum exists because it     *)
(* does for sets of each size.                                             *)
(***************************************************************************)
\* Of natural numbers there is a least.
LEMMA LeastNatural ==
  ASSUME NEW S \in SUBSET Nat, S # {}
  PROVE  \E x \in S : \A y \in S : x <= y
<1>1. PICK x \in S : \A y \in S : ~ (<<y, x>> \in OpToRel(<, Nat))
  BY NatLessThanWellFounded, WFMin, Zenon
<1>2. \A y \in S : ~ (y < x)
  BY <1>1 DEF OpToRel
<1> QED
  BY <1>2

\* Of finite sets there is a smallest: how a claim about all of them is proved.
LEMMA SmallestSet ==
  ASSUME NEW S, IsFiniteSet(S), NEW B \in SUBSET (SUBSET S), B # {}
  PROVE  \E T \in B : \A x \in T : T \ {x} \notin B
<1> DEFINE sizes == {Cardinality(T) : T \in B}
<1>1. \A T \in B : IsFiniteSet(T) /\ Cardinality(T) \in Nat
  BY FS_Subset, FS_CardinalityType
<1>2. sizes \in SUBSET Nat /\ sizes # {}
  BY <1>1
<1>3. PICK n \in sizes : \A m \in sizes : n <= m
  BY <1>2, LeastNatural
<1>4. PICK T \in B : Cardinality(T) = n
  BY <1>3
<1>5. ASSUME NEW x \in T, T \ {x} \in B PROVE FALSE
  <2>1. Cardinality(T \ {x}) = Cardinality(T) - 1
    BY <1>1, FS_RemoveElement
  <2>2. n <= Cardinality(T \ {x})
    BY <1>3, <1>5
  <2> QED
    BY <1>1, <1>4, <2>1, <2>2
<1> QED
  BY <1>4, <1>5

\* The element a fold takes next, and the sum that takes them so.
One(set) == CHOOSE x \in set : TRUE
Sums(iter, S, f) ==
  iter = [s \in SUBSET S |-> IF s = {} THEN 0 ELSE f[One(s)] + iter[s \ {One(s)}]]

\* The recursion by which SumFunction adds up is a function.
LEMMA SumsExist ==
  ASSUME NEW S, IsFiniteSet(S), NEW f
  PROVE  \E iter : Sums(iter, S, f)
<1> DEFINE Small(n) == {s \in SUBSET S : Cardinality(s) <= n}
           Step(g, n) == [s \in Small(n) |-> IF s = {} THEN 0 ELSE f[One(s)] + g[s \ {One(s)}]]
           Bad == {n \in Nat : ~ \E g : g = Step(g, n)}
<1>0. \A s \in SUBSET S : IsFiniteSet(s) /\ Cardinality(s) \in Nat
  BY FS_Subset, FS_CardinalityType
<1>1. \A s \in SUBSET S : s # {} => /\ One(s) \in s /\ s \ {One(s)} \in SUBSET S
                                    /\ Cardinality(s \ {One(s)}) = Cardinality(s) - 1
  BY <1>0, FS_RemoveElement DEF One
<1>2. Bad = {}
  <2> SUFFICES ASSUME Bad # {} PROVE FALSE
    OBVIOUS
  <2>1. PICK n \in Bad : \A m \in Bad : n <= m
    BY LeastNatural
  <2>2. CASE n = 0
    <3>1. Small(n) = {{}}
      BY <1>0, <2>2, FS_EmptySet
    <3>2. [s \in Small(n) |-> 0] = Step([s \in Small(n) |-> 0], n)
      BY <3>1
    <3> QED
      BY <2>1, <3>2
  <2>3. CASE n # 0
    <3>1. n - 1 \in Nat /\ n \in Nat /\ ~ (n <= n - 1)
      BY <2>3
    <3>2. n - 1 \notin Bad
      BY <2>1, <3>1
    <3>3. PICK g : g = Step(g, n - 1)
      BY <3>1, <3>2
    <3> DEFINE h == Step(g, n)
    <3>4. \A s \in Small(n) : s # {} => s \ {One(s)} \in Small(n - 1)
      BY <1>0, <1>1, <3>1
    <3>5. \A s \in Small(n - 1) : s \in Small(n)
      BY <1>0, <3>1
    <3>6. \A s \in Small(n - 1) : h[s] = g[s]
      BY <3>3, <3>5
    <3>7. h = Step(h, n)
      BY <3>4, <3>5, <3>6
    <3> QED
      BY <2>1, <3>7
  <2> QED
    BY <2>2, <2>3
<1>3. PICK g : g = Step(g, Cardinality(S))
  BY <1>0, <1>2
<1>4. Small(Cardinality(S)) = SUBSET S
  BY FS_Subset
<1>5. Sums(g, S, f)
  BY <1>3, <1>4 DEF Sums
<1> QED
  BY <1>5
 
\* The sizes of sets that have nothing in common add up to the size of their union.
LEMMA SizesAddUp ==
  ASSUME NEW S, IsFiniteSet(S), NEW F, NEW f, NEW iter, Sums(iter, S, f),
         \A a \in S : IsFiniteSet(F[a]) /\ f[a] = Cardinality(F[a]),
         \A a, b \in S : a # b => F[a] \cap F[b] = {}
  PROVE  iter[S] = Cardinality(UNION {F[a] : a \in S})
<1> DEFINE Of(T) == UNION {F[a] : a \in T}
           Bad == {T \in SUBSET S : ~ (IsFiniteSet(Of(T)) /\ iter[T] = Cardinality(Of(T)))}
<1>1. Bad = {}
  <2> SUFFICES ASSUME Bad # {} PROVE FALSE
    OBVIOUS
  <2>1. PICK T \in Bad : \A x \in T : T \ {x} \notin Bad
    BY SmallestSet
  <2>2. CASE T = {}
    <3>1. Of(T) = {} /\ iter[T] = 0
      BY <2>2 DEF Sums
    <3> QED
      BY <2>1, <3>1, FS_EmptySet
  <2>3. CASE T # {}
    <3> DEFINE x == One(T)
               U == T \ {x}
    <3>1. x \in T /\ x \in S /\ T = U \cup {x} /\ U \in SUBSET S
      BY <2>3 DEF One
    <3>2. IsFiniteSet(Of(U)) /\ iter[U] = Cardinality(Of(U))
      BY <2>1, <3>1
    <3>3. iter[T] = Cardinality(F[x]) + iter[U]
      BY <2>3, <3>1 DEF Sums
    <3> HIDE DEF x, U
    <3>4. Of(T) = F[x] \cup Of(U)
      BY <3>1
    <3>5. F[x] \cap Of(U) = {}
      <4>1. x \notin U
        BY DEF U
      <4> QED
        BY <3>1, <4>1
    <3>6. IsFiniteSet(F[x])
      BY <3>1
    <3> HIDE DEF Of
    <3>7. /\ IsFiniteSet(Of(T))
          /\ Cardinality(Of(T)) =
               Cardinality(F[x]) + Cardinality(Of(U)) - Cardinality(F[x] \cap Of(U))
      <4> DEFINE A == F[x]
                 B == Of(U)
      <4>1. IsFiniteSet(A) /\ IsFiniteSet(B) /\ Of(T) = A \cup B
        BY <3>2, <3>4, <3>6
      <4> HIDE DEF A, B
      <4>2. /\ IsFiniteSet(A \cup B)
            /\ Cardinality(A \cup B) = Cardinality(A) + Cardinality(B) - Cardinality(A \cap B)
        BY <4>1, FS_Union
      <4> QED
        BY <4>1, <4>2 DEF A, B
    <3>8. /\ Cardinality(F[x] \cap Of(U)) = 0 /\ Cardinality(F[x]) \in Nat
          /\ Cardinality(Of(U)) \in Nat
      BY <3>2, <3>5, <3>6, FS_EmptySet, FS_CardinalityType
    <3>9. Cardinality(Of(T)) = iter[T]
      BY <3>2, <3>3, <3>7, <3>8
    <3> QED
      BY <2>1, <3>7, <3>9 DEF Of
  <2> QED
    BY <2>2, <2>3
<1> QED
  BY <1>1

\* ... and SumFunction is that sum.
LEMMA SumOfSizes ==
  ASSUME NEW S, IsFiniteSet(S), NEW F, NEW f, DOMAIN f = S,
         \A a \in S : IsFiniteSet(F[a]) /\ f[a] = Cardinality(F[a]),
         \A a, b \in S : a # b => F[a] \cap F[b] = {}
  PROVE  SumFunction(f) = Cardinality(UNION {F[a] : a \in S})
<1> DEFINE sum == CHOOSE iter : Sums(iter, S, f)
<1>1. SumFunction(f) = sum[S]
  BY DEF SumFunction, SumFunctionOnSet, FoldFunctionOnSet, MapThenFoldSet, Sums, One
<1>2. Sums(sum, S, f)
  BY SumsExist
<1> QED
  BY <1>1, <1>2, SizesAddUp

\* R, a set of pairs, is the order.
SortedBy(seq, R) == \A i, j \in DOMAIN seq : i < j => <<seq[i], seq[j]>> \in R

\* What a list of a set is: as long as the set, with each element in one place.
LEMMA Listing ==
  ASSUME NEW S, IsFiniteSet(S), NEW seq \in SetToSeqs(S)
  PROVE  /\ DOMAIN seq = 1..Cardinality(S) /\ seq \in [DOMAIN seq -> S]
         /\ \A i, j \in DOMAIN seq : i # j => seq[i] # seq[j]
         /\ \A x \in S : \E i \in DOMAIN seq : seq[i] = x
<1>1. /\ seq \in [1..Cardinality(S) -> S]
      /\ \A i, j \in 1..Cardinality(S) : i # j => seq[i] # seq[j]
  BY DEF SetToSeqs
<1>2. Cardinality(S) \in Nat
  BY FS_CardinalityType
<1>3. IsFiniteSet(1..Cardinality(S)) /\ Cardinality(1..Cardinality(S)) = Cardinality(S)
  BY <1>2, FS_Interval
<1>4. seq \in Injection(1..Cardinality(S), S)
  BY <1>1 DEF Injection, IsInjective
<1>5. seq \in Surjection(1..Cardinality(S), S)
  BY <1>3, <1>4, FS_Injection
<1> QED
  BY <1>1, <1>5 DEF Surjection

\* Of a finite set with a total order some element is the last.
LEMMA HasLast ==
  ASSUME NEW S, IsFiniteSet(S), S # {}, NEW R,
         \A x, y \in S : x # y => <<x, y>> \in R \/ <<y, x>> \in R,
         \A x, y, z \in S : <<x, y>> \in R /\ <<y, z>> \in R => <<x, z>> \in R
  PROVE  \E m \in S : \A y \in S \ {m} : <<y, m>> \in R
<1> DEFINE Bad == {T \in SUBSET S : T # {} /\ ~ \E m \in T : \A y \in T \ {m} : <<y, m>> \in R}
<1>1. Bad = {}
  <2> SUFFICES ASSUME Bad # {} PROVE FALSE
    OBVIOUS
  <2>1. PICK T \in Bad : \A x \in T : T \ {x} \notin Bad
    BY SmallestSet
  <2>2. PICK x \in T : TRUE
    BY <2>1
  <2>3. CASE T \ {x} = {}
    BY <2>1, <2>2, <2>3
  <2>4. CASE T \ {x} # {}
    <3>1. PICK m \in T \ {x} : \A y \in (T \ {x}) \ {m} : <<y, m>> \in R
      BY <2>1, <2>4
    <3>2. CASE <<x, m>> \in R
      <4>1. \A y \in T \ {m} : <<y, m>> \in R
        BY <3>1, <3>2
      <4> QED
        BY <2>1, <3>1, <4>1
    <3>3. CASE <<m, x>> \in R
      <4>1. \A y \in T \ {x} : <<y, x>> \in R
        BY <2>1, <3>1, <3>3
      <4> QED
        BY <2>1, <4>1
    <3> QED
      BY <2>1, <2>2, <3>1, <3>2, <3>3
  <2> QED
    BY <2>3, <2>4
<1> QED
  BY <1>1

\* A finite set with a total order can be listed in it ...
LEMMA SortedExists ==
  ASSUME NEW S, IsFiniteSet(S), NEW R,
         \A x, y \in S : x # y => <<x, y>> \in R \/ <<y, x>> \in R,
         \A x, y, z \in S : <<x, y>> \in R /\ <<y, z>> \in R => <<x, z>> \in R
  PROVE  \E seq \in SetToSeqs(S) : SortedBy(seq, R)
<1> DEFINE Bad == {T \in SUBSET S : ~ \E seq \in SetToSeqs(T) : SortedBy(seq, R)}
<1>1. Bad = {}
  <2> SUFFICES ASSUME Bad # {} PROVE FALSE
    OBVIOUS
  <2>1. PICK T \in Bad : \A x \in T : T \ {x} \notin Bad
    BY SmallestSet
  <2>2. CASE T = {}
    <3>1. << >> \in SetToSeqs(T) /\ SortedBy(<< >>, R)
      BY <2>2, FS_EmptySet DEF SetToSeqs, SortedBy
    <3> QED
      BY <2>1, <3>1
  <2>3. CASE T # {}
    <3>1. IsFiniteSet(T) /\ T \subseteq S
      BY <2>1, FS_Subset
    <3>2. PICK m \in T : \A y \in T \ {m} : <<y, m>> \in R
      BY <2>3, <3>1, HasLast
    <3> DEFINE U == T \ {m}
               n == Cardinality(T)
    <3>3. PICK seq \in SetToSeqs(U) : SortedBy(seq, R)
      BY <2>1, <3>2
    <3>4. IsFiniteSet(U) /\ Cardinality(U) = n - 1 /\ n \in Nat
      BY <3>1, <3>2, FS_RemoveElement, FS_CardinalityType
    <3>5. /\ DOMAIN seq = 1..(n - 1) /\ \A i \in 1..(n - 1) : seq[i] \in U
          /\ \A i, j \in 1..(n - 1) : i # j => seq[i] # seq[j]
      BY <3>3, <3>4, Listing
    <3> HIDE DEF n
    <3> DEFINE longer == [k \in 1..n |-> IF k = n THEN m ELSE seq[k]]
    <3>6. \A k \in 1..n : k # n => k \in 1..(n - 1)
      BY <3>4
    <3>7. longer \in [1..n -> T] /\ \A i, j \in 1..n : i # j => longer[i] # longer[j]
      BY <3>2, <3>5, <3>6
    <3>8. longer \in SetToSeqs(T)
      BY <3>7 DEF SetToSeqs, n
    <3>9. \A i, j \in 1..n : i < j => <<longer[i], longer[j]>> \in R
      <4>1. ASSUME NEW i \in 1..n, NEW j \in 1..n, i < j PROVE <<longer[i], longer[j]>> \in R
        <5>1. i \in 1..(n - 1) /\ longer[i] = seq[i]
          BY <3>4, <4>1
        <5>2. CASE j = n
          BY <3>2, <3>5, <5>1, <5>2
        <5>3. CASE j # n
          <6>1. j \in 1..(n - 1) /\ longer[j] = seq[j]
            BY <3>6, <5>3
          <6> QED
            BY <3>3, <3>5, <4>1, <5>1, <6>1 DEF SortedBy
        <5> QED
          BY <5>2, <5>3
      <4> QED
        BY <4>1
    <3>10. SortedBy(longer, R)
      BY <3>9 DEF SortedBy
    <3> QED
      BY <2>1, <3>8, <3>10
  <2> QED
    BY <2>2, <2>3
<1> QED
  BY <1>1

\* ... and, when the order is strict, in one way only.
LEMMA SortedOnce ==
  ASSUME NEW S, IsFiniteSet(S), NEW R,
         \A x, y \in S : ~ (<<x, y>> \in R /\ <<y, x>> \in R),
         NEW s \in SetToSeqs(S), NEW t \in SetToSeqs(S), SortedBy(s, R), SortedBy(t, R)
  PROVE  s = t
<1> DEFINE D == 1..Cardinality(S)
           Bad == {k \in D : s[k] # t[k]}
<1>1. /\ DOMAIN s = D /\ s \in [D -> S] /\ \A i, j \in D : i # j => s[i] # s[j]
      /\ DOMAIN t = D /\ t \in [D -> S] /\ \A i, j \in D : i # j => t[i] # t[j]
      /\ \A x \in S : (\E i \in D : s[i] = x) /\ (\E i \in D : t[i] = x)
  <2>1. \A q \in SetToSeqs(S) : /\ DOMAIN q = D /\ q \in [DOMAIN q -> S]
                                /\ \A i, j \in DOMAIN q : i # j => q[i] # q[j]
                                /\ \A x \in S : \E i \in DOMAIN q : q[i] = x
    BY Listing
  <2> QED
    BY <2>1
<1>2. Bad = {}
  <2> SUFFICES ASSUME Bad # {} PROVE FALSE
    OBVIOUS
  <2>1. Bad \in SUBSET Nat /\ D \subseteq Nat
    BY FS_CardinalityType
  <2>2. PICK k \in Bad : \A l \in Bad : k <= l
    BY <2>1, LeastNatural
  <2>3. PICK i \in D : s[i] = t[k]
    BY <1>1
  <2>4. PICK j \in D : t[j] = s[k]
    BY <1>1
  <2> HIDE DEF D
  <2>5. k < i
    <3>1. i # k
      BY <2>3
    <3>2. i \notin Bad => t[i] = t[k]
      BY <2>3
    <3> QED
      BY <1>1, <2>1, <2>2, <3>1, <3>2
  <2>6. k < j
    <3>1. j # k
      BY <2>4
    <3>2. j \notin Bad => s[j] = s[k]
      BY <2>4
    <3> QED
      BY <1>1, <2>1, <2>2, <3>1, <3>2
  <2>7. <<s[k], s[i]>> \in R /\ <<t[k], t[j]>> \in R
    BY <1>1, <2>5, <2>6 DEF SortedBy
  <2>8. s[k] \in S /\ t[k] \in S
    BY <1>1, <2>2
  <2> QED
    BY <2>3, <2>4, <2>7, <2>8
<1>3. \A k \in D : s[k] = t[k]
  BY <1>2
<1> HIDE DEF D
<1> QED
  BY <1>1, <1>3

-----------------------------------------------------------------------------
(***************************************************************************)
(* The live cursor.                                                        *)
(***************************************************************************)
\* The type invariant.
THEOREM TypeCorrect == Spec => []TypeOK
<1>1. Init => TypeOK
  <2> SUFFICES ASSUME Init PROVE TypeOK
    OBVIOUS
  <2>1. disordered \in BOOLEAN /\ visible \in BOOLEAN /\ timer \in BOOLEAN
    BY DEF Init
  <2> QED
    BY <2>1, CursorAssumption DEF Init, TypeOK, Ids
<1>2. TypeOK /\ [Next]_vars => TypeOK'
  <2> SUFFICES ASSUME TypeOK, [Next]_vars PROVE TypeOK'
    OBVIOUS
  <2> USE CursorAssumption DEF TypeOK, Ids, db, tabvars
  <2>1. ASSUME NEW w \in Writes, Insert(w) PROVE TypeOK'
    <3>1. lastId + 1 \in Ids
      BY <2>1 DEF Insert
    <3>2. rowId' \in [Writes -> 0..MaxId] /\ pc' \in [Writes -> {"idle", "open", "done", "stamped"}]
      BY <2>1, <3>1 DEF Insert
    <3>3. \A v \in Writes : pc'[v] = "open" => rowId'[v] \in Ids
      BY <2>1, <3>1 DEF Insert
    <3>4. lastId' \in 0..MaxId
      BY <2>1, <3>1 DEF Insert
    <3>5. UNCHANGED <<events, disordered, stamp, tabvars>>
      BY <2>1 DEF Insert
    <3>6. /\ events' = events /\ stamp' = stamp /\ disordered' = disordered
          /\ cursor' = cursor /\ adopted' = adopted /\ visible' = visible
          /\ timer' = timer /\ poll' = poll /\ since' = since
          /\ reply' = reply /\ shown' = shown /\ lost' = lost
      BY <3>5
    <3> QED
      BY <3>2, <3>3, <3>4, <3>6
  <2>2. ASSUME NEW w \in Writes, Commit(w) PROVE TypeOK'
    <3>1. rowId[w] \in Ids
      BY <2>2 DEF Commit
    <3>2. rowId' \in [Writes -> 0..MaxId] /\ pc' \in [Writes -> {"idle", "open", "done", "stamped"}]
      BY <2>2 DEF Commit, After
    <3>3. \A v \in Writes : pc'[v] = "open" => rowId'[v] \in Ids
      BY <2>2 DEF Commit, After
    <3>4. events' \subseteq Ids
      BY <2>2, <3>1 DEF Commit
    <3>5. /\ lastId' = lastId /\ stamp' = stamp /\ disordered' \in BOOLEAN
          /\ cursor' = cursor /\ adopted' = adopted /\ visible' = visible
          /\ timer' = timer /\ poll' = poll /\ since' = since
          /\ reply' = reply /\ shown' = shown /\ lost' = lost
      BY <2>2 DEF Commit
    <3> QED
      BY <3>2, <3>3, <3>4, <3>5
  <2>3. ASSUME NEW w \in Writes, RollBack(w) PROVE TypeOK'
    BY <2>3 DEF RollBack, After
  <2>4. ASSUME NEW w \in Mine, WriteNothing(w) PROVE TypeOK'
    BY <2>4 DEF WriteNothing, Writes
  <2>5. ASSUME NEW w \in Mine, Stamp(w) PROVE TypeOK'
    BY <2>5 DEF Stamp, Writes
  <2>6. ASSUME NEW w \in Mine, Adopt(w) PROVE TypeOK'
    BY <2>6 DEF Adopt, Higher, Writes
  <2>7. ASSUME NEW w \in Mine, LoseAnswer(w) PROVE TypeOK'
    BY <2>7 DEF LoseAnswer, Writes
  <2>8. CASE Poll
    BY <2>8 DEF Poll, Schedule
  <2>9. CASE Count
    BY <2>9 DEF Count
  <2>10. CASE Fetch
    BY <2>10 DEF Fetch, Since
  <2>11. CASE Receive
    BY <2>11 DEF Receive, Schedule
  <2>12. CASE LosePoll
    BY <2>12 DEF LosePoll, Schedule
  <2>13. CASE Hide \/ Show
    BY <2>13 DEF Hide, Show
  <2>14. CASE UNCHANGED vars
    BY <2>14 DEF vars
  <2> QED
    BY <2>1, <2>2, <2>3, <2>4, <2>5, <2>6, <2>7, <2>8, <2>9, <2>10, <2>11,
       <2>12, <2>13, <2>14 DEF Next
<1> QED
  BY <1>1, <1>2, PTL DEF Spec

-----------------------------------------------------------------------------
(***************************************************************************)
(* No event twice.  A poll in flight asked for what lies above every event *)
(* the tab was told, and no other poll can tell it more meanwhile; an       *)
(* adopted cursor only moves the next question up.                         *)
(***************************************************************************)
ToldBelow ==
  /\ \A e \in shown : e <= cursor
  /\ poll /= "none" => \A e \in shown : e <= since
  /\ \A e \in reply : e > since
  /\ poll /= "answered" => reply = {}

\* live.py: no event is delivered twice to a tab.
THEOREM NoEventTwice == Spec => []NeverTwice
<1>1. Init => ToldBelow
  BY DEF Init, ToldBelow
<1>2. TypeOK /\ ToldBelow /\ [Next]_vars => ToldBelow'
  <2> SUFFICES ASSUME TypeOK, ToldBelow, [Next]_vars PROVE ToldBelow'
    OBVIOUS
  <2> USE DEF ToldBelow
  <2>1. CASE UNCHANGED <<cursor, shown, poll, since, reply>>
    BY <2>1
  <2>2. ASSUME NEW w \in Mine, Adopt(w) PROVE ToldBelow'
    <3>1. cursor' \in Nat /\ cursor' >= cursor
      BY <2>2, CursorAssumption DEF Adopt, Higher, TypeOK, Writes
    <3> QED
      BY <2>2, <3>1, CursorAssumption DEF Adopt, TypeOK, Ids
  <2>3. CASE Poll
    BY <2>3 DEF Poll
  <2>4. CASE Count
    BY <2>4 DEF Count
  <2>5. CASE Fetch
    BY <2>5 DEF Fetch, Since
  <2>6. CASE Receive
    <3>1. CASE reply = {}
      BY <2>6, <3>1 DEF Receive
    <3>2. CASE reply /= {}
      <4>1. PICK n \in 0..MaxId : IsLatest(n, reply) /\ cursor' = n
        BY <2>6, <3>2 DEF Receive
      <4>2. \A e \in reply : e <= n
        BY <4>1 DEF IsLatest
      <4>3. \A e \in shown : e <= n
        <5>1. PICK r \in reply : r > since /\ r <= n
          BY <3>2, <4>2
        <5>2. \A e \in shown : e <= since
          BY <2>6 DEF Receive
        <5>3. r \in Nat /\ since \in Nat /\ n \in Nat /\ shown \subseteq Nat
          BY CursorAssumption DEF TypeOK, Ids
        <5> QED
          BY <5>1, <5>2, <5>3
      <4> QED
        BY <2>6, <4>1, <4>2, <4>3 DEF Receive
    <3> QED
      BY <3>1, <3>2
  <2>7. CASE LosePoll
    BY <2>7 DEF LosePoll
  <2> QED
    BY <2>1, <2>2, <2>3, <2>4, <2>5, <2>6, <2>7
    DEF Next, vars, tabvars, Insert, Commit, RollBack, WriteNothing, Stamp, LoseAnswer, Hide, Show
<1>3. TypeOK /\ ToldBelow => NeverTwice
  <2> SUFFICES ASSUME TypeOK, ToldBelow, NEW e \in reply, e \in shown PROVE FALSE
    BY DEF NeverTwice
  <2>1. poll = "answered" /\ e <= since /\ e > since
    BY DEF ToldBelow
  <2> QED
    BY <2>1, CursorAssumption DEF TypeOK, Ids
<1> QED
  BY <1>1, <1>2, <1>3, TypeCorrect, PTL DEF Spec

-----------------------------------------------------------------------------
(***************************************************************************)
(* Nothing missed.  The invariant speaks of the cursor, of the question in *)
(* flight and of its answer at once: each covers what lies below it, and   *)
(* none is above every committed row, so that a row committed in order     *)
(* cannot appear below it.                                                 *)
(***************************************************************************)
Known(e) == e \in shown \/ e <= adopted
BelowARow(n) == n = 0 \/ \E e \in events : n <= e

Covered ==
  /\ BelowARow(cursor) /\ (poll /= "none" => BelowARow(since))
  /\ \A w \in Writes : BelowARow(stamp[w])
  /\ \A e \in events : e <= cursor => Known(e)
  /\ poll /= "none" => \A e \in events : e <= since => Known(e)
  /\ reply \subseteq events
  /\ \A r \in reply : \A e \in events : since < e /\ e <= r => e \in reply

Watching ==
  /\ poll /= "answered" => reply = {}
  /\ ~ disordered => Covered

\* Under commits in the order of ids, whatever lies at or below the cursor was
\* shown or was covered by an answer to a write of the tab.
THEOREM TabMissesNothing == Spec => []NothingMissed
<1>1. Init => Watching
  BY DEF Init, Watching, Covered, BelowARow
<1>2. TypeOK /\ Watching /\ [Next]_vars => Watching'
  <2> SUFFICES ASSUME TypeOK, Watching, [Next]_vars, ~ disordered' PROVE Covered'
    <3>1. (poll' /= "answered" => reply' = {}) \/ ~ [Next]_vars \/ ~ Watching
      BY DEF Next, vars, db, tabvars, Watching, Insert, Commit, RollBack, WriteNothing, Stamp,
             Adopt, LoseAnswer, Poll, Count, Fetch, Receive, LosePoll, Hide, Show
    <3> QED
      BY <3>1 DEF Watching
  <2>0. /\ events \subseteq Nat /\ cursor \in Nat /\ since \in Nat /\ reply \subseteq Nat
        /\ adopted \in Nat /\ shown \subseteq Nat /\ stamp \in [Writes -> Nat]
    BY CursorAssumption DEF TypeOK, Ids
  <2>00. ~ disordered
    BY DEF Next, vars, db, tabvars, Insert, Commit, RollBack, WriteNothing, Stamp,
           Adopt, LoseAnswer, Poll, Count, Fetch, Receive, LosePoll, Hide, Show
  <2>000. Covered
    BY <2>00 DEF Watching
  <2>1. CASE UNCHANGED <<events, stamp, cursor, adopted, shown, poll, since, reply>>
    BY <2>1, <2>000 DEF Covered, Known, BelowARow
  <2>2. ASSUME NEW w \in Writes, Commit(w) PROVE Covered'
    <3>1. /\ events' = events \cup {rowId[w]}
          /\ cursor' = cursor /\ shown' = shown /\ poll' = poll /\ adopted' = adopted
          /\ since' = since /\ reply' = reply /\ stamp' = stamp
      BY <2>2 DEF Commit, tabvars
    <3>2. rowId[w] \in Nat \ {0} /\ \A e \in events : e <= rowId[w]
      <4>1. ~ \E e \in events : e > rowId[w]
        BY <2>2, Zenon DEF Commit
      <4>2. rowId[w] \in 1..MaxId
        BY <2>2 DEF Commit, TypeOK, Ids
      <4> QED
        BY <4>1, <4>2, <2>0, CursorAssumption
    <3>3. \A n \in Nat : BelowARow(n) => n < rowId[w] \/ rowId[w] \in events
      BY <3>2, <2>0 DEF BelowARow
    <3>4. \A n : BelowARow(n) => BelowARow(n)'
      BY <3>1 DEF BelowARow
    <3>5. \A r \in reply : r < rowId[w] \/ rowId[w] \in events
      BY <3>2, <2>0, <2>000 DEF Covered
    <3>6. CASE rowId[w] \in events
      <4>1. events' = events
        BY <3>1, <3>6
      <4> QED
        BY <3>1, <4>1, <2>1
    <3>7. CASE rowId[w] \notin events
      <4>1. cursor < rowId[w] /\ (poll /= "none" => since < rowId[w])
        BY <3>3, <3>7, <2>0, <2>000 DEF Covered
      <4>2. \A r \in reply : r < rowId[w]
        BY <3>5, <3>7
      <4>3. \A v \in Writes : BelowARow(stamp[v])'
        BY <3>1, <3>4, <2>000 DEF Covered
      <4>4. BelowARow(cursor)' /\ (poll' /= "none" => BelowARow(since)')
        BY <3>1, <3>4, <2>000 DEF Covered
      <4>5. /\ \A e \in events' : e <= cursor' => Known(e)'
            /\ poll' /= "none" => \A e \in events' : e <= since' => Known(e)'
        BY <3>1, <3>2, <4>1, <2>0, <2>000 DEF Covered, Known
      <4>6. /\ reply' \subseteq events'
            /\ \A r \in reply' : \A e \in events' : since' < e /\ e <= r => e \in reply'
        BY <3>1, <3>2, <4>2, <2>0, <2>000 DEF Covered
      <4> QED
        BY <4>3, <4>4, <4>5, <4>6 DEF Covered
    <3> QED
      BY <3>6, <3>7
  <2>3. ASSUME NEW w \in Mine, Stamp(w) PROVE Covered'
    <3>1. PICK n \in 0..MaxId : IsLatest(n, events) /\ stamp' = [stamp EXCEPT ![w] = n]
      BY <2>3 DEF Stamp
    <3>2. UNCHANGED <<events, tabvars>>
      BY <2>3 DEF Stamp
    <3>3. BelowARow(n)
      BY <3>1, <2>0 DEF IsLatest, BelowARow
    <3>4. \A v \in Writes : BelowARow(stamp'[v])
      BY <3>1, <3>3, <2>0, <2>000 DEF Covered
    <3> QED
      BY <3>2, <3>4, <2>000 DEF Covered, Known, BelowARow, tabvars
  <2>4. ASSUME NEW w \in Mine, Adopt(w) PROVE Covered'
    <3>1. /\ cursor' = Higher(stamp[w], cursor) /\ adopted' = Higher(stamp[w], adopted)
          /\ stamp' = [stamp EXCEPT ![w] = 0]
          /\ UNCHANGED <<events, poll, since, reply, shown>>
      BY <2>4 DEF Adopt
    <3>2. stamp[w] \in Nat /\ w \in Writes
      BY <2>0 DEF Writes
    <3>3. BelowARow(cursor)'
      BY <3>1, <3>2, <2>000 DEF Covered, BelowARow, Higher
    <3>4. \A v \in Writes : BelowARow(stamp[v])'
      BY <3>1, <2>0, <2>000 DEF Covered, BelowARow
    <3>5. adopted' \in Nat /\ adopted' >= adopted /\ adopted' >= stamp[w]
      BY <3>1, <3>2, <2>0 DEF Higher
    <3>6. \A e \in events : Known(e) => Known(e)'
      BY <3>1, <3>5, <2>0 DEF Known
    <3>7. \A e \in events : e <= cursor' => Known(e)'
      <4>1. \A e \in events : e <= stamp[w] => Known(e)'
        BY <3>2, <3>5, <2>0 DEF Known
      <4> QED
        BY <3>1, <3>6, <4>1, <2>000 DEF Covered, Higher
    <3> QED
      BY <3>1, <3>3, <3>4, <3>6, <3>7, <2>000 DEF Covered, BelowARow
  <2>5. ASSUME NEW w \in Mine, LoseAnswer(w) PROVE Covered'
    <3>1. stamp' = [stamp EXCEPT ![w] = 0] /\ UNCHANGED <<events, tabvars>>
      BY <2>5 DEF LoseAnswer
    <3>2. \A v \in Writes : BelowARow(stamp'[v])
      BY <3>1, <2>0, <2>000 DEF Covered, BelowARow
    <3> QED
      BY <3>1, <3>2, <2>000 DEF Covered, Known, BelowARow, tabvars
  <2>6. CASE Poll
    <3>1. /\ UNCHANGED <<events, stamp, cursor, adopted, shown, reply>>
      BY <2>6 DEF Poll, db
    <3>2. CASE poll' = poll /\ since' = since
      BY <3>1, <3>2, <2>1
    <3>3. CASE poll = "none" /\ since' = cursor
      <4>1. /\ \A e \in events' : e <= cursor' => Known(e)'
            /\ \A e \in events' : e <= since' => Known(e)'
        BY <3>1, <3>3, <2>000 DEF Covered, Known
      <4>2. BelowARow(cursor)' /\ BelowARow(since)' /\ \A v \in Writes : BelowARow(stamp[v])'
        BY <3>1, <3>3, <2>000 DEF Covered, BelowARow
      <4>3. reply = {}
        BY <3>3 DEF Watching
      <4> QED
        BY <3>1, <4>1, <4>2, <4>3 DEF Covered
    <3> QED
      BY <2>6, <3>2, <3>3 DEF Poll
  <2>7. CASE Count
    BY <2>7, <2>000 DEF Count, Covered, Known, BelowARow, db
  <2>8. CASE Fetch
    BY <2>8, <2>0, <2>000 DEF Fetch, Since, Covered, Known, BelowARow, db
  <2>9. CASE Receive
    <3>0. /\ UNCHANGED <<events, stamp, adopted>>
          /\ poll' = "none" /\ reply' = {} /\ shown' = shown \cup reply
      BY <2>9 DEF Receive, db
    <3>1. CASE reply = {}
      <4>1. cursor' = cursor
        BY <2>9, <3>1 DEF Receive
      <4> QED
        BY <3>0, <3>1, <4>1, <2>000 DEF Covered, Known, BelowARow
    <3>2. CASE reply /= {}
      <4>1. PICK n \in 0..MaxId : IsLatest(n, reply) /\ cursor' = n
        BY <2>9, <3>2 DEF Receive
      <4>2. n = 0 \/ n \in reply
        BY <4>1 DEF IsLatest
      <4>3. BelowARow(cursor)'
        BY <3>0, <4>1, <4>2, <2>0, <2>000 DEF Covered, BelowARow
      <4>4. \A e \in events : e <= n => e <= since \/ e \in reply
        <5>1. CASE n \in reply
          BY <5>1, <2>0, <2>000 DEF Covered
        <5>2. CASE n = 0
          BY <5>2, <2>0
        <5> QED
          BY <5>1, <5>2, <4>2
      <4>5. \A e \in events : e <= n => Known(e)'
        BY <3>0, <4>4, <2>9, <2>000 DEF Receive, Covered, Known
      <4>6. \A v \in Writes : BelowARow(stamp[v])'
        BY <3>0, <2>000 DEF Covered, BelowARow
      <4> QED
        BY <3>0, <4>1, <4>3, <4>5, <4>6 DEF Covered
    <3> QED
      BY <3>1, <3>2
  <2>10. CASE LosePoll
    BY <2>10, <2>000 DEF LosePoll, Covered, Known, BelowARow, db
  <2>11. ASSUME NEW w \in Writes, Insert(w) \/ RollBack(w) PROVE Covered'
    BY <2>11, <2>1 DEF Insert, RollBack, tabvars
  <2>12. ASSUME NEW w \in Mine, WriteNothing(w) PROVE Covered'
    BY <2>12, <2>1 DEF WriteNothing, tabvars
  <2>13. CASE Hide \/ Show
    BY <2>13, <2>1 DEF Hide, Show, db
  <2>14. CASE UNCHANGED vars
    BY <2>14, <2>1 DEF vars
  <2> QED
    BY <2>2, <2>3, <2>4, <2>5, <2>6, <2>7, <2>8, <2>9, <2>10, <2>11, <2>12, <2>13, <2>14
    DEF Next
<1>3. Watching => NothingMissed
  BY DEF Watching, Covered, Known, NothingMissed
<1> QED
  BY <1>1, <1>2, <1>3, TypeCorrect, PTL DEF Spec

-----------------------------------------------------------------------------
(***************************************************************************)
(* Home.                                                                   *)
(***************************************************************************)
\* A member's watermark is no later than now, and stands for what was told: all that was
\* lies at or below it, or a save moved it back from there, and all below it was told or
\* slipped through.  So does the copy that a visit loaded, for what had been told by then.
Watermarks ==
  \A m \in Members : /\ seen[m] <= now /\ told[m] \subseteq 1..seen[m] \cup undone[m]
                     /\ 1..seen[m] \subseteq told[m] \cup slipped[m]

\* What a visit has in hand: its copy of the watermark and what had been told when it
\* loaded it, then what it could see, then the time it took.
VisitHolds(v) ==
  LET r == visit[v] IN
  /\ r.at = "list" => /\ 1..r.copy \subseteq told[r.by] \cup slipped[r.by]
                      /\ r.known \subseteq 1..r.copy \cup undone[r.by]
                      /\ seen[r.by] = 0 => r.copy = 0
  /\ r.at = "mark" => r.visible \subseteq 1..now
  /\ r.at = "save" => r.marked \in 1..now /\ r.visible \subseteq 1..r.marked

VisitInv ==
  /\ VisitTypeOK /\ Watermarks
  /\ \A e \in feed \cup writing : e.at <= now
  /\ \A v \in Visits : VisitHolds(v)

LEMMA VisitInitInv == VisitInit => VisitInv
<1> SUFFICES ASSUME VisitInit PROVE VisitInv
  OBVIOUS
<1>1. VisitTypeOK
  BY VisitAssumption DEF VisitInit, VisitTypeOK
<1>2. Watermarks
  BY DEF VisitInit, Watermarks
<1>3. \A v \in Visits : VisitHolds(v)
  BY DEF VisitInit, VisitHolds, NoVisit
<1> QED
  BY <1>1, <1>2, <1>3 DEF VisitInit, VisitInv

\* What the watermarks need of a step that moves none.
LEMMA WatermarksStay ==
  ASSUME VisitInv, VisitTypeOK', UNCHANGED <<seen, told, slipped, undone>>, now' >= now,
         \A e \in feed' \cup writing' : e.at <= now',
         \A v \in Visits : visit'[v] = visit[v] \/ VisitHolds(v)'
  PROVE  VisitInv'
<1>1. VisitTypeOK /\ Watermarks /\ now \in Nat /\ now' \in Nat
  BY VisitAssumption DEF VisitInv, VisitTypeOK
<1>2. Watermarks'
  <2>1. \A m \in Members : seen[m] \in Nat
    BY <1>1, VisitAssumption DEF VisitTypeOK
  <2> QED
    BY <1>1, <2>1 DEF Watermarks
<1>3. ASSUME NEW v \in Visits, visit'[v] = visit[v] PROVE VisitHolds(v)'
  BY <1>1, <1>3 DEF VisitInv, VisitHolds
<1> QED
  BY <1>2, <1>3 DEF VisitInv

\* A visit that saves its time: forward, or back over what a later one had told.
LEMMA SaveKeeps ==
  ASSUME VisitInv, NEW v \in Visits, SaveMark(v)
  PROVE  VisitInv'
<1> DEFINE m == visit[v].by
           t == visit[v].marked
           S == visit[v].visible
<1>0. /\ VisitTypeOK /\ Watermarks /\ now \in Nat
      /\ \A w \in Visits : VisitHolds(w)
  BY VisitAssumption DEF VisitInv, VisitTypeOK
<1>1. /\ visit[v] \in Visit /\ m \in Members /\ visit[v].at = "save"
      /\ t \in 1..now /\ S \subseteq 1..t
  BY <1>0 DEF SaveMark, VisitTypeOK, NoVisit, Visit, VisitHolds
<1>2. /\ seen' = [seen EXCEPT ![m] = t]
      /\ undone' = [undone EXCEPT ![m] = undone[m] \cup ((t + 1)..seen[m])]
      /\ visit' = [visit EXCEPT ![v] = NoVisit] /\ UNCHANGED <<now, feed, writing>>
      /\ told' = [told EXCEPT ![m] = told[m] \cup S]
      /\ slipped' = [slipped EXCEPT ![m] = slipped[m] \cup (1..t \ S)]
  BY <1>1 DEF SaveMark, Goes, NextAt
<1> HIDE DEF m, t, S
<1>3. /\ seen[m] \in 0..MaxTime /\ seen[m] \in Nat /\ t \in Nat \ {0} /\ t \in 0..MaxTime
      /\ now \in 0..MaxTime /\ MaxTime \in Nat
  BY <1>0, <1>1, VisitAssumption DEF VisitTypeOK
<1>4. /\ seen'[m] = t /\ undone'[m] = undone[m] \cup ((t + 1)..seen[m])
      /\ told'[m] = told[m] \cup S /\ slipped'[m] = slipped[m] \cup (1..t \ S)
  BY <1>0, <1>1, <1>2 DEF VisitTypeOK
<1>5. ASSUME NEW n \in Members, n # m
      PROVE  /\ seen'[n] = seen[n] /\ undone'[n] = undone[n]
             /\ told'[n] = told[n] /\ slipped'[n] = slipped[n]
  BY <1>0, <1>2, <1>5 DEF VisitTypeOK
<1>6. \A n \in Members : /\ told[n] \subseteq told'[n] /\ slipped[n] \subseteq slipped'[n]
                         /\ undone[n] \subseteq undone'[n] /\ (seen'[n] = 0 => seen[n] = 0)
  BY <1>3, <1>4, <1>5
<1>7. VisitTypeOK'
  <2>1. seen' \in [Members -> 0..MaxTime]
    BY <1>0, <1>2, <1>3 DEF VisitTypeOK
  <2>2. visit' \in [Visits -> Visit \cup {NoVisit}]
    BY <1>0, <1>2 DEF VisitTypeOK
  <2>3. S \subseteq Times /\ 1..t \ S \subseteq Times /\ (t + 1)..seen[m] \subseteq Times
    BY <1>1, <1>3 DEF Times
  <2>4. told' \in [Members -> SUBSET Times] /\ slipped' \in [Members -> SUBSET Times]
    BY <1>0, <1>2, <2>3 DEF VisitTypeOK
  <2>5. undone' \in [Members -> SUBSET Times]
    BY <1>0, <1>2, <2>3 DEF VisitTypeOK
  <2> QED
    BY <1>0, <1>2, <2>1, <2>2, <2>4, <2>5 DEF VisitTypeOK
<1>8. Watermarks'
  <2>1. ASSUME NEW n \in Members, n # m
        PROVE  /\ seen'[n] <= now' /\ told'[n] \subseteq 1..seen'[n] \cup undone'[n]
               /\ 1..seen'[n] \subseteq told'[n] \cup slipped'[n]
    BY <1>0, <1>2, <1>5, <2>1 DEF Watermarks
  <2>2. seen'[m] <= now'
    BY <1>1, <1>2, <1>3, <1>4
  <2>3. told'[m] \subseteq 1..seen'[m] \cup undone'[m]
    <3>1. told[m] \subseteq 1..seen[m] \cup undone[m]
      BY <1>0, <1>1 DEF Watermarks
    <3>2. 1..seen[m] \subseteq 1..t \cup ((t + 1)..seen[m])
      BY <1>3
    <3> QED
      BY <1>1, <1>4, <3>1, <3>2
  <2>4. 1..seen'[m] \subseteq told'[m] \cup slipped'[m]
    BY <1>4
  <2> QED
    BY <2>1, <2>2, <2>3, <2>4 DEF Watermarks
<1>9. ASSUME NEW w \in Visits PROVE VisitHolds(w)'
  <2>1. CASE w = v
    BY <1>0, <1>2, <2>1 DEF VisitTypeOK, VisitHolds, NoVisit
  <2>2. CASE w # v
    <3>1. visit'[w] = visit[w] /\ now' = now
      BY <1>0, <1>2, <2>2 DEF VisitTypeOK
    <3>2. visit[w].at = "list" => visit[w].by \in Members
      BY <1>0 DEF VisitTypeOK, NoVisit, Visit
    <3> QED
      BY <1>0, <1>6, <3>1, <3>2 DEF VisitHolds
  <2> QED
    BY <2>1, <2>2
<1> QED
  BY <1>2, <1>7, <1>8, <1>9 DEF VisitInv

LEMMA VisitStep == VisitInv /\ [VisitNext]_hvars => VisitInv'
<1> SUFFICES ASSUME VisitInv, [VisitNext]_hvars PROVE VisitInv'
  OBVIOUS
<1>0. /\ VisitTypeOK /\ Watermarks /\ now \in 0..MaxTime /\ now \in Nat /\ MaxTime \in Nat
      /\ \A e \in feed \cup writing : e.at <= now /\ e \in Event
      /\ \A v \in Visits : VisitHolds(v)
  BY VisitAssumption DEF VisitInv, VisitTypeOK
<1>1. ASSUME NEW agent \in BOOLEAN, Record(agent) PROVE VisitInv'
  <2> DEFINE e == [at |-> now + 1, agent |-> agent]
  <2>1. /\ now < MaxTime /\ now' = now + 1 /\ writing' = writing \cup {e}
        /\ UNCHANGED <<feed, seen, visit, told, slipped, undone>>
    BY <1>1 DEF Record
  <2>2. e \in Event /\ e.at = now + 1
    BY <1>0, <2>1 DEF Event, Times
  <2> HIDE DEF e
  <2>3. VisitTypeOK'
    BY <1>0, <2>1, <2>2 DEF VisitTypeOK
  <2>4. \A f \in feed' \cup writing' : f.at <= now'
    <3>1. \A f \in feed \cup writing : f.at \in Nat
      BY <1>0 DEF Event, Times
    <3> QED
      BY <1>0, <2>1, <2>2, <3>1
  <2> QED
    BY <1>0, <2>1, <2>3, <2>4, WatermarksStay
<1>2. ASSUME NEW e \in writing, EventCommits(e) \/ EventRollsBack(e) PROVE VisitInv'
  <2>1. /\ UNCHANGED <<now, seen, visit, told, slipped, undone>>
        /\ feed' \subseteq feed \cup writing /\ writing' \subseteq writing
    BY <1>2 DEF EventCommits, EventRollsBack
  <2>2. VisitTypeOK'
    BY <1>0, <2>1 DEF VisitTypeOK
  <2> QED
    BY <1>0, <2>1, <2>2, WatermarksStay
<1>3. ASSUME NEW v \in Visits, NEW m \in Members, Open(v, m) PROVE VisitInv'
  <2> DEFINE q == [at |-> "member", by |-> m, copy |-> 0, known |-> {}, visible |-> {},
                   marked |-> 0]
  <2>1. /\ visit' = [visit EXCEPT ![v] = q]
        /\ UNCHANGED <<now, feed, writing, seen, told, slipped, undone>>
    BY <1>3 DEF Open
  <2>2. q \in Visit /\ q.at = "member"
    BY <1>0 DEF Visit
  <2> HIDE DEF q
  <2>3. VisitTypeOK'
    BY <1>0, <2>1, <2>2 DEF VisitTypeOK
  <2>4. VisitHolds(v)' /\ \A w \in Visits \ {v} : visit'[w] = visit[w]
    BY <1>0, <2>1, <2>2 DEF VisitHolds, VisitTypeOK
  <2> QED
    BY <1>0, <2>1, <2>3, <2>4, WatermarksStay
<1>4. ASSUME NEW v \in Visits, LoadMember(v) PROVE VisitInv'
  <2> DEFINE m == visit[v].by
             q == [visit[v] EXCEPT !.copy = seen[m], !.known = told[m]]
             p == [q EXCEPT !.at = "list"]
  <2>1. visit[v] \in Visit /\ m \in Members /\ visit[v].at = "member"
    BY <1>0, <1>4 DEF LoadMember, VisitTypeOK, NoVisit, Visit
  <2>2. q.at = "member"
    BY <2>1 DEF Visit
  <2>3. /\ visit' = [visit EXCEPT ![v] = p]
        /\ UNCHANGED <<now, feed, writing, seen, told, slipped, undone>>
    BY <1>4, <2>2 DEF LoadMember, Goes, NextAt
  <2>4. /\ p \in Visit /\ p.at = "list" /\ p.by = m /\ p.copy = seen[m] /\ p.known = told[m]
        /\ seen[m] \in Nat
    <3> HIDE DEF m
    <3>1. seen[m] \in 0..MaxTime /\ told[m] \in SUBSET Times /\ seen[m] \in Nat
      BY <1>0, <2>1 DEF VisitTypeOK
    <3> DEFINE Loaded(r, c, k) == [[r EXCEPT !.copy = c, !.known = k] EXCEPT !.at = "list"]
    <3>2. ASSUME NEW r \in Visit, NEW c \in 0..MaxTime, NEW k \in SUBSET Times
          PROVE  /\ Loaded(r, c, k) \in Visit /\ Loaded(r, c, k).at = "list"
                 /\ Loaded(r, c, k).by = r.by /\ Loaded(r, c, k).copy = c
                 /\ Loaded(r, c, k).known = k
      BY DEF Visit
    <3>3. p = Loaded(visit[v], seen[m], told[m]) /\ visit[v].by = m
      BY DEF m
    <3> HIDE DEF Loaded, p
    <3> QED
      BY <2>1, <3>1, <3>2, <3>3
  <2> HIDE DEF m, q, p
  <2>5. VisitTypeOK'
    BY <1>0, <2>3, <2>4 DEF VisitTypeOK
  <2>6. VisitHolds(v)' /\ \A w \in Visits \ {v} : visit'[w] = visit[w]
    BY <1>0, <2>1, <2>3, <2>4 DEF VisitHolds, VisitTypeOK, Watermarks
  <2> QED
    BY <1>0, <2>3, <2>5, <2>6, WatermarksStay
<1>5. ASSUME NEW v \in Visits, List(v) PROVE VisitInv'
  <2> DEFINE S == {e.at : e \in feed}
             q == [visit[v] EXCEPT !.visible = S]
             p == [q EXCEPT !.at = "mark"]
  <2>1. visit[v] \in Visit /\ visit[v].at = "list"
    BY <1>0, <1>5 DEF List, VisitTypeOK, NoVisit
  <2>2. q.at = "list"
    BY <2>1 DEF Visit
  <2>3. /\ visit' = [visit EXCEPT ![v] = p]
        /\ UNCHANGED <<now, feed, writing, seen, told, slipped, undone>>
    BY <1>5, <2>2 DEF List, Goes, NextAt
  <2>4. S \subseteq Times /\ S \subseteq 1..now
    BY <1>0 DEF Event, Times
  <2>5. p \in Visit /\ p.at = "mark" /\ p.visible = S
    BY <1>0, <2>1, <2>4 DEF Visit
  <2> HIDE DEF S, q, p
  <2>6. VisitTypeOK'
    BY <1>0, <2>3, <2>5 DEF VisitTypeOK
  <2>7. VisitHolds(v)' /\ \A w \in Visits \ {v} : visit'[w] = visit[w]
    BY <1>0, <2>3, <2>4, <2>5 DEF VisitHolds, VisitTypeOK
  <2> QED
    BY <1>0, <2>3, <2>6, <2>7, WatermarksStay
<1>6. ASSUME NEW v \in Visits, TakeTime(v) PROVE VisitInv'
  <2> DEFINE t == now + 1
             q == [visit[v] EXCEPT !.copy = t, !.marked = t]
             p == [q EXCEPT !.at = "save"]
  <2>1. visit[v] \in Visit /\ visit[v].at = "mark" /\ visit[v].visible \subseteq 1..now
    BY <1>0, <1>6 DEF TakeTime, VisitTypeOK, NoVisit, Visit, VisitHolds
  <2>2. q.at = "mark"
    BY <2>1 DEF Visit
  <2>3. /\ now' = t /\ visit' = [visit EXCEPT ![v] = p]
        /\ UNCHANGED <<feed, writing, seen, told, slipped, undone>>
    BY <1>6, <2>2 DEF TakeTime, Goes, NextAt
  <2>4. t \in 0..MaxTime /\ t \in 1..t /\ t >= now /\ 1..now \subseteq 1..t
    BY <1>0, <1>6 DEF TakeTime
  <2> HIDE DEF t
  <2>5. p \in Visit /\ p.at = "save" /\ p.marked = t /\ p.visible = visit[v].visible
    BY <2>1, <2>4 DEF Visit
  <2> HIDE DEF p, q
  <2>6. VisitTypeOK'
    BY <1>0, <2>3, <2>4, <2>5 DEF VisitTypeOK
  <2>7. VisitHolds(v)' /\ \A w \in Visits \ {v} : visit'[w] = visit[w]
    BY <1>0, <2>1, <2>3, <2>4, <2>5 DEF VisitHolds, VisitTypeOK
  <2>8. \A e \in feed' \cup writing' : e.at <= now'
    <3>1. \A e \in feed \cup writing : e.at \in Nat
      BY <1>0 DEF Event, Times
    <3> QED
      BY <1>0, <2>3, <2>4, <3>1
  <2> QED
    BY <1>0, <2>3, <2>4, <2>6, <2>7, <2>8, WatermarksStay
<1>7. ASSUME NEW v \in Visits, SaveMark(v) PROVE VisitInv'
  BY <1>7, SaveKeeps
<1>8. ASSUME NEW v \in Visits, Abandon(v) PROVE VisitInv'
  <2>1. visit' = [visit EXCEPT ![v] = NoVisit]
        /\ UNCHANGED <<now, feed, writing, seen, told, slipped, undone>>
    BY <1>8 DEF Abandon
  <2>2. VisitTypeOK'
    BY <1>0, <2>1 DEF VisitTypeOK
  <2>3. VisitHolds(v)' /\ \A w \in Visits \ {v} : visit'[w] = visit[w]
    BY <1>0, <2>1 DEF VisitHolds, VisitTypeOK, NoVisit
  <2> QED
    BY <1>0, <2>1, <2>2, <2>3, WatermarksStay
<1>9. CASE UNCHANGED hvars
  BY <1>9 DEF hvars, VisitInv, VisitTypeOK, Watermarks, VisitHolds
<1> QED
  BY <1>1, <1>2, <1>3, <1>4, <1>5, <1>6, <1>7, <1>8, <1>9 DEF VisitNext

\* Home's state keeps its types, and no watermark is ahead of the clock (state.py, pages.py).
THEOREM VisitTypeCorrect == VisitSpec => []VisitTypeOK
<1>1. VisitInv => VisitTypeOK
  BY DEF VisitInv
<1> QED
  BY <1>1, VisitInitInv, VisitStep, PTL DEF VisitSpec

\* However visits of a member's tabs overlap and whenever events commit, what an agent did is
\* badged on every visit that can see it until one that told of it has ended, but for what a
\* mark passed over unseen; and on none that begins afterwards, but for what an overtaken save
\* moved the watermark back over (state.py:560-595, pages.py:44-54).
THEOREM NewsBadgedOnce == VisitSpec => []NewsIsBadgedOnce
<1>1. VisitInv => NewsIsBadgedOnce
  <2> SUFFICES ASSUME VisitInv, NEW v \in Visits, visit[v].at = "list"
               PROVE  LET m == visit[v].by
                          news == {e.at : e \in News(visit[v].copy)}
                      IN /\ news \cap visit[v].known \subseteq undone[m]
                         /\ seen[m] = 0 => news = {}
                         /\ visit[v].copy # 0 =>
                              \A e \in Listed :
                                e.agent => e.at \in news \cup told[m] \cup slipped[m]
    BY DEF NewsIsBadgedOnce
  <2> DEFINE m == visit[v].by
             c == visit[v].copy
             news == {e.at : e \in News(c)}
  <2>1. /\ visit[v] \in Visit /\ m \in Members /\ c \in Nat /\ (seen[m] = 0 => c = 0)
        /\ visit[v].known \subseteq 1..c \cup undone[m]
        /\ 1..c \subseteq told[m] \cup slipped[m]
    BY VisitAssumption DEF VisitInv, VisitTypeOK, NoVisit, Visit, VisitHolds
  <2>2. \A e \in feed : e.at \in Nat \ {0}
    BY DEF VisitInv, VisitTypeOK, Event, Times
  <2>3. \A t \in news : c # 0 /\ t > c /\ t \in Nat
    BY <2>2 DEF News, IsNew, Listed
  <2>4. ASSUME c # 0, NEW e \in Listed, e.agent
        PROVE  e.at \in news \cup told[m] \cup slipped[m]
    <3>1. e \in feed
      BY DEF Listed
    <3>2. CASE e.at > c
      BY <2>4, <3>2 DEF News, IsNew
    <3>3. CASE ~ (e.at > c)
      BY <2>1, <2>2, <3>1, <3>3
    <3> QED
      BY <3>2, <3>3
  <2>5. news \cap visit[v].known \subseteq undone[m] /\ (seen[m] = 0 => news = {})
    BY <2>1, <2>3
  <2> QED
    BY <2>4, <2>5
<1> QED
  BY <1>1, VisitInitInv, VisitStep, PTL DEF VisitSpec

-----------------------------------------------------------------------------
(***************************************************************************)
(* The Get-started checklist.                                              *)
(***************************************************************************)
\* What a tab shows: nothing of a checklist that was over when it asked; and a listener
\* was opened when no event of the agent was counted, below or at the newest event, so
\* that each event of the agent's is above a cursor, in the gap, or yet to be written.
TabHolds(t) ==
  LET page == tab[t] IN
  /\ page.late => page.at \in {"plain", "blank"}
  /\ page.at \in {"counted", "listening"} => page.agents = {}
  /\ page.at = "listening" =>
       /\ page.since \cap ({0} \cup DOMAIN activity) # {}
       /\ \A e \in OfAgent(DOMAIN activity) : e \in page.gap \/ \E n \in page.since : e > n

StartedInv ==
  /\ GetStartedTypeOK
  /\ over => completed \/ dismissed
  /\ \E k \in 0..MaxEvents : DOMAIN activity = 1..k
  /\ \A t \in Tabs : TabHolds(t)

\* The newest event: 0 or the id of a committed one, and the highest (onboarding_state).
LEMMA NewestIsHighest ==
  ASSUME GetStartedTypeOK
  PROVE  /\ Newest \in Committed \cup {0} /\ Newest \in 0..MaxEvents
         /\ \A e \in Committed : e <= Newest
<1> DEFINE S == Committed \cup {0}
           T == {MaxEvents - e : e \in S}
<1>1. S \subseteq 0..MaxEvents /\ 0 \in S /\ MaxEvents \in Nat
  BY GetStartedAssumption DEF GetStartedTypeOK, EventIds, Committed
<1> HIDE DEF S
<1>2. T \in SUBSET Nat /\ T # {}
  <2>1. \A e \in S : MaxEvents - e \in Nat
    BY <1>1
  <2>2. MaxEvents - 0 \in T
    BY <1>1
  <2> QED
    BY <2>1, <2>2, Zenon
<1>3. PICK t \in T : \A u \in T : t <= u
  BY <1>2, LeastNatural
<1>4. PICK e \in S : t = MaxEvents - e
  BY <1>3
<1>5. \A f \in S : e >= f
  <2>1. \A f \in S : t <= MaxEvents - f
    BY <1>3, Zenon
  <2>2. \A f \in S : f \in Int
    BY <1>1
  <2>3. \A f \in S : MaxEvents - e <= MaxEvents - f
    BY <1>4, <2>1
  <2> QED
    BY <1>1, <2>2, <2>3
<1>6. Max(S) \in S /\ \A f \in S : Max(S) >= f
  <2>1. \E x \in S : \A f \in S : x >= f
    BY <1>5
  <2> QED
    BY <2>1, Zenon DEF Max
<1>7. Newest = Max(S)
  BY DEF Newest, S
<1>8. \A f \in S : f <= Newest
  BY <1>1, <1>6, <1>7
<1> QED
  BY <1>1, <1>6, <1>7, <1>8 DEF S

LEMMA StartedInitInv == GetStartedInit => StartedInv
<1> SUFFICES ASSUME GetStartedInit PROVE StartedInv
  OBVIOUS
<1>1. DOMAIN activity = {} /\ has = {}
  BY DEF GetStartedInit
<1>2. Blank \in Tab
  BY GetStartedAssumption DEF Blank, Tab
<1>3. completed \in BOOLEAN /\ dismissed \in BOOLEAN /\ over \in BOOLEAN
  BY DEF GetStartedInit
<1>4. GetStartedTypeOK
  BY <1>1, <1>2, <1>3 DEF GetStartedInit, GetStartedTypeOK
<1>5. 0 \in 0..MaxEvents /\ 1..0 = {}
  BY GetStartedAssumption
<1>6. \A t \in Tabs : TabHolds(t)
  BY DEF GetStartedInit, TabHolds, Blank
<1> QED
  BY <1>1, <1>4, <1>5, <1>6 DEF GetStartedInit, StartedInv

\* A request or a click in one tab: what it needs of the page that it leaves there.
LEMMA PageShown ==
  ASSUME StartedInv, NEW t \in Tabs, NEW page \in Tab, Shows(t, page), UNCHANGED <<has, activity>>,
         completed' \in BOOLEAN, dismissed' \in BOOLEAN, over' \in BOOLEAN,
         over' => completed' \/ dismissed',
         page.late => page.at \in {"plain", "blank"},
         page.at \in {"counted", "listening"} => page.agents = {},
         page.at = "listening" =>
           /\ page.since \cap ({0} \cup DOMAIN activity) # {}
           /\ \A e \in OfAgent(DOMAIN activity) : e \in page.gap \/ \E n \in page.since : e > n
  PROVE  StartedInv'
<1>1. tab' = [tab EXCEPT ![t] = page] /\ tab \in [Tabs -> Tab]
  BY DEF Shows, StartedInv, GetStartedTypeOK
<1>2. GetStartedTypeOK'
  BY <1>1 DEF StartedInv, GetStartedTypeOK
<1>3. TabHolds(t)'
  <2>1. tab'[t] = page
    BY <1>1
  <2> QED
    BY <2>1 DEF TabHolds, OfAgent
<1>4. ASSUME NEW u \in Tabs, u # t PROVE TabHolds(u)'
  <2>1. tab'[u] = tab[u]
    BY <1>1, <1>4
  <2> QED
    BY <2>1 DEF StartedInv, TabHolds, OfAgent
<1> QED
  BY <1>2, <1>3, <1>4 DEF StartedInv

\* The processor that finds all done writes it down.
LEMMA FragmentRendered ==
  ASSUME StartedInv, RenderFragment, dismissed' = dismissed
  PROVE  /\ completed' \in BOOLEAN /\ over' \in BOOLEAN /\ dismissed' \in BOOLEAN
         /\ over' => completed' \/ dismissed'
<1>1. /\ completed \in BOOLEAN /\ over \in BOOLEAN /\ dismissed \in BOOLEAN
      /\ over => completed \/ dismissed
  BY DEF StartedInv, GetStartedTypeOK
<1>2. completed' = (completed \/ FoundDone) /\ over' = (over \/ FoundDone)
  BY DEF RenderFragment, Completes
<1>3. FoundDone \in BOOLEAN
  BY DEF FoundDone
<1> QED
  BY <1>1, <1>2, <1>3

LEMMA StartedStep == StartedInv /\ [GetStartedNext]_gvars => StartedInv'
<1> SUFFICES ASSUME StartedInv, [GetStartedNext]_gvars PROVE StartedInv'
  OBVIOUS
<1>0. /\ GetStartedTypeOK /\ (over => completed \/ dismissed) /\ MaxEvents \in Nat
      /\ completed \in BOOLEAN /\ dismissed \in BOOLEAN /\ over \in BOOLEAN
      /\ \A t \in Tabs : TabHolds(t) /\ tab[t] \in Tab
  BY GetStartedAssumption DEF StartedInv, GetStartedTypeOK
<1>1. ASSUME NEW t \in Tabs, LoadOrg(t) PROVE StartedInv'
  <2> DEFINE page == [Blank EXCEPT !.at = IF completed \/ dismissed THEN "plain" ELSE "loaded",
                                   !.late = over]
  <2>1. Shows(t, page) /\ UNCHANGED <<has, activity, completed, dismissed, over>>
    BY <1>1 DEF LoadOrg
  <2>2. /\ page \in Tab /\ page.late = over
        /\ page.at = IF completed \/ dismissed THEN "plain" ELSE "loaded"
    BY <1>0 DEF Blank, Tab
  <2> HIDE DEF page
  <2> QED
    BY <1>0, <2>1, <2>2, PageShown
<1>2. ASSUME NEW t \in Tabs, CountSteps(t) PROVE StartedInv'
  <2> DEFINE answer == IF AllDone THEN "plain"
                       ELSE IF ConnectIsNext THEN "counted" ELSE "checklist"
             page == [tab[t] EXCEPT !.at = answer, !.agents = OfAgent(Committed)]
  <2>1. Shows(t, page) /\ UNCHANGED <<has, activity, dismissed>> /\ tab[t].at = "loaded"
        /\ completed' = (completed \/ AllDone) /\ over' = (over \/ AllDone)
    BY <1>2 DEF CountSteps, Completes
  <2>2. /\ answer \in {"plain", "counted", "checklist"}
        /\ answer = "counted" => OfAgent(Committed) = {}
    BY DEF ConnectIsNext, Connected
  <2>3. OfAgent(Committed) \subseteq EventIds
    BY <1>0 DEF OfAgent, Committed, GetStartedTypeOK
  <2> HIDE DEF answer
  <2>4. /\ page \in Tab /\ page.at = answer
        /\ page.agents = OfAgent(Committed) /\ page.late = tab[t].late
    BY <1>0, <2>2, <2>3 DEF Tab
  <2>5. ~tab[t].late
    BY <1>0, <2>1 DEF TabHolds
  <2>6. completed' \in BOOLEAN /\ over' \in BOOLEAN /\ (over' => completed' \/ dismissed')
    BY <1>0, <2>1
  <2> HIDE DEF page
  <2> QED
    BY <1>0, <2>1, <2>2, <2>4, <2>5, <2>6, PageShown
<1>3. ASSUME NEW t \in Tabs, SetBaseline(t) \/ ConnectKey(t) PROVE StartedInv'
  <2> DEFINE missed == {e \in OfAgent(DOMAIN activity) \ tab[t].agents : e <= Newest}
  <2>1. Shows(t, Listens(t)) /\ UNCHANGED <<has, activity, dismissed>>
        /\ tab[t].at \in {"counted", "listening"}
    BY <1>3 DEF SetBaseline, ConnectKey
  <2>7. /\ completed' \in BOOLEAN /\ over' \in BOOLEAN /\ dismissed' \in BOOLEAN
        /\ over' => completed' \/ dismissed'
    BY <1>0, <1>3, <2>1, FragmentRendered DEF SetBaseline, ConnectKey
  <2>2. tab[t].agents = {} /\ ~tab[t].late
    BY <1>0, <2>1 DEF TabHolds
  <2>3. missed \subseteq EventIds /\ Newest \in 0..MaxEvents
    BY <1>0, NewestIsHighest DEF OfAgent, GetStartedTypeOK
  <2>4. /\ Listens(t) \in Tab /\ Listens(t).at = "listening" /\ Listens(t).late = tab[t].late
        /\ Listens(t).agents = tab[t].agents /\ Listens(t).since = tab[t].since \cup {Newest}
        /\ Listens(t).gap = tab[t].gap \cup missed
    BY <1>0, <2>3 DEF Listens, Tab
  <2>5. Newest \in {0} \cup DOMAIN activity
    BY <1>0, NewestIsHighest DEF Committed
  <2>6. ASSUME NEW e \in OfAgent(DOMAIN activity)
        PROVE  e \in Listens(t).gap \/ \E n \in Listens(t).since : e > n
    <3>1. e \in Nat /\ Newest \in Nat
      BY <1>0, <2>3 DEF OfAgent, GetStartedTypeOK, EventIds
    <3>2. CASE e <= Newest
      BY <2>2, <2>4, <3>2
    <3>3. CASE e > Newest
      BY <2>4, <3>3
    <3> QED
      BY <3>1, <3>2, <3>3
  <2> HIDE DEF missed
  <2> QED
    BY <1>0, <2>1, <2>2, <2>4, <2>5, <2>6, <2>7, PageShown
<1>4. ASSUME NEW t \in Tabs, Dismiss(t) PROVE StartedInv'
  <2>1. /\ Shows(t, Blank) /\ UNCHANGED <<has, activity, completed>>
        /\ dismissed' = TRUE /\ over' = TRUE
    BY <1>4 DEF Dismiss
  <2>2. Blank \in Tab /\ Blank.at = "blank"
    BY <1>0 DEF Blank, Tab
  <2> QED
    BY <1>0, <2>1, <2>2, PageShown
<1>5. ASSUME NEW t \in Tabs, NEW n \in 0..MaxEvents, AgentJoins(t, n) PROVE StartedInv'
  <2> DEFINE left == IF FoundDone \/ completed \/ dismissed THEN tab[t].since \ {n} ELSE {}
             page == [tab[t] EXCEPT !.at = "joined", !.since = left]
  <2>1. /\ Shows(t, page) /\ UNCHANGED <<has, activity, dismissed>> /\ RenderFragment
        /\ tab[t].at \in {"listening", "joined"}
    BY <1>5 DEF AgentJoins
  <2>2. ~tab[t].late
    BY <1>0, <2>1 DEF TabHolds
  <2>3. /\ completed' \in BOOLEAN /\ over' \in BOOLEAN /\ dismissed' \in BOOLEAN
        /\ over' => completed' \/ dismissed'
    BY <2>1, FragmentRendered
  <2>4. left \subseteq 0..MaxEvents
    BY <1>0 DEF Tab
  <2> HIDE DEF left
  <2>5. page \in Tab /\ page.at = "joined" /\ page.late = tab[t].late
    BY <1>0, <2>4 DEF Tab
  <2> HIDE DEF page
  <2> QED
    BY <1>0, <2>1, <2>2, <2>3, <2>5, PageShown
<1>6. ASSUME NEW t \in Tabs, NEW n \in 0..MaxEvents, StillListening(t, n) PROVE StartedInv'
  <2>1. /\ UNCHANGED <<has, activity, dismissed>> /\ RenderFragment /\ n \in tab[t].since
        /\ tab' = [tab EXCEPT ![t] = [tab[t] EXCEPT !.since = (tab[t].since \ {n}) \cup {n}]]
    BY <1>6 DEF StillListening, ServedAgain, Shows
  <2>2. (tab[t].since \ {n}) \cup {n} = tab[t].since
    BY <2>1
  <2>3. [tab[t] EXCEPT !.since = tab[t].since] = tab[t]
    BY <1>0 DEF Tab
  <2>4. tab' = tab
    BY <1>0, <2>1, <2>2, <2>3 DEF GetStartedTypeOK
  <2>5. /\ completed' \in BOOLEAN /\ over' \in BOOLEAN /\ dismissed' \in BOOLEAN
        /\ over' => completed' \/ dismissed'
    BY <2>1, FragmentRendered
  <2> QED
    BY <2>1, <2>4, <2>5 DEF StartedInv, GetStartedTypeOK, TabHolds, OfAgent
<1>7. CASE BoardGoesOn
  <2>1. UNCHANGED <<completed, dismissed, tab, over>>
    BY <1>7 DEF BoardGoesOn
  <2>2. CASE (\E thing \in Things : Comes(thing) \/ GoesAway(thing)) /\ UNCHANGED activity
    BY <2>1, <2>2 DEF Comes, GoesAway, StartedInv, GetStartedTypeOK, TabHolds, OfAgent
  <2>3. PICK k \in 0..MaxEvents : DOMAIN activity = 1..k
    BY DEF StartedInv
  <2>4. ASSUME NEW agent \in BOOLEAN, EventWritten(agent), UNCHANGED has PROVE StartedInv'
    <3> DEFINE new == [agent |-> agent, state |-> "open"]
    <3>1. Cardinality(DOMAIN activity) = k /\ k \in Nat
      BY <1>0, <2>3, FS_Interval
    <3>2. /\ k < MaxEvents /\ DOMAIN activity' = 1..(k + 1)
          /\ \A e \in 1..(k + 1) : activity'[e] = IF e \in 1..k THEN activity[e] ELSE new
      BY <2>3, <2>4, <3>1 DEF EventWritten
    <3>3. new \in [agent : BOOLEAN, state : {"open", "committed", "undone"}]
      OBVIOUS
    <3> HIDE DEF new
    <3>4. GetStartedTypeOK'
      <4>1. DOMAIN activity' \subseteq EventIds
        BY <1>0, <3>1, <3>2 DEF EventIds
      <4>2. \A e \in DOMAIN activity' :
              activity'[e] \in [agent : BOOLEAN, state : {"open", "committed", "undone"}]
        BY <1>0, <2>3, <3>2, <3>3 DEF GetStartedTypeOK
      <4> QED
        BY <1>0, <2>1, <2>4, <4>1, <4>2 DEF GetStartedTypeOK
    <3>5. ASSUME NEW t \in Tabs PROVE TabHolds(t)'
      <4>1. tab'[t] = tab[t] /\ TabHolds(t) /\ tab[t] \in Tab
        BY <1>0, <2>1
      <4>2. ASSUME tab[t].at = "listening"
            PROVE  /\ tab[t].since \cap ({0} \cup 1..(k + 1)) # {}
                   /\ \A e \in OfAgent(DOMAIN activity)' :
                        e \in tab[t].gap \/ \E n \in tab[t].since : e > n
        <5>1. PICK n \in tab[t].since : n \in {0} \cup 1..k
          BY <2>3, <4>1, <4>2 DEF TabHolds
        <5>2. n \in {0} \cup 1..(k + 1) /\ k + 1 > n
          BY <3>1, <5>1
        <5>3. ASSUME NEW e \in OfAgent(DOMAIN activity)'
              PROVE  e \in tab[t].gap \/ \E i \in tab[t].since : e > i
          <6>1. e \in 1..(k + 1) /\ activity'[e].agent
            BY <3>2, <5>3 DEF OfAgent
          <6>2. CASE e \in 1..k
            <7>1. e \in OfAgent(DOMAIN activity)
              BY <2>3, <3>2, <6>1, <6>2 DEF OfAgent
            <7> QED
              BY <4>1, <4>2, <7>1 DEF TabHolds
          <6>3. CASE e = k + 1
            BY <5>1, <5>2, <6>3
          <6> QED
            BY <3>1, <6>1, <6>2, <6>3
        <5> QED
          BY <5>1, <5>2, <5>3
      <4> QED
        BY <3>2, <4>1, <4>2 DEF TabHolds
    <3>6. k + 1 \in 0..MaxEvents
      BY <1>0, <3>1, <3>2
    <3> QED
      BY <2>1, <3>2, <3>4, <3>5, <3>6 DEF StartedInv
  <2>5. ASSUME NEW e \in DOMAIN activity, NEW state \in {"committed", "undone"},
               EventEnds(e, state), UNCHANGED has
        PROVE  StartedInv'
    <3>1. activity' = [activity EXCEPT ![e].state = state]
      BY <2>5 DEF EventEnds
    <3>2. DOMAIN activity' = DOMAIN activity
      BY <3>1
    <3>3. ASSUME NEW f \in DOMAIN activity
          PROVE  /\ activity'[f] \in [agent : BOOLEAN, state : {"open", "committed", "undone"}]
                 /\ activity'[f].agent = activity[f].agent
      BY <1>0, <3>1 DEF GetStartedTypeOK
    <3>4. GetStartedTypeOK'
      BY <1>0, <2>1, <2>5, <3>2, <3>3 DEF GetStartedTypeOK
    <3>5. OfAgent(DOMAIN activity)' = OfAgent(DOMAIN activity)
      BY <3>2, <3>3 DEF OfAgent
    <3>6. \A t \in Tabs : TabHolds(t)'
      BY <1>0, <2>1, <3>2, <3>5 DEF TabHolds
    <3> QED
      BY <2>1, <2>3, <3>2, <3>4, <3>6, <1>0 DEF StartedInv
  <2> QED
    BY <1>7, <2>2, <2>4, <2>5 DEF BoardGoesOn
<1>8. CASE UNCHANGED gvars
  BY <1>8 DEF gvars, StartedInv, GetStartedTypeOK, TabHolds, OfAgent
<1> QED
  BY <1>1, <1>2, <1>3, <1>4, <1>5, <1>6, <1>7, <1>8 DEF GetStartedNext

\* The checklist's state keeps its types, and every cursor is the id of an event or 0.
THEOREM GetStartedTypeCorrect == GetStartedSpec => []GetStartedTypeOK
<1>1. StartedInv => GetStartedTypeOK
  BY DEF StartedInv
<1> QED
  BY <1>1, StartedInitInv, StartedStep, PTL DEF GetStartedSpec

\* For any number of tabs and events, whose requests overlap and whose events commit in any
\* order: a checklist that is over is on no page asked for afterwards, and a tab that waits
\* for the agent is told of all it does but for what the gap of its cursors holds
\* (context_processors.py:109-145, views/onboarding.py:33-70).
THEOREM ChecklistStaysHonest == GetStartedSpec => []ChecklistIsHonest
<1>1. StartedInv => ChecklistIsHonest
  <2> SUFFICES ASSUME StartedInv PROVE ChecklistIsHonest
    OBVIOUS
  <2>1. NeverBack
    BY DEF StartedInv, TabHolds, NeverBack
  <2>2. OfAgent(Committed) \subseteq OfAgent(DOMAIN activity)
    BY DEF OfAgent, Committed
  <2>3. HearsTheAgent
    BY <2>2 DEF StartedInv, TabHolds, HearsTheAgent
  <2> QED
    BY <2>1, <2>3 DEF ChecklistIsHonest
<1> QED
  BY <1>1, StartedInitInv, StartedStep, PTL DEF GetStartedSpec

-----------------------------------------------------------------------------
(***************************************************************************)
(* The screens.                                                            *)
(***************************************************************************)
\* The rows are of finitely many slices, so that counts of disjoint sets add up.
ViewsInv == ViewsTypeOK /\ IsFiniteSet(All)

\* A change of one row.
LEMMA RowBecomes ==
  ASSUME ViewsInv, NEW s \in All, NEW row \in Row, Becomes(s, row)
  PROVE  ViewsInv'
<1>1. /\ rows' = [rows EXCEPT ![s] = row] /\ UNCHANGED <<archived, mode>>
      /\ rows \in [DOMAIN rows -> Row]
  BY DEF Becomes, ViewsInv, ViewsTypeOK
<1>2. DOMAIN rows' = DOMAIN rows /\ rows' \in [DOMAIN rows' -> Row]
  BY <1>1 DEF All
<1> QED
  BY <1>1, <1>2 DEF ViewsInv, ViewsTypeOK, All

LEMMA ViewsStep == ViewsInv /\ [ViewsNext]_viewvars => ViewsInv'
<1> SUFFICES ASSUME ViewsInv, [ViewsNext]_viewvars PROVE ViewsInv'
  OBVIOUS
<1>0. /\ DOMAIN rows \subseteq Slices /\ rows \in [DOMAIN rows -> Row] /\ IsFiniteSet(DOMAIN rows)
      /\ archived \subseteq Areas /\ mode \in {"count", "days"} /\ Steps \in Nat
  BY ViewsAssumption DEF ViewsInv, ViewsTypeOK, All
<1>1. ASSUME NEW s \in Slices, NEW area \in Places, Capture(s, area) PROVE ViewsInv'
  <2>1. Captured(area) \in Row
    BY <1>0 DEF Captured, Row
  <2>2. /\ rows' = [t \in DOMAIN rows \cup {s} |-> IF t = s THEN Captured(area) ELSE rows[t]]
        /\ UNCHANGED <<archived, mode>>
    BY <1>1 DEF Capture, All
  <2>3. DOMAIN rows' = DOMAIN rows \cup {s} /\ rows' \in [DOMAIN rows' -> Row]
    BY <1>0, <2>1, <2>2
  <2>4. IsFiniteSet(DOMAIN rows')
    BY <1>0, <2>3, FS_AddElement
  <2> QED
    BY <1>0, <2>2, <2>3, <2>4 DEF ViewsInv, ViewsTypeOK, All
<1>2. ASSUME NEW s \in All,
             \/ \E area \in Places : File(s, area)
             \/ \E status \in {"open", "shipped", "dropped"} : Decide(s, status)
             \/ \E priority \in Priorities \cup {Unranked} : Rank(s, priority)
             \/ \E spec \in BOOLEAN : WriteSpec(s, spec)
             \/ WindowPasses(s)
      PROVE  ViewsInv'
  <2>1. rows[s] \in Row
    BY <1>0 DEF All
  <2>2. \A area \in Places : [rows[s] EXCEPT !.area = area] \in Row
    BY <2>1 DEF Row
  <2>3. \A status \in {"open", "shipped", "dropped"} :
          [rows[s] EXCEPT !.status = status, !.fresh = (status = "shipped")] \in Row
    BY <2>1 DEF Row
  <2>4. \A priority \in Priorities \cup {Unranked} : [rows[s] EXCEPT !.priority = priority] \in Row
    BY <2>1 DEF Row
  <2>5. \A spec \in BOOLEAN : [rows[s] EXCEPT !.spec = spec] \in Row
    BY <2>1 DEF Row
  <2>6. [rows[s] EXCEPT !.fresh = FALSE] \in Row
    BY <2>1 DEF Row
  <2> QED
    BY <1>2, <2>2, <2>3, <2>4, <2>5, <2>6, RowBecomes
    DEF File, Decide, Rank, WriteSpec, WindowPasses
<1>3. ASSUME NEW s \in All, NEW from \in StepStatuses,
             \/ AddStep(s, from) \/ DeleteStep(s, from)
             \/ \E to \in StepStatuses \ {from} : SetStep(s, from, to)
      PROVE  ViewsInv'
  <2>1. rows[s] \in Row
    BY <1>0 DEF All
  <2>2. \A status \in StepStatuses : rows[s][status] \in 0..Steps
    BY <2>1 DEF Row, StepStatuses
  <2>3. \A status \in StepStatuses, n \in 0..Steps :
          /\ [rows[s] EXCEPT ![status] = n] \in Row
          /\ \A to \in StepStatuses \ {status}, i \in 0..Steps :
               [rows[s] EXCEPT ![status] = n, ![to] = i] \in Row
    BY <2>1 DEF Row, StepStatuses
  <2>4. CASE AddStep(s, from)
    <3>1. rows[s][from] + 1 \in 0..Steps
      BY <1>0, <2>2, <2>4 DEF AddStep
    <3> QED
      BY <2>3, <2>4, <3>1, RowBecomes DEF AddStep
  <2>5. CASE DeleteStep(s, from)
    <3>1. rows[s][from] - 1 \in 0..Steps
      BY <1>0, <2>2, <2>5 DEF DeleteStep
    <3> QED
      BY <2>3, <2>5, <3>1, RowBecomes DEF DeleteStep
  <2>6. ASSUME NEW to \in StepStatuses \ {from}, SetStep(s, from, to) PROVE ViewsInv'
    <3>1. rows[s][from] - 1 \in 0..Steps /\ rows[s][to] + 1 \in 0..Steps
      BY <1>0, <2>2, <2>6 DEF SetStep
    <3>2. [rows[s] EXCEPT ![from] = rows[s][from] - 1, ![to] = rows[s][to] + 1] \in Row
      BY <2>3, <3>1
    <3> QED
      BY <2>1, <2>6, <3>2, RowBecomes DEF SetStep
  <2> QED
    BY <1>3, <2>4, <2>5, <2>6
<1>4. ASSUME NEW a \in Areas, DeleteArea(a) PROVE ViewsInv'
  <2>1. \A s \in DOMAIN rows : [rows[s] EXCEPT !.area = Inbox] \in Row
    BY <1>0 DEF Row, Places
  <2>2. /\ DOMAIN rows' = DOMAIN rows /\ rows' \in [DOMAIN rows' -> Row]
        /\ UNCHANGED <<archived, mode>>
    BY <1>0, <1>4, <2>1 DEF DeleteArea, All
  <2> QED
    BY <1>0, <2>2 DEF ViewsInv, ViewsTypeOK, All
<1>5. ASSUME NEW a \in Areas, Archive(a) PROVE ViewsInv'
  BY <1>0, <1>5 DEF Archive, ViewsInv, ViewsTypeOK, All
<1>6. CASE UNCHANGED viewvars
  BY <1>6 DEF viewvars, ViewsInv, ViewsTypeOK, All
<1> QED
  BY <1>1, <1>2, <1>3, <1>4, <1>5, <1>6 DEF ViewsNext

LEMMA ViewsInitInv == ViewsInit => ViewsInv
<1> SUFFICES ASSUME ViewsInit PROVE ViewsInv
  OBVIOUS
<1>1. DOMAIN rows = {} /\ rows \in [DOMAIN rows -> Row]
  BY DEF ViewsInit
<1> QED
  BY <1>1, FS_EmptySet DEF ViewsInit, ViewsInv, ViewsTypeOK, All

\* The rows the screens read keep their types, and are finitely many.
THEOREM ViewsTypeCorrect == ViewsSpec => []ViewsTypeOK
<1>1. ViewsInv => ViewsTypeOK
  BY DEF ViewsInv
<1> QED
  BY <1>1, ViewsInitInv, ViewsStep, PTL DEF ViewsSpec

\* Of whatever slices and areas: each slice is in the Inbox, on the org's board or in the
\* list behind it (pages.py:18-28, slices.py:352-395).
THEOREM EverySliceIsShown == ViewsSpec => []EverySliceIsOnAScreen
<1>1. ViewsInv => EverySliceIsOnAScreen
  <2> SUFFICES ASSUME ViewsInv, NEW s \in All
               PROVE  \/ s \in InboxFilter(All)
                      \/ \E column \in BoardColumns : s \in OrgBoard.groups[column]
                      \/ s \in FocusedList(rows[s].status)
    BY DEF EverySliceIsOnAScreen
  <2>1. rows[s] \in Row
    BY DEF ViewsInv, ViewsTypeOK, All
  <2>2. CASE rows[s].status = "open"
    BY <2>2 DEF InboxFilter, FocusedList, RoadmapState, FiledSlices
  <2>3. CASE rows[s].status \in {"shipped", "dropped"}
    BY <2>3 DEF FocusedList, Under
  <2> QED
    BY <2>1, <2>2, <2>3 DEF Row
<1> QED
  BY <1>1, ViewsInitInv, ViewsStep, PTL DEF ViewsSpec

\* A decided slice is in no other stage, and an open one in one of the four open columns.
LEMMA StagesOf ==
  ASSUME ViewsInv, NEW s \in All
  PROVE  /\ rows[s] \in Row /\ rows[s].status \in {"open", "shipped", "dropped"}
         /\ rows[s].status = "open" <=> StageOf(s) \in OpenColumns
         /\ \A status \in {"shipped", "dropped"} : rows[s].status = status <=> StageOf(s) = status
<1>1. rows[s] \in Row
  BY DEF ViewsInv, ViewsTypeOK, All
<1> QED
  BY <1>1 DEF StageOf, SliceStage, Row, OpenColumns, BoardColumns

\* A column of a board: the slices of its query in that stage.
LEMMA ColumnsOf ==
  ASSUME NEW set
  PROVE  /\ \A c \in OpenColumns : BoardOf(set).groups[c] = {s \in set : StageOf(s) = c}
         /\ BoardOf(set).shippedTotal = Cardinality({s \in set : StageOf(s) = "shipped"})
         /\ BoardOf(set).dropped = Cardinality({s \in set : StageOf(s) = "dropped"})
  BY DEF BoardOf, OpenColumns, BoardColumns

\* At every moment each screen and each read lists the slices that the others list.
THEOREM ScreensListTheSame == ViewsSpec => []SameSlices
<1>1. ViewsInv => SameSlices
  <2> SUFFICES ASSUME ViewsInv PROVE SameSlices
    OBVIOUS
  <2>1. HomeState.inProgress = OrgBoard.groups["executing"]
    BY ColumnsOf DEF HomeState, OrgBoard, OpenColumns, BoardColumns
  <2>2. YourTurn.slices = OrgBoard.groups["needs_design"] \cup OrgBoard.groups["ready_to_ship"]
    <3>1. YourTurn.slices
            = {s \in FiledSlices(All) : StageOf(s) \in {"needs_design", "ready_to_ship"}}
      BY StagesOf DEF YourTurn, FiledSlices, Under, OpenColumns, BoardColumns
    <3>2. \A c \in {"needs_design", "ready_to_ship"} :
            OrgBoard.groups[c] = {s \in FiledSlices(All) : StageOf(s) = c}
      <4>1. "needs_design" \in OpenColumns /\ "ready_to_ship" \in OpenColumns
        BY DEF OpenColumns, BoardColumns
      <4>2. \A c \in OpenColumns : OrgBoard.groups[c] = {s \in FiledSlices(All) : StageOf(s) = c}
        BY ColumnsOf DEF OrgBoard
      <4> QED
        BY <4>1, <4>2
    <3> QED
      BY <3>1, <3>2
  <2>3. ASSUME NEW c \in OpenColumns
        PROVE  /\ OrgBoard.groups[c] = UNION {AreaBoard(a).groups[c] : a \in Areas}
               /\ \A s \in OrgBoard.groups[c] : StageOnItsPage(s) = c /\ CanDelegate(s)
    <3>1. OrgBoard.groups[c] = {s \in FiledSlices(All) : StageOf(s) = c}
      BY ColumnsOf DEF OrgBoard
    <3>2. \A a \in Areas : AreaBoard(a).groups[c] = {s \in InArea(a) : StageOf(s) = c}
      BY ColumnsOf DEF AreaBoard
    <3>3. \A s \in All : s \in FiledSlices(All) <=> \E a \in Areas : s \in InArea(a)
      BY StagesOf, ViewsAssumption DEF Row, Places, FiledSlices, InArea
    <3>4. FiledSlices(All) \subseteq All /\ \A a \in Areas : InArea(a) \subseteq All
      BY DEF FiledSlices, InArea
    <3>5. OrgBoard.groups[c] = UNION {AreaBoard(a).groups[c] : a \in Areas}
      BY <3>1, <3>2, <3>3, <3>4
    <3>6. \A s \in All : StageOf(s) = StageOnItsPage(s)
      BY DEF StageOf, StageOnItsPage, Annotated, BiteProgress
    <3> QED
      BY <3>1, <3>4, <3>5, <3>6, <2>3 DEF CanDelegate
  <2> QED
    BY <2>1, <2>2, <2>3 DEF SameSlices
<1> QED
  BY <1>1, ViewsInitInv, ViewsStep, PTL DEF ViewsSpec

\* At every moment the counts of each screen and each read are those of the others.
THEOREM ScreensCountTheSame == ViewsSpec => []SameCounts
<1>1. ViewsInv => SameCounts
  <2> SUFFICES ASSUME ViewsInv PROVE SameCounts
    OBVIOUS
  <2>1. HomeState.open = Cardinality(UNION {OrgBoard.groups[c] : c \in OpenColumns})
    <3>1. \A c \in OpenColumns : OrgBoard.groups[c] = {s \in FiledSlices(All) : StageOf(s) = c}
      BY ColumnsOf DEF OrgBoard
    <3>2. FiledSlices(All) \subseteq All
      BY DEF FiledSlices
    <3>3. UNION {OrgBoard.groups[c] : c \in OpenColumns}
            = {s \in FiledSlices(All) : rows[s].status = "open"}
      BY <3>1, <3>2, StagesOf
    <3> QED
      BY <3>3 DEF HomeState
  <2>2. Cardinality(HomeState.shipped) = OrgBoard.shippedTotal
    <3>1. HomeState.shipped = {s \in FiledSlices(All) : StageOf(s) = "shipped"}
      BY StagesOf DEF HomeState, FiledSlices
    <3> QED
      BY <3>1, ColumnsOf DEF OrgBoard
  <2>3. ASSUME NEW a \in Areas
        PROVE  /\ AreaCard(a).executing = Cardinality(AreaBoard(a).groups["executing"])
               /\ AreaCard(a).total = Cardinality(InArea(a)) - AreaBoard(a).dropped
               /\ AreaCard(a).shipped = AreaBoard(a).shippedTotal
    <3> DEFINE kept == {s \in InArea(a) : rows[s].status # "dropped"}
               dropped == {s \in InArea(a) : rows[s].status = "dropped"}
    <3>1. InArea(a) \subseteq All /\ IsFiniteSet(InArea(a))
      BY FS_Subset DEF InArea, ViewsInv
    <3>2. /\ {s \in kept : StageOf(s) = "executing"} = {s \in InArea(a) : StageOf(s) = "executing"}
          /\ {s \in kept : rows[s].status = "shipped"} = {s \in InArea(a) : StageOf(s) = "shipped"}
          /\ dropped = {s \in InArea(a) : StageOf(s) = "dropped"}
      BY <3>1, StagesOf
    <3>3. Cardinality(kept) = Cardinality(InArea(a)) - Cardinality(dropped)
      <4>1. kept = InArea(a) \ dropped /\ InArea(a) \cap dropped = dropped
        OBVIOUS
      <4> HIDE DEF kept, dropped
      <4> QED
        BY <3>1, <4>1, FS_Difference
    <3>4. AreaCard(a) = [total |-> Cardinality(kept),
                         executing |-> Cardinality({s \in kept : StageOf(s) = "executing"}),
                         shipped |-> Cardinality({s \in kept : rows[s].status = "shipped"})]
      BY DEF AreaCard
    <3>5. /\ AreaBoard(a).groups["executing"] = {s \in InArea(a) : StageOf(s) = "executing"}
          /\ AreaBoard(a).shippedTotal = Cardinality({s \in InArea(a) : StageOf(s) = "shipped"})
          /\ AreaBoard(a).dropped = Cardinality({s \in InArea(a) : StageOf(s) = "dropped"})
      BY ColumnsOf DEF AreaBoard, OpenColumns, BoardColumns
    <3>6. /\ AreaCard(a).total = Cardinality(kept)
          /\ AreaCard(a).executing = Cardinality({s \in kept : StageOf(s) = "executing"})
          /\ AreaCard(a).shipped = Cardinality({s \in kept : rows[s].status = "shipped"})
      BY <3>4
    <3> HIDE DEF kept, dropped
    <3>7. AreaCard(a).total = Cardinality(InArea(a)) - AreaBoard(a).dropped
      BY <3>2, <3>3, <3>5, <3>6
    <3>8. AreaCard(a).executing = Cardinality(AreaBoard(a).groups["executing"])
      BY <3>2, <3>5, <3>6
    <3>9. AreaCard(a).shipped = AreaBoard(a).shippedTotal
      BY <3>2, <3>5, <3>6
    <3> QED
      BY <3>7, <3>8, <3>9
  <2>4. ASSUME NEW a \in DOMAIN SidebarAreas
        PROVE  SidebarAreas[a]
                 = AreaState(a).open + Cardinality(FocusedList("shipped") \cap InArea(a))
    <3> DEFINE kept == {s \in All : rows[s].area = a /\ rows[s].status # "dropped"}
               open == AreaList(a, "open")
               shipped == FocusedList("shipped") \cap InArea(a)
    <3>1. SidebarAreas[a] = Cardinality(kept) /\ AreaState(a).open = Cardinality(open)
      BY DEF SidebarAreas, SliceCount, AreaState
    <3>2. kept = open \cup shipped /\ open \cap shipped = {}
      BY StagesOf DEF AreaList, FocusedList, Under, InArea
    <3>3. open \subseteq All /\ shipped \subseteq All /\ IsFiniteSet(All)
      BY DEF AreaList, FocusedList, Under, InArea, ViewsInv
    <3> HIDE DEF kept, open, shipped
    <3>4. IsFiniteSet(open) /\ IsFiniteSet(shipped)
      BY <3>3, FS_Subset
    <3>5. Cardinality(open) \in Nat /\ Cardinality(shipped) \in Nat
      BY <3>4, FS_CardinalityType
    <3>6. Cardinality(open \cup shipped)
            = Cardinality(open) + Cardinality(shipped) - Cardinality(open \cap shipped)
      BY <3>4, FS_Union
    <3>7. Cardinality(open \cap shipped) = 0
      BY <3>2, FS_EmptySet
    <3>8. SidebarAreas[a] = AreaState(a).open + Cardinality(shipped)
      BY <3>1, <3>2, <3>5, <3>6, <3>7
    <3> QED
      BY <3>8 DEF shipped
  <2>5. /\ YourTurn.inbox = ProjectState.inbox
        /\ ProjectState.inbox = Cardinality(ListTool(Inbox, "any"))
    <3>1. ListTool(Inbox, "any") = InboxFilter(All)
      BY ViewsAssumption DEF ListTool, QuerySlices, InboxFilter
    <3> QED
      BY <3>1 DEF YourTurn, ProjectState
  <2>6. ASSUME NEW status \in {"open", "shipped", "dropped"}
        PROVE  /\ ProjectState.totals[status] = Cardinality(ListTool("any", status))
               /\ \A a \in Areas \ archived :
                    ProjectState.areas[a][status] = Cardinality(ListTool(a, status))
    <3>1. ListTool("any", status) = Under(status)
      BY ViewsAssumption DEF ListTool, QuerySlices, Under
    <3>2. ASSUME NEW a \in Areas \ archived
          PROVE  ProjectState.areas[a][status] = Cardinality(ListTool(a, status))
      <4>1. a # Inbox
        BY ViewsAssumption
      <4>2. ListTool(a, status) = AreaList(a, status)
        BY <4>1 DEF ListTool, QuerySlices, AreaList, InArea
      <4>3. ProjectState.areas[a] = AreaState(a)
        BY DEF ProjectState
      <4>4. AreaState(a)[status] = Cardinality(AreaList(a, status))
        BY DEF AreaState
      <4> QED
        BY <4>2, <4>3, <4>4
    <3> QED
      BY <3>1, <3>2 DEF ProjectState
  <2> QED
    BY <2>1, <2>2, <2>3, <2>4, <2>5, <2>6 DEF SameCounts
<1> QED
  BY <1>1, ViewsInitInv, ViewsStep, PTL DEF ViewsSpec

\* What the org's board counts of a stage is the sum of what its areas' boards count.
LEMMA AreasSum ==
  ASSUME ViewsInv, NEW stage \in {"shipped", "dropped"}, NEW f, DOMAIN f = Areas,
         \A a \in Areas : f[a] = Cardinality({s \in InArea(a) : StageOf(s) = stage})
  PROVE  SumFunction(f) = Cardinality({s \in FiledSlices(All) : StageOf(s) = stage})
<1> DEFINE F == [a \in Areas |-> {s \in InArea(a) : StageOf(s) = stage}]
<1>1. IsFiniteSet(Areas) /\ IsFiniteSet(All)
  BY ViewsAssumption DEF ViewsInv
<1>2. \A a \in Areas : F[a] \subseteq All /\ f[a] = Cardinality(F[a])
  BY DEF InArea
<1>3. \A a \in Areas : IsFiniteSet(F[a])
  BY <1>1, <1>2, FS_Subset
<1>4. \A a, b \in Areas : a # b => F[a] \cap F[b] = {}
  BY DEF InArea
<1>5. UNION {F[a] : a \in Areas} = {s \in FiledSlices(All) : StageOf(s) = stage}
  <2>1. \A s \in All : s \in FiledSlices(All) <=> \E a \in Areas : s \in InArea(a)
    BY StagesOf, ViewsAssumption DEF Row, Places, FiledSlices, InArea
  <2>2. FiledSlices(All) \subseteq All /\ \A a \in Areas : InArea(a) \subseteq All
    BY DEF FiledSlices, InArea
  <2> QED
    BY <2>1, <2>2
<1> HIDE DEF F
<1>6. SumFunction(f) = Cardinality(UNION {F[a] : a \in Areas})
  BY <1>1, <1>2, <1>3, <1>4, SumOfSizes
<1> QED
  BY <1>5, <1>6

\* The screens and the reads always agree: on the slices, on their numbers, and on the
\* org being its areas (state.py, pages.py, slices.py:50-100).
THEOREM ScreensAlwaysAgree == ViewsSpec => []ScreensAgree
<1>1. ViewsInv => AreasAddUp
  <2> SUFFICES ASSUME ViewsInv PROVE AreasAddUp
    OBVIOUS
  <2>1. /\ OrgBoard.shippedTotal = Cardinality({s \in FiledSlices(All) : StageOf(s) = "shipped"})
        /\ OrgBoard.dropped = Cardinality({s \in FiledSlices(All) : StageOf(s) = "dropped"})
    BY ColumnsOf DEF OrgBoard
  <2>2. \A a \in Areas :
          /\ AreaBoard(a).shippedTotal = Cardinality({s \in InArea(a) : StageOf(s) = "shipped"})
          /\ AreaBoard(a).dropped = Cardinality({s \in InArea(a) : StageOf(s) = "dropped"})
    BY ColumnsOf DEF AreaBoard
  <2> DEFINE shipped == [a \in Areas |-> AreaBoard(a).shippedTotal]
             dropped == [a \in Areas |-> AreaBoard(a).dropped]
  <2>3. /\ \A a \in Areas : shipped[a] = Cardinality({s \in InArea(a) : StageOf(s) = "shipped"})
        /\ \A a \in Areas : dropped[a] = Cardinality({s \in InArea(a) : StageOf(s) = "dropped"})
    BY <2>2
  <2>4. DOMAIN shipped = Areas /\ DOMAIN dropped = Areas
    OBVIOUS
  <2> HIDE DEF shipped, dropped
  <2>5. SumFunction(shipped) = Cardinality({s \in FiledSlices(All) : StageOf(s) = "shipped"})
    BY <2>3, <2>4, AreasSum
  <2>6. SumFunction(dropped) = Cardinality({s \in FiledSlices(All) : StageOf(s) = "dropped"})
    BY <2>3, <2>4, AreasSum
  <2> QED
    BY <2>1, <2>5, <2>6 DEF AreasAddUp, shipped, dropped
<1>2. SameSlices /\ SameCounts /\ AreasAddUp => ScreensAgree
  BY DEF ScreensAgree
<1> QED
  BY <1>1, <1>2, ScreensListTheSame, ScreensCountTheSame, ViewsInitInv, ViewsStep, PTL
  DEF ViewsSpec

-----------------------------------------------------------------------------
(***************************************************************************)
(* The export.                                                             *)
(***************************************************************************)
\* What lasts is on the board, and each query that was made has what lasts since; of a
\* board nobody wrote it has all.  A step that lasts has its slice in the snapshot,
\* since steps are asked for after slices, stay with their slice, and slices stay.
OnTheBoard ==
  /\ lasting \cap AreaIds \subseteq areaRows /\ lasting \cap SliceIds \subseteq DOMAIN sliceRows
  /\ lasting \cap BiteIds \subseteq DOMAIN biteRows

AreasRead == lasting \cap AreaIds \subseteq out.areas /\ (writes = 0 => out.areas = areaRows)

SlicesRead ==
  /\ lasting \cap SliceIds \subseteq DOMAIN out.slices
  /\ \A b \in lasting \cap BiteIds : biteRows[b].slice \in DOMAIN out.slices
  /\ writes = 0 => out.slices = RowsOfSlices

BitesRead ==
  /\ \A b \in lasting \cap BiteIds :
       b \in DOMAIN out.bites /\ out.bites[b].slice \in DOMAIN out.slices
  /\ writes = 0 => out.bites = biteRows

LogRead == lasting \cap log \subseteq out.log /\ (writes = 0 => out.log = log)

SnapshotHolds ==
  /\ out.query # "areas" => AreasRead
  /\ out.query \in {"bites", "activity", "made"} => SlicesRead
  /\ out.query \in {"activity", "made"} => BitesRead
  /\ out.query = "made" => LogRead

\* Events are numbered as they are recorded, and the snapshot has no others.
LogNumbered ==
  /\ \A e \in log : e.id <= Cardinality(log)
  /\ \A e, f \in log : e.id = f.id => e = f
  /\ out.log \subseteq log

ExportInv ==
  /\ ExportTypeOK /\ IsFiniteSet(log) /\ OnTheBoard /\ SnapshotHolds /\ LogNumbered
  /\ out = [query |-> out.query, areas |-> out.areas, slices |-> out.slices,
            bites |-> out.bites, log |-> out.log]

LEMMA ExportInitInv == ExportInit => ExportInv
<1> SUFFICES ASSUME ExportInit PROVE ExportInv
  OBVIOUS
<1>1. /\ areaRows \subseteq AreaIds /\ DOMAIN sliceRows \subseteq SliceIds
      /\ Range(sliceRows) \subseteq areaRows \cup {NoArea}
  <2>1. PICK set \in SUBSET SliceIds : sliceRows \in [set -> areaRows \cup {NoArea}]
    BY DEF ExportInit
  <2> QED
    BY <2>1 DEF ExportInit, Range
<1>2. /\ DOMAIN biteRows \subseteq BiteIds /\ Range(biteRows) \subseteq BiteRow
      /\ \A b \in DOMAIN biteRows : biteRows[b].slice \in DOMAIN sliceRows
  <2>1. PICK set \in SUBSET BiteIds :
          /\ biteRows \in [set -> BiteRow]
          /\ \A b \in set : biteRows[b].slice \in DOMAIN sliceRows
    BY DEF ExportInit
  <2> QED
    BY <2>1 DEF Range
<1>3. /\ log \subseteq LoggedEvent /\ IsFiniteSet(log)
      /\ \A e \in log : e.id <= Cardinality(log)
      /\ \A e, f \in log : e.id = f.id => e = f
  <2> DEFINE there == DOMAIN sliceRows \cup BiteIds
  <2>0. PICK n \in {0, 2} : \E on \in [1..n -> there], at \in [1..n -> 1..2] :
          log = {[id |-> i, at |-> at[i], on |-> on[i]] : i \in 1..n}
    BY DEF ExportInit
  <2>1. PICK on \in [1..n -> there], at \in [1..n -> 1..2] :
          log = {[id |-> i, at |-> at[i], on |-> on[i]] : i \in 1..n}
    BY <2>0
  <2>2. there \subseteq AreaIds \cup SliceIds \cup BiteIds
    BY <1>1
  <2> HIDE DEF there
  <2>3. CASE n = 0
    <3>1. log = {}
      BY <2>1, <2>3
    <3> QED
      BY <3>1, FS_EmptySet
  <2>4. CASE n = 2
    <3> DEFINE E(i) == [id |-> i, at |-> at[i], on |-> on[i]]
    <3>1. 1..n = {1, 2} /\ 1 \in 1..MaxLog /\ 2 \in 1..MaxLog
      BY <2>4, ExportAssumption
    <3>2. log = {E(1)} \cup {E(2)}
      BY <2>1, <3>1
    <3>3. /\ at[1] \in 1..2 /\ at[2] \in 1..2
          /\ on[1] \in AreaIds \cup SliceIds \cup BiteIds
          /\ on[2] \in AreaIds \cup SliceIds \cup BiteIds
      BY <2>1, <2>2, <3>1
    <3>4. E(1) \in LoggedEvent /\ E(2) \in LoggedEvent /\ E(1).id = 1 /\ E(2).id = 2
      BY <3>1, <3>3 DEF LoggedEvent
    <3> HIDE DEF E
    <3>5. IsFiniteSet({E(1)}) /\ Cardinality({E(1)}) = 1
      BY FS_Singleton
    <3>6. E(2) \notin {E(1)}
      BY <3>4
    <3>7. IsFiniteSet(log) /\ Cardinality(log) = 2
      BY <3>2, <3>5, <3>6, FS_AddElement
    <3>8. \A e \in log : e = E(1) \/ e = E(2)
      BY <3>2
    <3> QED
      BY <3>4, <3>7, <3>8
  <2> QED
    BY <2>3, <2>4
<1>4. /\ out = [query |-> "areas", areas |-> {}, slices |-> << >>, bites |-> << >>, log |-> {}]
      /\ writes = 0 /\ lasting = areaRows \cup DOMAIN sliceRows \cup DOMAIN biteRows \cup log
  BY DEF ExportInit
<1>5. DOMAIN out.slices \subseteq SliceIds /\ DOMAIN out.bites \subseteq BiteIds
  <2>1. DOMAIN << >> = {}
    OBVIOUS
  <2> QED
    BY <1>4, <2>1
<1>6. ExportTypeOK
  BY <1>1, <1>2, <1>3, <1>4, <1>5, ExportAssumption DEF ExportTypeOK, QueryAfter
<1>7. OnTheBoard
  BY <1>1, <1>2, <1>3, <1>4, ExportAssumption DEF OnTheBoard
<1> QED
  BY <1>3, <1>4, <1>6, <1>7 DEF ExportInv, SnapshotHolds, LogNumbered

\* A query of collect, from the state before it to the one that it leaves.
LEMMA QueryStep ==
  ASSUME ExportInv, CollectAreas \/ CollectSlices \/ CollectBites \/ CollectActivity
  PROVE  ExportInv'
<1> DEFINE o == [query |-> out.query, areas |-> out.areas, slices |-> out.slices,
                 bites |-> out.bites, log |-> out.log]
<1>0. /\ ExportTypeOK /\ OnTheBoard /\ SnapshotHolds /\ IsFiniteSet(log) /\ out = o
      /\ LogNumbered
      /\ UNCHANGED <<areaRows, sliceRows, biteRows, log, writes, lasting>>
  BY DEF ExportInv, CollectAreas, CollectSlices, CollectBites, CollectActivity, Asks
<1>1. \/ out.query = "areas" /\ out' = [o EXCEPT !.query = "slices", !.areas = areaRows]
      \/ out.query = "slices" /\ out' = [o EXCEPT !.query = "bites", !.slices = RowsOfSlices]
      \/ out.query = "bites" /\ out' = [o EXCEPT !.query = "activity", !.bites = biteRows]
      \/ out.query = "activity" /\ out' = [o EXCEPT !.query = "made", !.log = log]
  BY <1>0 DEF CollectAreas, CollectSlices, CollectBites, CollectActivity, Asks, QueryAfter
<1>2. out' = [query |-> out'.query, areas |-> out'.areas, slices |-> out'.slices,
              bites |-> out'.bites, log |-> out'.log]
  BY <1>1
<1>3. OnTheBoard' /\ IsFiniteSet(log') /\ LogNumbered'
  <2>1. out'.log \in {out.log, log}
    BY <1>0, <1>1
  <2> QED
    BY <1>0, <2>1 DEF OnTheBoard, LogNumbered
<1>4. RowsOfSlices' = RowsOfSlices
  BY <1>0 DEF RowsOfSlices, Counts, BitesOf
<1>5. CASE out.query = "areas"
  <2>1. /\ out'.query = "slices" /\ out'.areas = areaRows
        /\ out'.slices = out.slices /\ out'.bites = out.bites /\ out'.log = out.log
    BY <1>1, <1>5
  <2>2. ExportTypeOK'
    BY <1>0, <2>1 DEF ExportTypeOK, QueryAfter
  <2>3. SnapshotHolds'
    BY <1>0, <2>1 DEF SnapshotHolds, AreasRead, OnTheBoard
  <2> QED
    BY <1>2, <1>3, <2>2, <2>3 DEF ExportInv
<1>6. CASE out.query = "slices"
  <2>1. /\ out'.query = "bites" /\ out'.slices = RowsOfSlices
        /\ out'.areas = out.areas /\ out'.bites = out.bites /\ out'.log = out.log
    BY <1>1, <1>6
  <2>2. DOMAIN RowsOfSlices = DOMAIN sliceRows
    BY DEF RowsOfSlices
  <2>3. ExportTypeOK'
    BY <1>0, <2>1, <2>2 DEF ExportTypeOK, QueryAfter
  <2>4. AreasRead'
    BY <1>0, <1>6, <2>1 DEF SnapshotHolds, AreasRead
  <2>5. SlicesRead'
    BY <1>0, <1>4, <2>1, <2>2 DEF SlicesRead, OnTheBoard, ExportTypeOK
  <2> QED
    BY <1>2, <1>3, <2>1, <2>3, <2>4, <2>5 DEF ExportInv, SnapshotHolds
<1>7. CASE out.query = "bites"
  <2>1. /\ out'.query = "activity" /\ out'.bites = biteRows
        /\ out'.areas = out.areas /\ out'.slices = out.slices /\ out'.log = out.log
    BY <1>1, <1>7
  <2>2. ExportTypeOK'
    BY <1>0, <2>1 DEF ExportTypeOK, QueryAfter
  <2>3. AreasRead' /\ SlicesRead'
    BY <1>0, <1>4, <1>7, <2>1 DEF SnapshotHolds, AreasRead, SlicesRead
  <2>4. BitesRead'
    BY <1>0, <1>7, <2>1 DEF SnapshotHolds, SlicesRead, BitesRead, OnTheBoard
  <2> QED
    BY <1>2, <1>3, <2>1, <2>2, <2>3, <2>4 DEF ExportInv, SnapshotHolds
<1>8. CASE out.query = "activity"
  <2>1. /\ out'.query = "made" /\ out'.log = log
        /\ out'.areas = out.areas /\ out'.slices = out.slices /\ out'.bites = out.bites
    BY <1>1, <1>8
  <2>2. ExportTypeOK'
    BY <1>0, <2>1 DEF ExportTypeOK, QueryAfter
  <2>3. AreasRead' /\ SlicesRead' /\ BitesRead'
    BY <1>0, <1>4, <1>8, <2>1 DEF SnapshotHolds, AreasRead, SlicesRead, BitesRead
  <2>4. LogRead'
    BY <1>0, <2>1 DEF LogRead
  <2> QED
    BY <1>2, <1>3, <2>1, <2>2, <2>3, <2>4 DEF ExportInv, SnapshotHolds
<1> QED
  BY <1>1, <1>5, <1>6, <1>7, <1>8

\* A write beside the export: of what it has to leave in order.
LEMMA WriteStep ==
  ASSUME ExportInv, NEW areas, NEW slices, NEW bites, NEW logged,
         Meanwhile(areas, slices, bites, logged),
         areas \subseteq AreaIds, DOMAIN slices \subseteq SliceIds,
         Range(slices) \subseteq areas \cup {NoArea}, DOMAIN sliceRows \subseteq DOMAIN slices,
         DOMAIN bites \subseteq BiteIds, Range(bites) \subseteq BiteRow,
         \A b \in DOMAIN bites : bites[b].slice \in DOMAIN slices,
         \A b \in DOMAIN bites \cap DOMAIN biteRows : bites[b].slice = biteRows[b].slice,
         log \subseteq logged, logged \subseteq LoggedEvent, IsFiniteSet(logged),
         \A e \in logged : e.id <= Cardinality(logged),
         \A e, f \in logged : e.id = f.id => e = f
  PROVE  ExportInv'
<1>1. /\ areaRows' = areas /\ sliceRows' = slices /\ biteRows' = bites /\ log' = logged
      /\ writes' = writes + 1 /\ writes < MaxWrites /\ out.query # "made" /\ out' = out
      /\ lasting' = lasting \ ((AreaIds \ areas) \cup (SliceIds \ DOMAIN slices)
                                                 \cup (BiteIds \ DOMAIN bites))
  BY DEF Meanwhile
<1>2. /\ ExportTypeOK /\ OnTheBoard /\ SnapshotHolds /\ writes \in Nat /\ MaxWrites \in Nat
  BY ExportAssumption DEF ExportInv, ExportTypeOK
<1>3. writes' \in 0..MaxWrites /\ writes' # 0
  BY <1>1, <1>2
<1>4. lasting' \subseteq lasting
  BY <1>1
<1>5. ExportTypeOK'
  <2>1. lasting' \subseteq AreaIds \cup SliceIds \cup BiteIds \cup log'
    BY <1>1, <1>2, <1>4 DEF ExportTypeOK
  <2> QED
    BY <1>1, <1>2, <1>3, <2>1 DEF ExportTypeOK
<1>6. OnTheBoard'
  BY <1>1 DEF OnTheBoard
<1>7. \A b \in lasting' \cap BiteIds : b \in lasting /\ biteRows'[b].slice = biteRows[b].slice
  BY <1>1, <1>2, <1>4, <1>6 DEF OnTheBoard
<1>8. SnapshotHolds'
  BY <1>1, <1>2, <1>3, <1>4, <1>7 DEF SnapshotHolds, AreasRead, SlicesRead, BitesRead
<1>9. LogNumbered'
  BY <1>1 DEF ExportInv, LogNumbered
<1> QED
  BY <1>1, <1>5, <1>6, <1>8, <1>9 DEF ExportInv

LEMMA ExportStep == ExportInv /\ [ExportNext]_evars => ExportInv'
<1> SUFFICES ASSUME ExportInv, [ExportNext]_evars PROVE ExportInv'
  OBVIOUS
<1>0. /\ areaRows \subseteq AreaIds /\ DOMAIN sliceRows \subseteq SliceIds
      /\ \A s \in DOMAIN sliceRows : sliceRows[s] \in areaRows \cup {NoArea}
      /\ DOMAIN biteRows \subseteq BiteIds
      /\ \A b \in DOMAIN biteRows : biteRows[b] \in BiteRow
      /\ \A b \in DOMAIN biteRows : biteRows[b].slice \in DOMAIN sliceRows
      /\ log \subseteq LoggedEvent /\ IsFiniteSet(log)
      /\ \A e \in log : e.id <= Cardinality(log)
      /\ \A e, f \in log : e.id = f.id => e = f
  BY DEF ExportInv, ExportTypeOK, Range, LogNumbered
<1>1. CASE CollectAreas \/ CollectSlices \/ CollectBites \/ CollectActivity
  BY <1>1, QueryStep
<1>2. ASSUME NEW a \in AreaIds, NewArea(a) PROVE ExportInv'
  BY <1>0, <1>2, WriteStep DEF NewArea, Range
<1>3. ASSUME NEW a \in AreaIds, DropArea(a) PROVE ExportInv'
  <2> DEFINE slices == [s \in DOMAIN sliceRows |->
                          IF sliceRows[s] = a THEN NoArea ELSE sliceRows[s]]
  <2>1. Meanwhile(areaRows \ {a}, slices, biteRows, log)
    BY <1>3 DEF DropArea
  <2>2. DOMAIN slices = DOMAIN sliceRows /\ Range(slices) \subseteq (areaRows \ {a}) \cup {NoArea}
    BY <1>0 DEF Range
  <2> HIDE DEF slices
  <2>3. Range(biteRows) \subseteq BiteRow
    BY <1>0 DEF Range
  <2> QED
    BY <1>0, <2>1, <2>2, <2>3, WriteStep
<1>4. ASSUME NEW s \in SliceIds, NEW a \in AreaIds \cup {NoArea}, NewOrFiled(s, a)
      PROVE  ExportInv'
  <2> DEFINE slices == With(sliceRows, s, a)
  <2>1. Meanwhile(areaRows, slices, biteRows, log) /\ a \in areaRows \cup {NoArea}
    BY <1>4 DEF NewOrFiled
  <2>2. /\ DOMAIN slices = DOMAIN sliceRows \cup {s}
        /\ Range(slices) \subseteq areaRows \cup {NoArea}
    BY <1>0, <2>1 DEF Range, With
  <2> HIDE DEF slices
  <2>3. Range(biteRows) \subseteq BiteRow
    BY <1>0 DEF Range
  <2> QED
    BY <1>0, <2>1, <2>2, <2>3, WriteStep
<1>5. ASSUME NEW b \in BiteIds, NEW s \in SliceIds, NewBite(b, s) PROVE ExportInv'
  <2> DEFINE bites == With(biteRows, b, [slice |-> s, done |-> FALSE])
  <2>1. /\ Meanwhile(areaRows, sliceRows, bites, log)
        /\ b \notin DOMAIN biteRows /\ s \in DOMAIN sliceRows
    BY <1>5 DEF NewBite
  <2>2. /\ DOMAIN bites = DOMAIN biteRows \cup {b} /\ bites[b].slice = s /\ bites[b] \in BiteRow
        /\ \A c \in DOMAIN biteRows : bites[c] = biteRows[c]
    BY <2>1 DEF With, BiteRow
  <2> HIDE DEF bites
  <2>3. Range(bites) \subseteq BiteRow /\ Range(sliceRows) \subseteq areaRows \cup {NoArea}
    BY <1>0, <2>2 DEF Range
  <2>4. \A c \in DOMAIN bites : bites[c].slice \in DOMAIN sliceRows
    BY <1>0, <2>1, <2>2
  <2> QED
    BY <1>0, <2>1, <2>2, <2>3, <2>4, WriteStep
<1>6. ASSUME NEW b \in BiteIds, Tick(b) PROVE ExportInv'
  <2> DEFINE bites == [biteRows EXCEPT ![b].done = ~biteRows[b].done]
  <2>1. Meanwhile(areaRows, sliceRows, bites, log) /\ b \in DOMAIN biteRows
    BY <1>6 DEF Tick
  <2>2. [biteRows[b] EXCEPT !.done = ~biteRows[b].done] \in BiteRow
    BY <1>0, <2>1 DEF BiteRow
  <2>3. /\ DOMAIN bites = DOMAIN biteRows
        /\ \A c \in DOMAIN biteRows : bites[c] \in BiteRow /\ bites[c].slice = biteRows[c].slice
    BY <1>0, <2>1, <2>2 DEF BiteRow
  <2> HIDE DEF bites
  <2>4. Range(bites) \subseteq BiteRow /\ Range(sliceRows) \subseteq areaRows \cup {NoArea}
    BY <1>0, <2>3 DEF Range
  <2> QED
    BY <1>0, <2>1, <2>3, <2>4, WriteStep
<1>7. ASSUME NEW b \in BiteIds, DropBite(b) PROVE ExportInv'
  <2> DEFINE bites == Without(biteRows, b)
  <2>1. Meanwhile(areaRows, sliceRows, bites, log)
    BY <1>7 DEF DropBite
  <2>2. /\ DOMAIN bites = DOMAIN biteRows \ {b}
        /\ \A c \in DOMAIN bites : bites[c] = biteRows[c]
    BY DEF Without
  <2> HIDE DEF bites
  <2>3. Range(bites) \subseteq BiteRow /\ Range(sliceRows) \subseteq areaRows \cup {NoArea}
    BY <1>0, <2>2 DEF Range
  <2> QED
    BY <1>0, <2>1, <2>2, <2>3, WriteStep
<1>8. ASSUME NEW on \in AreaIds \cup SliceIds \cup BiteIds, NEW at \in 1..2, Log(on, at)
      PROVE  ExportInv'
  <2> DEFINE e == [id |-> Cardinality(log) + 1, at |-> at, on |-> on]
  <2>1. Meanwhile(areaRows, sliceRows, biteRows, log \cup {e}) /\ Cardinality(log) < MaxLog
    BY <1>8 DEF Log
  <2>2. Cardinality(log) \in Nat
    BY <1>0, FS_CardinalityType
  <2>3. Cardinality(log) + 1 \in 1..MaxLog
    BY <2>1, <2>2, ExportAssumption
  <2>4. e \in LoggedEvent /\ e.id = Cardinality(log) + 1
    BY <2>3 DEF LoggedEvent
  <2> HIDE DEF e
  <2>5. \A f \in log : f.id \in Nat /\ f.id < e.id
    BY <1>0, <2>2, <2>4 DEF LoggedEvent
  <2>6. IsFiniteSet(log \cup {e}) /\ Cardinality(log \cup {e}) = Cardinality(log) + 1
    <3>1. e \notin log
      BY <2>2, <2>4, <2>5
    <3> QED
      BY <1>0, <3>1, FS_AddElement
  <2>7. /\ \A f \in log \cup {e} : f.id <= Cardinality(log \cup {e})
        /\ \A f, g \in log \cup {e} : f.id = g.id => f = g
    BY <1>0, <2>2, <2>4, <2>5, <2>6
  <2>8. Range(biteRows) \subseteq BiteRow /\ Range(sliceRows) \subseteq areaRows \cup {NoArea}
    BY <1>0 DEF Range
  <2>9. log \subseteq log \cup {e} /\ log \cup {e} \subseteq LoggedEvent
    BY <1>0, <2>4
  <2> QED
    BY <1>0, <2>1, <2>6, <2>7, <2>8, <2>9, WriteStep
<1>9. CASE UNCHANGED evars
  BY <1>9 DEF evars, ExportInv, ExportTypeOK, OnTheBoard, SnapshotHolds, AreasRead, SlicesRead,
              BitesRead, LogRead, RowsOfSlices, Counts, BitesOf, LogNumbered
<1> QED
  BY <1>1, <1>2, <1>3, <1>4, <1>5, <1>6, <1>7, <1>8, <1>9 DEF ExportNext

\* The orders of the query and of a thread.
NewestFirst(E) == {p \in E \X E : p[1].at > p[2].at \/ (p[1].at = p[2].at /\ p[1].id < p[2].id)}
OldestFirst(E) == {p \in E \X E : p[1].at < p[2].at \/ (p[1].at = p[2].at /\ p[1].id < p[2].id)}

\* No two events share a place in either.
LEMMA EventsInOrder ==
  ASSUME NEW E, E \subseteq LoggedEvent, \A e, f \in E : e.id = f.id => e = f,
         NEW R \in {NewestFirst(E), OldestFirst(E)}
  PROVE  /\ \A x, y \in E : x # y => <<x, y>> \in R \/ <<y, x>> \in R
         /\ \A x, y, z \in E : <<x, y>> \in R /\ <<y, z>> \in R => <<x, z>> \in R
         /\ \A x, y \in E : ~ (<<x, y>> \in R /\ <<y, x>> \in R)
<1>1. \A e \in E : e.id \in Nat /\ e.at \in Nat
  BY ExportAssumption DEF LoggedEvent
<1>2. CASE R = NewestFirst(E)
  <2>1. \A x, y \in E : <<x, y>> \in R <=> x.at > y.at \/ (x.at = y.at /\ x.id < y.id)
    BY <1>2 DEF NewestFirst
  <2> QED
    BY <1>1, <2>1
<1>3. CASE R = OldestFirst(E)
  <2>1. \A x, y \in E : <<x, y>> \in R <=> x.at < y.at \/ (x.at = y.at /\ x.id < y.id)
    BY <1>3 DEF OldestFirst
  <2> QED
    BY <1>1, <2>1
<1> QED
  BY <1>2, <1>3

\* The query lists the events of the snapshot.
LEMMA QueriedList ==
  ASSUME ExportInv
  PROVE  /\ IsFiniteSet(out.log) /\ QueriedLog \in SetToSeqs(out.log)
         /\ SortedBy(QueriedLog, NewestFirst(out.log))
<1> DEFINE E == out.log
           R == NewestFirst(E)
<1>1. IsFiniteSet(E) /\ E \subseteq LoggedEvent /\ \A e, f \in E : e.id = f.id => e = f
  BY FS_Subset DEF ExportInv, ExportTypeOK, LogNumbered
<1>2. PICK seq \in SetToSeqs(E) : SortedBy(seq, R)
  BY <1>1, EventsInOrder, SortedExists
<1>3. \E q \in SetToSeqs(E) : \A i, j \in DOMAIN q : i < j =>
        q[i].at > q[j].at \/ (q[i].at = q[j].at /\ q[i].id < q[j].id)
  BY <1>2 DEF SortedBy, NewestFirst
<1>4. /\ QueriedLog \in SetToSeqs(E)
      /\ \A i, j \in DOMAIN QueriedLog : i < j =>
           \/ QueriedLog[i].at > QueriedLog[j].at
           \/ QueriedLog[i].at = QueriedLog[j].at /\ QueriedLog[i].id < QueriedLog[j].id
  BY <1>3, Zenon DEF QueriedLog, Sorted
<1>5. \A i \in DOMAIN QueriedLog : QueriedLog[i] \in E
  BY <1>1, <1>4, Listing
<1> QED
  BY <1>1, <1>4, <1>5 DEF SortedBy, NewestFirst

\* The thread of a slice is a list of what concerns it, oldest first: a stable sort by
\* time of what the query had sorted leaves ties in the order of their ids.
LEMMA ThreadList ==
  ASSUME ExportInv, NEW s
  PROVE  /\ ActivityOf(s) \in SetToSeqs({e \in out.log : Concerns(e, s)})
         /\ SortedBy(ActivityOf(s), OldestFirst(out.log))
<1> DEFINE q == QueriedLog
           P == {i \in DOMAIN q : Concerns(q[i], s)}
           R == {p \in P \X P : q[p[1]].at < q[p[2]].at \/ (q[p[1]].at = q[p[2]].at /\ p[1] < p[2])}
           E == {e \in out.log : Concerns(e, s)}
<1>1. /\ IsFiniteSet(out.log) /\ SortedBy(q, NewestFirst(out.log))
      /\ DOMAIN q = 1..Cardinality(out.log) /\ \A i \in DOMAIN q : q[i] \in out.log
      /\ \A i, j \in DOMAIN q : i # j => q[i] # q[j]
      /\ \A e \in out.log : \E i \in DOMAIN q : q[i] = e
  BY QueriedList, Listing
<1>2. \A e \in out.log : e.id \in Nat /\ e.at \in Nat
  BY ExportAssumption DEF ExportInv, ExportTypeOK, LoggedEvent
<1>3. IsFiniteSet(P) /\ P \subseteq DOMAIN q
  <2> HIDE DEF q
  <2>1. IsFiniteSet(1..Cardinality(out.log))
    BY <1>1, FS_CardinalityType, FS_Interval
  <2> QED
    BY <1>1, <2>1, FS_Subset
<1>4. \A i \in P : i \in Nat /\ q[i] \in E /\ q[i].at \in Nat /\ q[i].id \in Nat
  BY <1>1, <1>2, FS_CardinalityType
<1>5. \A i, j \in P : <<i, j>> \in R <=> q[i].at < q[j].at \/ (q[i].at = q[j].at /\ i < j)
  OBVIOUS
<1> DEFINE places == Sorted(P, LAMBDA i, j :
                       q[i].at < q[j].at \/ (q[i].at = q[j].at /\ i < j))
<1>6. ActivityOf(s) = [k \in DOMAIN places |-> q[places[k]]]
  BY DEF ActivityOf
<1>7. PICK seq \in SetToSeqs(P) : SortedBy(seq, R)
  <2> HIDE DEF R
  <2>1. \A x, y \in P : x # y => <<x, y>> \in R \/ <<y, x>> \in R
    BY <1>4, <1>5
  <2>2. \A x, y, z \in P : <<x, y>> \in R /\ <<y, z>> \in R => <<x, z>> \in R
    BY <1>4, <1>5
  <2> QED
    BY <1>3, <2>1, <2>2, SortedExists
<1>8. \E c \in SetToSeqs(P) : \A i, j \in DOMAIN c : i < j =>
        q[c[i]].at < q[c[j]].at \/ (q[c[i]].at = q[c[j]].at /\ c[i] < c[j])
  BY <1>7 DEF SortedBy
<1>9. /\ places \in SetToSeqs(P)
      /\ \A i, j \in DOMAIN places : i < j =>
           \/ q[places[i]].at < q[places[j]].at
           \/ q[places[i]].at = q[places[j]].at /\ places[i] < places[j]
  BY <1>8, Zenon DEF Sorted
<1>10. /\ DOMAIN places = 1..Cardinality(P) /\ \A k \in DOMAIN places : places[k] \in P
       /\ \A k, l \in DOMAIN places : k # l => places[k] # places[l]
  <2> HIDE DEF places, P
  <2> QED
    BY <1>3, <1>9, Listing
<1>11. Cardinality(P) = Cardinality(E)
  <2> DEFINE g == [i \in P |-> q[i]]
  <2>1. g \in Bijection(P, E)
    BY <1>1, <1>3, <1>4 DEF Bijection, Injection, IsInjective, Surjection
  <2> QED
    BY <1>3, <2>1, FS_Bijection DEF ExistsBijection
<1> HIDE DEF places, P, E, R, q
<1>12. ActivityOf(s) \in SetToSeqs(E)
  <2>1. \A k \in DOMAIN places : q[places[k]] \in E
    BY <1>4, <1>10
  <2>2. \A k, l \in DOMAIN places : k # l => q[places[k]] # q[places[l]]
    BY <1>1, <1>3, <1>10
  <2> QED
    BY <1>6, <1>10, <1>11, <2>1, <2>2 DEF SetToSeqs
<1>13. ASSUME NEW i \in DOMAIN places, NEW j \in DOMAIN places, i < j
       PROVE  <<q[places[i]], q[places[j]]>> \in OldestFirst(out.log)
  <2> DEFINE x == q[places[i]]
             y == q[places[j]]
  <2>1. /\ places[i] \in P /\ places[j] \in P /\ places[i] \in DOMAIN q /\ places[j] \in DOMAIN q
        /\ x \in out.log /\ y \in out.log /\ x.at \in Nat /\ y.at \in Nat
    BY <1>1, <1>2, <1>3, <1>10, <1>13
  <2>2. CASE x.at < y.at
    BY <2>1, <2>2 DEF OldestFirst
  <2>3. CASE x.at = y.at /\ places[i] < places[j]
    <3>1. <<x, y>> \in NewestFirst(out.log)
      BY <1>1, <2>1, <2>3 DEF SortedBy
    <3> QED
      BY <2>1, <2>3, <3>1 DEF NewestFirst, OldestFirst
  <2> QED
    BY <1>9, <1>13, <2>2, <2>3
<1>14. DOMAIN ActivityOf(s) = DOMAIN places
       /\ \A k \in DOMAIN places : ActivityOf(s)[k] = q[places[k]]
  BY <1>6
<1> QED
  BY <1>12, <1>13, <1>14 DEF E, SortedBy

\* The board and the snapshot keep their types, and no step is left without its slice.
THEOREM ExportTypeCorrect == ExportSpec => []ExportTypeOK
<1>1. ExportInv => ExportTypeOK
  BY DEF ExportInv
<1> QED
  BY <1>1, ExportInitInv, ExportStep, PTL DEF ExportSpec

\* Whatever is written between the queries of an export, it has read every area, slice,
\* step and event that was there from the first to the last, and each such step is in a
\* document (collect.py:30-60, renderers.py:111-131).
THEOREM ExportReadsWhatLasts == ExportSpec => [](out.query = "made" => LastingIsRead)
<1>1. ExportInv => (out.query = "made" => LastingIsRead)
  <2> SUFFICES ASSUME ExportInv, out.query = "made" PROVE LastingIsRead
    OBVIOUS
  <2>1. AreasRead /\ SlicesRead /\ BitesRead /\ LogRead
    BY DEF ExportInv, SnapshotHolds
  <2>2. ASSUME NEW b \in lasting \cap BiteIds
        PROVE  \E s \in DOMAIN out.slices : \E step \in Document(s).steps : step[1] = b
    <3>1. b \in DOMAIN out.bites /\ out.bites[b].slice \in DOMAIN out.slices
      BY <2>1 DEF BitesRead
    <3>2. <<b, out.bites[b].done>> \in Document(out.bites[b].slice).steps
      BY <3>1 DEF Document
    <3> QED
      BY <3>1, <3>2
  <2> QED
    BY <2>1, <2>2 DEF LastingIsRead, AreasRead, SlicesRead, LogRead
<1> QED
  BY <1>1, ExportInitInv, ExportStep, PTL DEF ExportSpec

\* An export of a board that nobody wrote meanwhile has of each slice what get_slice has,
\* and in the Inbox's folder what has no area.
THEOREM QuietExportIsTheBoard ==
  ExportSpec => [](out.query = "made" /\ writes = 0 => RowsAsOnTheBoard)
<1>1. ExportInv => (out.query = "made" /\ writes = 0 => RowsAsOnTheBoard)
  <2> SUFFICES ASSUME ExportInv, out.query = "made", writes = 0 PROVE RowsAsOnTheBoard
    OBVIOUS
  <2>1. /\ out.areas = areaRows /\ out.slices = RowsOfSlices /\ out.bites = biteRows
        /\ out.log = log
    BY DEF ExportInv, SnapshotHolds, AreasRead, SlicesRead, BitesRead, LogRead
  <2>2. /\ DOMAIN out.slices = DOMAIN sliceRows
        /\ \A s \in DOMAIN sliceRows : /\ out.slices[s].area = sliceRows[s]
                                       /\ out.slices[s].counts = Counts(s)
    BY <2>1 DEF RowsOfSlices
  <2>3. Readme = [areas |-> Cardinality(areaRows), slices |-> Cardinality(DOMAIN sliceRows),
                  bites |-> Cardinality(DOMAIN biteRows), activity |-> Cardinality(log)]
    BY <2>1, <2>2 DEF Readme
  <2>4. ASSUME NEW s \in DOMAIN sliceRows
        PROVE  /\ Document(s).area = GetSlice(s).area /\ Document(s).counts = GetSlice(s).counts
               /\ Document(s).steps = GetSlice(s).steps
    BY <2>1, <2>2 DEF Document, GetSlice, BitesOf
  <2>5. InboxFolder = {s \in DOMAIN sliceRows : sliceRows[s] = NoArea}
    <3>1. \A s \in DOMAIN sliceRows : sliceRows[s] \in areaRows \cup {NoArea}
      BY DEF ExportInv, ExportTypeOK, Range
    <3>2. NoArea \notin areaRows
      BY ExportAssumption DEF ExportInv, ExportTypeOK
    <3> QED
      BY <2>1, <2>2, <3>1, <3>2 DEF InboxFolder
  <2> QED
    BY <2>3, <2>4, <2>5 DEF RowsAsOnTheBoard
<1> QED
  BY <1>1, ExportInitInv, ExportStep, PTL DEF ExportSpec

\* Each slice of the snapshot is in one folder of the zip, its area's if the snapshot has
\* that area and the Inbox's if not (renderers.py:111-131).
THEOREM ZipCountsItsSlices == ExportSpec => [](out.query = "made" => EachSliceInOneFile)
<1>1. ExportInv => EachSliceInOneFile
  <2> SUFFICES ASSUME ExportInv PROVE EachSliceInOneFile
    OBVIOUS
  <2>1. /\ out.areas \subseteq AreaIds /\ IsFiniteSet(out.areas) /\ IsFiniteSet(DOMAIN out.slices)
        /\ NoArea \notin out.areas
    BY ExportAssumption, FS_Subset DEF ExportInv, ExportTypeOK
  <2> DEFINE D == out.areas \cup {NoArea}
             sizes == [a \in DOMAIN Tree |-> Cardinality(Tree[a])]
  <2>2. /\ DOMAIN Tree = D /\ Tree[NoArea] = InboxFolder
        /\ \A a \in out.areas : Tree[a] = InFolder(a)
    BY <2>1 DEF Tree
  <2>3. IsFiniteSet(D)
    BY <2>1, FS_AddElement
  <2>4. \A a \in D : Tree[a] \subseteq DOMAIN out.slices
    BY <2>2 DEF InFolder, InboxFolder
  <2>5. \A a \in D : IsFiniteSet(Tree[a]) /\ sizes[a] = Cardinality(Tree[a])
    BY <2>1, <2>2, <2>4, FS_Subset
  <2>6. \A a, b \in D : a # b => Tree[a] \cap Tree[b] = {}
    BY <2>2 DEF InFolder, InboxFolder
  <2>7. UNION {Tree[a] : a \in D} = DOMAIN out.slices
    BY <2>2, <2>4 DEF InFolder, InboxFolder
  <2>8. DOMAIN sizes = D
    BY <2>2
  <2> HIDE DEF sizes, D
  <2>9. SumFunction(sizes) = Cardinality(DOMAIN out.slices)
    BY <2>3, <2>5, <2>6, <2>7, <2>8, SumOfSizes
  <2>10. \A a \in out.areas : \A s \in Tree[a] : Document(s).area = a
    BY <2>2 DEF InFolder, Document
  <2> QED
    BY <2>9, <2>10 DEF EachSliceInOneFile, Readme, sizes
<1> QED
  BY <1>1, ExportInitInv, ExportStep, PTL DEF ExportSpec

\* What is in a thread.
LEMMA ThreadTells ==
  ASSUME ExportInv, NEW s, NEW e \in out.log, Concerns(e, s)
  PROVE  e \in ToSet(ActivityOf(s))
<1> DEFINE E == {x \in out.log : Concerns(x, s)}
<1>1. IsFiniteSet(E)
  BY QueriedList, FS_Subset
<1>2. ActivityOf(s) \in SetToSeqs(E) /\ e \in E
  BY ThreadList
<1> HIDE DEF E
<1>3. \E i \in DOMAIN ActivityOf(s) : ActivityOf(s)[i] = e
  BY <1>1, <1>2, Listing
<1> QED
  BY <1>3 DEF ToSet

\* Every event that was there from the first query to the last is in the thread of its
\* slice, or of the slice of its step (collect.py:60-79).
THEOREM ThreadsTellWhatLasts == ExportSpec => [](out.query = "made" => LastingIsTold)
<1>1. ExportInv => (out.query = "made" => LastingIsTold)
  <2> SUFFICES ASSUME ExportInv, out.query = "made", NEW e \in lasting \cap log
               PROVE  /\ e.on \in SliceIds => e \in ToSet(Document(e.on).thread)
                      /\ e.on \in lasting \cap BiteIds =>
                           e \in ToSet(Document(out.bites[e.on].slice).thread)
    BY DEF LastingIsTold
  <2>1. e \in out.log
    BY DEF ExportInv, SnapshotHolds, LogRead
  <2>2. \A s : Concerns(e, s) => e \in ToSet(Document(s).thread)
    BY <2>1, ThreadTells DEF Document
  <2>3. Concerns(e, e.on)
    BY DEF Concerns
  <2>4. e.on \in lasting \cap BiteIds => Concerns(e, out.bites[e.on].slice)
    BY DEF ExportInv, SnapshotHolds, BitesRead, Concerns
  <2> QED
    BY <2>2, <2>3, <2>4
<1> QED
  BY <1>1, ExportInitInv, ExportStep, PTL DEF ExportSpec

\* Of a board that nobody wrote meanwhile, the thread of a document is the thread that
\* get_slice renders: the same events in the same order, although one sorts twice
\* (collect.py:60-79, renderers.py:95-109, state.py:247-266).
THEOREM ThreadsStayInOrder ==
  ExportSpec => [](out.query = "made" /\ writes = 0 => ThreadsAsOnTheBoard)
<1>1. ExportInv => (out.query = "made" /\ writes = 0 => ThreadsAsOnTheBoard)
  <2> SUFFICES ASSUME ExportInv, out.query = "made", writes = 0, NEW s \in DOMAIN sliceRows
               PROVE  Document(s).thread = GetSlice(s).thread
    BY DEF ThreadsAsOnTheBoard
  <2>1. out.bites = biteRows /\ out.log = log
    BY DEF ExportInv, SnapshotHolds, BitesRead, LogRead
  <2> DEFINE E == {e \in out.log : Concerns(e, s)}
             T == {e \in log : e.on \in {s} \cup BitesOf(s)}
             R == OldestFirst(out.log)
             rendered == GetSlice(s).thread
  <2>2. E = T
    BY <2>1 DEF Concerns, BitesOf
  <2>3. IsFiniteSet(out.log) /\ out.log \subseteq LoggedEvent
        /\ \A e, f \in out.log : e.id = f.id => e = f
    BY QueriedList, <2>1 DEF ExportInv, ExportTypeOK, LogNumbered
  <2>4. IsFiniteSet(E)
    BY <2>3, FS_Subset
  <2>5. ActivityOf(s) \in SetToSeqs(E) /\ SortedBy(ActivityOf(s), R)
    BY ThreadList
  <2>6. \E q \in SetToSeqs(T) : \A i, j \in DOMAIN q : i < j =>
          q[i].at < q[j].at \/ (q[i].at = q[j].at /\ q[i].id < q[j].id)
    BY <2>2, <2>5 DEF SortedBy, OldestFirst
  <2>7. rendered = Sorted(T, LAMBDA e, f : e.at < f.at \/ (e.at = f.at /\ e.id < f.id))
    BY DEF GetSlice
  <2>8. /\ rendered \in SetToSeqs(T)
        /\ \A i, j \in DOMAIN rendered : i < j =>
             \/ rendered[i].at < rendered[j].at
             \/ rendered[i].at = rendered[j].at /\ rendered[i].id < rendered[j].id
    BY <2>6, <2>7, Zenon DEF Sorted
  <2>9. \A i \in DOMAIN rendered : rendered[i] \in E
    <3> HIDE DEF rendered, E, T
    <3> QED
      BY <2>2, <2>4, <2>8, Listing
  <2>10. SortedBy(rendered, R)
    BY <2>8, <2>9 DEF SortedBy, OldestFirst
  <2>11. \A x, y \in out.log : ~ (<<x, y>> \in R /\ <<y, x>> \in R)
    BY <2>3, EventsInOrder
  <2>12. E \subseteq out.log
    OBVIOUS
  <2> HIDE DEF E, T, R, rendered
  <2>13. ActivityOf(s) = rendered
    BY <2>2, <2>4, <2>5, <2>8, <2>10, <2>11, <2>12, SortedOnce
  <2> QED
    BY <2>13 DEF rendered, Document
<1> QED
  BY <1>1, ExportInitInv, ExportStep, PTL DEF ExportSpec

\* An export misses nothing, whatever is written between its queries: each slice is in
\* one file, what was there throughout has been read and is told, and of a board that
\* nobody wrote it says what the board says (collect.py:28-95, renderers.py:95-203).
THEOREM ExportAlwaysWhole == ExportSpec => []ExportIsWhole
<1>1. ((out.query = "made" => EachSliceInOneFile) /\ (out.query = "made" => LastingIsRead)
       /\ (out.query = "made" => LastingIsTold)
       /\ (out.query = "made" /\ writes = 0 => RowsAsOnTheBoard)
       /\ (out.query = "made" /\ writes = 0 => ThreadsAsOnTheBoard)) => ExportIsWhole
  BY DEF ExportIsWhole
<1> QED
  BY <1>1, ZipCountsItsSlices, ExportReadsWhatLasts, ThreadsTellWhatLasts,
     QuietExportIsTheBoard, ThreadsStayInOrder, PTL
=============================================================================
