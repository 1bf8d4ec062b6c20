---------------------------- MODULE Canvas_proofs ---------------------------
(***************************************************************************)
(* The decision record, for every set of ids, every repertoire of batches  *)
(* and every bound on the clock: what the two services do to a well-formed *)
(* record, what the record promises when every operation is one step, that *)
(* a record of any age reads whole, and what survives the interleaving of  *)
(* any number of requests.                                                 *)
(***************************************************************************)
EXTENDS CanvasRequests, CanvasSpine, SequenceTheorems, FiniteSetTheorems,
        WellFoundedInduction, TLAPS

-----------------------------------------------------------------------------
(***************************************************************************)
(* What propose_nodes and choose_option do to a record.                    *)
(***************************************************************************)
LEMMA RecordNode ==
  ASSUME NEW ns \in Records, NEW i \in DOMAIN ns
  PROVE  ns[i] \in Node /\ ns[i].id \in NodeIds
<1>1. ns[i] \in Node
  BY DEF Records
<1> QED
  BY <1>1 DEF Node

\* Stamping keeps the batch's nodes and answers none of them.
LEMMA StampedType ==
  ASSUME NEW batch \in Seq(Proposal), NEW at \in Nat
  PROVE  /\ Stamped(batch, at) \in Records
         /\ Len(Stamped(batch, at)) = Len(batch)
         /\ \A i \in 1..Len(batch) : Stamped(batch, at)[i].chosen = NoNode
<1> DEFINE f == Stamped(batch, at)
<1>1. \A i \in 1..Len(batch) : batch[i] \in Proposal
  OBVIOUS
<1>2. \A i \in 1..Len(batch) : f[i] \in Node /\ f[i].chosen = NoNode
  BY <1>1 DEF Stamped, Proposal, Node
<1>3. f = [i \in 1..Len(batch) |-> f[i]]
  BY DEF Stamped
<1>4. Len(batch) \in Nat
  OBVIOUS
<1>5. f \in Seq(Node)
  BY <1>2, <1>3, <1>4
<1>6. Len(f) = Len(batch)
  BY <1>4 DEF Stamped
<1> QED
  BY <1>2, <1>5, <1>6 DEF Records

\* propose_nodes keeps what is stored, in place, and adds unanswered nodes.
LEMMA ProposedType ==
  ASSUME NEW ns \in Records, NEW batch \in Seq(Proposal), NEW at \in Nat
  PROVE  /\ Proposed(ns, batch, at) \in Records
         /\ Len(Proposed(ns, batch, at)) >= Len(ns)
         /\ \A i \in 1..Len(ns) : Proposed(ns, batch, at)[i] = ns[i]
         /\ \A i \in Len(ns) + 1 .. Len(Proposed(ns, batch, at)) :
              Proposed(ns, batch, at)[i].chosen = NoNode
<1> DEFINE f == Stamped(batch, at)
           P == Proposed(ns, batch, at)
<1>1. /\ f \in Seq(Node) /\ Len(f) = Len(batch)
      /\ \A i \in 1..Len(batch) : f[i].chosen = NoNode
  BY StampedType DEF Records
<1>2. ns \in Seq(Node)
  BY DEF Records
<1>3. P = ns \o f
  BY DEF Proposed
<1> HIDE DEF f, P
<1>4. P \in Seq(Node) /\ Len(P) = Len(ns) + Len(f)
  BY <1>1, <1>2, <1>3, ConcatProperties
<1>5. \A i \in 1..Len(ns) : P[i] = ns[i]
  BY <1>1, <1>2, <1>3
<1>6. \A i \in Len(ns) + 1 .. Len(P) : P[i].chosen = NoNode
  <2> TAKE i \in Len(ns) + 1 .. Len(P)
  <2>1. P[i] = f[i - Len(ns)] /\ i - Len(ns) \in 1..Len(f)
    BY <1>1, <1>2, <1>3, <1>4
  <2> QED
    BY <2>1, <1>1
<1>7. Len(P) >= Len(ns)
  BY <1>1, <1>2, <1>4
<1> QED
  BY <1>4, <1>5, <1>6, <1>7 DEF Records, P

\* What acceptance says of each new node, in terms of the resulting record.
LEMMA AcceptedNode ==
  ASSUME NEW ns \in Records, NEW batch \in Seq(Proposal), NEW at \in Nat,
         BatchAccepted(ns, batch, at),
         NEW k \in Len(ns) + 1 .. Len(Proposed(ns, batch, at))
  PROVE  LET P == Proposed(ns, batch, at) IN
         /\ \A j \in 1..(k - 1) : P[j].id /= P[k].id
         /\ \/ /\ P[k].parent = NoNode
               /\ \A j \in 1..(k - 1) : P[j].parent /= NoNode
            \/ \E j \in 1..(k - 1) :
                 /\ P[j].id = P[k].parent
                 /\ P[j].kind = "option" =>
                      \A i \in 1..(k - 1) :
                        (P[i].id = P[j].parent /\ P[i].kind = "question")
                          => P[i].chosen = P[j].id
<1> DEFINE P == Proposed(ns, batch, at)
           S == SubSeq(P, 1, k - 1)
<1>1. P \in Seq(Node) /\ Len(P) \in Nat /\ Len(ns) \in Nat
  BY ProposedType DEF Records
<1>2. Acceptable(S, P[k])
  BY DEF BatchAccepted, Proposed
<1> HIDE DEF P
<1>3. k \in 1..Len(P)
  BY <1>1 DEF P
<1>4. DOMAIN S = 1..(k - 1) /\ \A j \in 1..(k - 1) : S[j] = P[j]
  BY <1>1, <1>3
<1> HIDE DEF S
<1>5. \A j \in 1..(k - 1) : P[j].id /= P[k].id
  BY <1>2, <1>4 DEF Acceptable, IdsOf
<1>6. \/ /\ P[k].parent = NoNode
         /\ \A j \in 1..(k - 1) : P[j].parent /= NoNode
      \/ \E j \in 1..(k - 1) : /\ P[j].id = P[k].parent
                               /\ ParentAccepts(S, P[j], P[k].kind)
  BY <1>2, <1>4 DEF Acceptable
<1>7. ASSUME NEW j \in 1..(k - 1), ParentAccepts(S, P[j], P[k].kind), P[j].kind = "option",
             NEW i \in 1..(k - 1), P[i].id = P[j].parent, P[i].kind = "question"
      PROVE  P[i].chosen = P[j].id
  BY <1>4, <1>7 DEF ParentAccepts, OptionAccepts
<1> QED
  BY <1>5, <1>6, <1>7 DEF P

\* A batch propose_nodes accepts leaves the record readable: ids stay apart, a parent
\* comes earlier, and an answer is one of its question's candidates.
LEMMA ProposeKeepsReadable ==
  ASSUME NEW ns \in Records, NEW batch \in Seq(Proposal), NEW at \in Nat,
         Readable(ns), BatchAccepted(ns, batch, at)
  PROVE  Readable(Proposed(ns, batch, at))
<1> DEFINE P == Proposed(ns, batch, at)
           n == Len(ns)
<1>1. /\ P \in Seq(Node) /\ ns \in Seq(Node)
      /\ n \in Nat /\ Len(P) \in Nat /\ Len(P) >= n
      /\ DOMAIN P = 1..Len(P) /\ DOMAIN ns = 1..n
  BY ProposedType DEF Records
<1>2. \A i \in 1..n : P[i] = ns[i]
  BY ProposedType
<1>3. \A i \in n + 1 .. Len(P) : P[i].chosen = NoNode
  BY ProposedType
<1>4. ASSUME NEW k \in n + 1 .. Len(P)
      PROVE  /\ \A j \in 1..(k - 1) : P[j].id /= P[k].id
             /\ \/ /\ P[k].parent = NoNode
                   /\ \A j \in 1..(k - 1) : P[j].parent /= NoNode
                \/ \E j \in 1..(k - 1) :
                     /\ P[j].id = P[k].parent
                     /\ P[j].kind = "option" =>
                          \A i \in 1..(k - 1) :
                            (P[i].id = P[j].parent /\ P[i].kind = "question")
                              => P[i].chosen = P[j].id
  BY AcceptedNode
<1> HIDE DEF P, n
<1>5. \A i \in 1..Len(P) : P[i] \in Node
  BY <1>1
<1>6. UniqueIds(P)
  <2> SUFFICES ASSUME NEW i \in 1..Len(P), NEW j \in 1..Len(P), i < j, P[i].id = P[j].id
               PROVE  FALSE
    BY <1>1 DEF UniqueIds
  <2>1. CASE j \in 1..n
    BY <2>1, <1>1, <1>2 DEF Readable, UniqueIds
  <2>2. CASE j \in n + 1 .. Len(P)
    BY <2>2, <1>4
  <2> QED
    BY <2>1, <2>2, <1>1
<1>7. ParentEarlier(P)
  <2> SUFFICES ASSUME NEW k \in 1..Len(P), P[k].parent /= NoNode
               PROVE  \E j \in 1..(k - 1) : P[j].id = P[k].parent
    BY <1>1 DEF ParentEarlier
  <2>1. CASE k \in 1..n
    <3>1. PICK j \in 1..(k - 1) : ns[j].id = ns[k].parent
      BY <2>1, <1>1, <1>2 DEF Readable, ParentEarlier
    <3>2. j \in 1..n
      BY <2>1, <1>1
    <3> QED
      BY <3>1, <3>2, <2>1, <1>2
  <2>2. CASE k \in n + 1 .. Len(P)
    BY <2>2, <1>4
  <2> QED
    BY <2>1, <2>2, <1>1
<1>8. AnswerIsCandidate(P)
  <2> SUFFICES ASSUME NEW q \in 1..Len(P), P[q].chosen /= NoNode
               PROVE  /\ P[q].kind = "question"
                      /\ \E o \in 1..Len(P) : /\ P[o].id = P[q].chosen
                                              /\ P[o].kind = "option"
                                              /\ P[o].parent = P[q].id
    BY <1>1 DEF AnswerIsCandidate
  <2>1. q \in 1..n
    BY <1>1, <1>3
  <2>2. /\ ns[q].kind = "question"
        /\ \E o \in 1..n : ns[o].id = ns[q].chosen /\ ns[o].kind = "option"
                             /\ ns[o].parent = ns[q].id
    BY <2>1, <1>1, <1>2 DEF Readable, AnswerIsCandidate
  <2> QED
    BY <2>1, <2>2, <1>1, <1>2
<1> QED
  BY <1>6, <1>7, <1>8 DEF Readable, P

\* ... and, if it was, well-formed.
LEMMA ProposeKeepsWellFormed ==
  ASSUME NEW ns \in Records, NEW batch \in Seq(Proposal), NEW at \in Nat,
         WellFormed(ns), BatchAccepted(ns, batch, at)
  PROVE  WellFormed(Proposed(ns, batch, at))
<1> DEFINE P == Proposed(ns, batch, at)
           n == Len(ns)
<1>1. /\ P \in Seq(Node) /\ ns \in Seq(Node)
      /\ n \in Nat /\ Len(P) \in Nat /\ Len(P) >= n
      /\ DOMAIN P = 1..Len(P) /\ DOMAIN ns = 1..n
  BY ProposedType DEF Records
<1>2. \A i \in 1..n : P[i] = ns[i]
  BY ProposedType
<1>3. ASSUME NEW k \in n + 1 .. Len(P)
      PROVE  /\ \A j \in 1..(k - 1) : P[j].id /= P[k].id
             /\ \/ /\ P[k].parent = NoNode
                   /\ \A j \in 1..(k - 1) : P[j].parent /= NoNode
                \/ \E j \in 1..(k - 1) :
                     /\ P[j].id = P[k].parent
                     /\ P[j].kind = "option" =>
                          \A i \in 1..(k - 1) :
                            (P[i].id = P[j].parent /\ P[i].kind = "question")
                              => P[i].chosen = P[j].id
  BY AcceptedNode
<1>4. UniqueIds(P) /\ ParentEarlier(P) /\ AnswerIsCandidate(P)
  BY ProposeKeepsReadable DEF WellFormed, Readable
<1>5. \A i, j \in 1..Len(P) : P[i].id = P[j].id => i = j
  BY <1>1, <1>4 DEF UniqueIds
<1>6. \A k \in 1..Len(P) : P[k].parent /= NoNode => \E j \in 1..(k - 1) : P[j].id = P[k].parent
  BY <1>1, <1>4 DEF ParentEarlier
<1>7. \A c, o, q \in 1..n :
        (/\ ns[c].parent = ns[o].id /\ ns[o].kind = "option"
         /\ ns[o].parent = ns[q].id /\ ns[q].kind = "question") => ns[q].chosen = ns[o].id
  BY <1>1 DEF WellFormed, OnlyWinnersGrow
<1> HIDE DEF P, n
<1>8. \A i \in 1..Len(P) : P[i] \in Node
  BY <1>1
<1>9. SingleRoot(P)
  <2> SUFFICES ASSUME NEW i \in 1..Len(P), NEW j \in 1..Len(P), i < j,
                      P[i].parent = NoNode, P[j].parent = NoNode
               PROVE  FALSE
    BY <1>1 DEF SingleRoot
  <2>1. CASE j \in 1..n
    <3>1. \A x, y \in 1..n : ns[x].parent = NoNode /\ ns[y].parent = NoNode => x = y
      BY <1>1 DEF WellFormed, SingleRoot
    <3>2. i \in 1..n
      BY <1>1, <2>1
    <3> QED
      BY <2>1, <1>2, <3>1, <3>2
  <2>2. CASE j \in n + 1 .. Len(P)
    <3>1. i \in 1..(j - 1)
      OBVIOUS
    <3>2. PICK m \in 1..(j - 1) : P[m].id = NoNode
      BY <3>1, <2>2, <1>3
    <3> QED
      <4>1. m \in 1..Len(P)
        BY <1>1
      <4>2. P[m].id \in NodeIds
        BY <1>8, <4>1 DEF Node
      <4> QED
        BY <3>2, <4>2, NoNodeAssumption
  <2> QED
    BY <2>1, <2>2, <1>1
<1>10. OnlyWinnersGrow(P)
  <2> SUFFICES ASSUME NEW c \in 1..Len(P), NEW o \in 1..Len(P), NEW q \in 1..Len(P),
                      P[c].parent = P[o].id, P[o].kind = "option",
                      P[o].parent = P[q].id, P[q].kind = "question"
               PROVE  P[q].chosen = P[o].id
    BY <1>1 DEF OnlyWinnersGrow
  <2>1. P[o].id /= NoNode /\ P[q].id /= NoNode
    BY <1>8, NoNodeAssumption DEF Node
  <2>2. PICK j \in 1..(c - 1) : P[j].id = P[c].parent
    BY <2>1, <1>6
  <2>3. o < c
    BY <2>2, <1>1, <1>5
  <2>4. PICK i \in 1..(o - 1) : P[i].id = P[o].parent
    BY <2>1, <1>6
  <2>5. q < o
    BY <2>4, <1>1, <1>5
  <2>6. CASE c \in 1..n
    <3>1. o \in 1..n /\ q \in 1..n
      BY <2>3, <2>5, <2>6, <1>1
    <3> QED
      BY <3>1, <2>6, <1>2, <1>7
  <2>7. CASE c \in n + 1 .. Len(P)
    <3>1. PICK m \in 1..(c - 1) :
            /\ P[m].id = P[c].parent
            /\ P[m].kind = "option" =>
                 \A k \in 1..(c - 1) : (P[k].id = P[m].parent /\ P[k].kind = "question")
                                          => P[k].chosen = P[m].id
      BY <2>7, <2>1, <1>3
    <3>2. m = o
      BY <3>1, <1>5
    <3>3. q \in 1..(c - 1)
      BY <2>3, <2>5
    <3> QED
      BY <3>1, <3>2, <3>3
  <2> QED
    BY <2>6, <2>7, <1>1
<1> QED
  BY <1>4, <1>9, <1>10 DEF WellFormed, P

\* choose_option touches one field of one node ...
LEMMA ChosenType ==
  ASSUME NEW ns \in Records, NEW o \in DOMAIN ns, NEW q \in DOMAIN ns
  PROVE  /\ Chosen(ns, o, q) \in Records
         /\ DOMAIN Chosen(ns, o, q) = DOMAIN ns
         /\ Len(Chosen(ns, o, q)) = Len(ns)
         /\ \A i \in DOMAIN ns :
              Chosen(ns, o, q)[i] =
                IF i = q THEN [ns[i] EXCEPT !.chosen = ns[o].id] ELSE ns[i]
<1>1. ns \in Seq(Node) /\ ns[o] \in Node /\ ns[q] \in Node
  BY DEF Records
<1>2. [ns[q] EXCEPT !.chosen = ns[o].id] \in Node
  BY <1>1 DEF Node
<1>3. Chosen(ns, o, q) = [ns EXCEPT ![q] = [ns[q] EXCEPT !.chosen = ns[o].id]]
  BY DEF Chosen
<1>4. Chosen(ns, o, q) \in Seq(Node) /\ Len(Chosen(ns, o, q)) = Len(ns)
  BY <1>1, <1>2, <1>3
<1> QED
  BY <1>1, <1>3, <1>4 DEF Records

\* ... the answer of the question it answers.
LEMMA ChosenOnlyAnswers ==
  ASSUME NEW ns \in Records, NEW o \in DOMAIN ns, NEW q \in DOMAIN ns, NEW i \in DOMAIN ns
  PROVE  Chosen(ns, o, q)[i] = [ns[i] EXCEPT !.chosen = Chosen(ns, o, q)[i].chosen]
<1> DEFINE n == Chosen(ns, o, q)[i]
<1>1. \A j \in DOMAIN ns :
        Chosen(ns, o, q)[j] = IF j = q THEN [ns[j] EXCEPT !.chosen = ns[o].id] ELSE ns[j]
  BY ChosenType, Zenon
<1>2. n = IF i = q THEN [ns[i] EXCEPT !.chosen = ns[o].id] ELSE ns[i]
  BY <1>1
<1>3. ns[i] \in Node
  BY DEF Records
<1> HIDE DEF n
<1>4. n = [ns[i] EXCEPT !.chosen = n.chosen]
  BY <1>2, <1>3 DEF Node
<1> QED
  BY <1>4 DEF n

LEMMA ChosenKeepsIds ==
  ASSUME NEW ns \in Records, NEW o \in DOMAIN ns, NEW q \in DOMAIN ns, NEW i \in DOMAIN ns
  PROVE  Chosen(ns, o, q)[i].id = ns[i].id
<1>1. Chosen(ns, o, q)[i] = [ns[i] EXCEPT !.chosen = Chosen(ns, o, q)[i].chosen]
  BY ChosenOnlyAnswers
<1>2. ns[i] \in Node
  BY DEF Records
<1> DEFINE n == Chosen(ns, o, q)[i]
<1>3. n = [ns[i] EXCEPT !.chosen = n.chosen]
  BY <1>1
<1> HIDE DEF n
<1>4. n.id = ns[i].id
  BY <1>2, <1>3 DEF Node
<1> QED
  BY <1>4 DEF n

LEMMA ChosenElsewhere ==
  ASSUME NEW ns \in Records, NEW o \in DOMAIN ns, NEW q \in DOMAIN ns, NEW i \in DOMAIN ns,
         i /= q
  PROVE  Chosen(ns, o, q)[i] = ns[i]
<1>1. \A j \in DOMAIN ns :
        Chosen(ns, o, q)[j] = IF j = q THEN [ns[j] EXCEPT !.chosen = ns[o].id] ELSE ns[j]
  BY ChosenType, Zenon
<1> QED
  BY <1>1

\* The option that is picked stays what it is.
LEMMA ChosenOption ==
  ASSUME NEW ns \in Records, NEW o \in DOMAIN ns, NEW q \in DOMAIN ns
  PROVE  /\ o \in DOMAIN Chosen(ns, o, q)
         /\ Chosen(ns, o, q)[o].id = ns[o].id
         /\ Chosen(ns, o, q)[o].kind = ns[o].kind
         /\ Chosen(ns, o, q)[o].parent = ns[o].parent
<1>1. Chosen(ns, o, q)[o] = [ns[o] EXCEPT !.chosen = Chosen(ns, o, q)[o].chosen]
  BY ChosenOnlyAnswers
<1>2. DOMAIN Chosen(ns, o, q) = DOMAIN ns
  BY ChosenType
<1>3. ns[o] \in Node
  BY DEF Records
<1> QED
  BY <1>1, <1>2, <1>3 DEF Node

\* ... and leaves a readable record readable,
LEMMA ChooseKeepsReadable ==
  ASSUME NEW ns \in Records, NEW o \in DOMAIN ns, NEW q \in DOMAIN ns,
         Readable(ns), Choosable(ns, o, q)
  PROVE  Readable(Chosen(ns, o, q))
<1> DEFINE C == Chosen(ns, o, q)
<1>1. DOMAIN C = DOMAIN ns
  BY ChosenType
<1>2. \A i \in DOMAIN ns : ns[i] \in Node
  BY DEF Records
<1>3. \A i \in DOMAIN ns :
         C[i] = IF i = q THEN [ns[i] EXCEPT !.chosen = ns[o].id] ELSE ns[i]
  BY ChosenType, Zenon
<1>4. \A i \in DOMAIN ns : /\ C[i].id = ns[i].id
                           /\ C[i].parent = ns[i].parent
                           /\ C[i].kind = ns[i].kind
                           /\ C[i].chosen = IF i = q THEN ns[o].id ELSE ns[i].chosen
  <2> TAKE i \in DOMAIN ns
  <2>1. C[i] = IF i = q THEN [ns[i] EXCEPT !.chosen = ns[o].id] ELSE ns[i]
    BY <1>3
  <2> HIDE DEF C
  <2> QED
    BY <2>1, <1>2 DEF Node
<1> HIDE DEF C
<1>5. UniqueIds(C)
  BY <1>1, <1>4 DEF Readable, UniqueIds
<1>6. ParentEarlier(C)
  <2> SUFFICES ASSUME NEW k \in DOMAIN ns, ns[k].parent /= NoNode
               PROVE  \E j \in 1..(k - 1) : C[j].id = C[k].parent
    BY <1>1, <1>4 DEF ParentEarlier
  <2>1. PICK j \in 1..(k - 1) : ns[j].id = ns[k].parent
    BY DEF Readable, ParentEarlier
  <2>2. j \in DOMAIN ns
    BY DEF Records
  <2> QED
    BY <2>1, <2>2, <1>4
<1>7. AnswerIsCandidate(C)
  BY <1>1, <1>4 DEF Readable, AnswerIsCandidate, Choosable
<1> QED
  BY <1>5, <1>6, <1>7 DEF Readable, C

\* and, because a locked question cannot be answered again, a well-formed one
\* well-formed.
LEMMA ChooseKeepsWellFormed ==
  ASSUME NEW ns \in Records, NEW o \in DOMAIN ns, NEW q \in DOMAIN ns,
         WellFormed(ns), Choosable(ns, o, q)
  PROVE  WellFormed(Chosen(ns, o, q))
<1> DEFINE C == Chosen(ns, o, q)
<1>1. DOMAIN C = DOMAIN ns
  BY ChosenType
<1>2. \A i \in DOMAIN ns : ns[i] \in Node
  BY DEF Records
<1>3. \A i \in DOMAIN ns :
         C[i] = IF i = q THEN [ns[i] EXCEPT !.chosen = ns[o].id] ELSE ns[i]
  BY ChosenType, Zenon
<1>4. \A i \in DOMAIN ns : /\ C[i].id = ns[i].id
                           /\ C[i].parent = ns[i].parent
                           /\ C[i].kind = ns[i].kind
                           /\ C[i].chosen = IF i = q THEN ns[o].id ELSE ns[i].chosen
  <2> TAKE i \in DOMAIN ns
  <2>1. C[i] = IF i = q THEN [ns[i] EXCEPT !.chosen = ns[o].id] ELSE ns[i]
    BY <1>3
  <2> HIDE DEF C
  <2> QED
    BY <2>1, <1>2 DEF Node
<1>5. UniqueIds(C) /\ ParentEarlier(C) /\ AnswerIsCandidate(C)
  BY ChooseKeepsReadable DEF WellFormed, Readable
<1> HIDE DEF C
<1>6. SingleRoot(C)
  BY <1>1, <1>4 DEF WellFormed, SingleRoot
<1>7. OnlyWinnersGrow(C)
  <2> SUFFICES ASSUME NEW c \in DOMAIN ns, NEW p \in DOMAIN ns, NEW r \in DOMAIN ns,
                      ns[c].parent = ns[p].id, ns[p].kind = "option",
                      ns[p].parent = ns[r].id, ns[r].kind = "question"
               PROVE  C[r].chosen = C[p].id
    BY <1>1, <1>4 DEF OnlyWinnersGrow
  <2>1. ns[r].chosen = ns[p].id
    BY DEF WellFormed, OnlyWinnersGrow
  <2>2. r /= q
    BY <2>1, <1>2, NoNodeAssumption DEF Choosable, IsLocked, Node
  <2> QED
    BY <2>1, <2>2, <1>4
<1> QED
  BY <1>5, <1>6, <1>7 DEF WellFormed, C

\* An empty record is well-formed.
LEMMA EmptyWellFormed == << >> \in Records /\ WellFormed(<< >>)
BY DEF Records, WellFormed, UniqueIds, ParentEarlier, SingleRoot,
       AnswerIsCandidate, OnlyWinnersGrow

-----------------------------------------------------------------------------
(***************************************************************************)
(* The promise.                                                            *)
(***************************************************************************)
\* The record keeps its type, and stays a tree in which only winners grow.
RecordInv == RecordTypeOK /\ RecordWellFormed

LEMMA RecordInvInit == RecordInit => RecordInv
BY EmptyWellFormed, MaxTimeAssumption DEF RecordInit, RecordInv, RecordTypeOK, RecordWellFormed

LEMMA RecordInvNext == RecordInv /\ [RecordNext]_record => RecordInv'
<1> SUFFICES ASSUME RecordInv, [RecordNext]_record PROVE RecordInv'
  OBVIOUS
<1> USE DEF RecordInv, RecordTypeOK, RecordWellFormed
<1>1. ASSUME NEW batch \in Batches, Propose(batch) PROVE RecordInv'
  <2>1. batch \in Seq(Proposal) /\ clock \in Nat
    BY BatchesAssumption, MaxTimeAssumption
  <2>2. nodes' \in Records
    BY <1>1, <2>1, ProposedType DEF Propose
  <2>3. WellFormed(nodes')
    BY <1>1, <2>1, ProposeKeepsWellFormed DEF Propose
  <2> QED
    BY <1>1, <2>2, <2>3 DEF Propose
<1>2. ASSUME NEW o \in DOMAIN nodes, NEW q \in DOMAIN nodes, Choose(o, q) PROVE RecordInv'
  <2>1. nodes' \in Records
    BY <1>2, ChosenType DEF Choose
  <2>2. WellFormed(nodes')
    BY <1>2, ChooseKeepsWellFormed DEF Choose
  <2> QED
    BY <1>2, <2>1, <2>2 DEF Choose
<1>3. ASSUME NEW w \in BOOLEAN, SetSpec(w) PROVE RecordInv'
  BY <1>3 DEF SetSpec
<1>4. CASE RecordTick
  BY <1>4, MaxTimeAssumption DEF RecordTick
<1>5. CASE UNCHANGED record
  BY <1>5 DEF record
<1> QED
  BY <1>1, <1>2, <1>3, <1>4, <1>5 DEF RecordNext

\* Every variable keeps its type.
THEOREM RecordTypeCorrect == RecordSpec => []RecordTypeOK
<1>1. RecordInv => RecordTypeOK
  BY DEF RecordInv
<1> QED
  BY <1>1, RecordInvInit, RecordInvNext, PTL DEF RecordSpec

\* The stored record is a tree, every answer is a candidate of its question,
\* and nothing ever hangs off an option that did not win.
THEOREM RecordStaysWellFormed == RecordSpec => []RecordWellFormed
<1>1. RecordInv => RecordWellFormed
  BY DEF RecordInv
<1> QED
  BY <1>1, RecordInvInit, RecordInvNext, PTL DEF RecordSpec

\* propose_nodes and choose_option never drop, move or rewrite a stored node.
THEOREM RecordIsAppendOnly == RecordSpec => AppendOnly
<1>1. RecordInv /\ [RecordNext]_record =>
        [/\ Len(nodes') >= Len(nodes)
         /\ \A i \in DOMAIN nodes :
              nodes'[i] = [nodes[i] EXCEPT !.chosen = nodes'[i].chosen]]_nodes
  <2> SUFFICES ASSUME RecordInv, [RecordNext]_record, nodes' /= nodes
               PROVE  /\ Len(nodes') >= Len(nodes)
                      /\ \A i \in DOMAIN nodes :
                           nodes'[i] = [nodes[i] EXCEPT !.chosen = nodes'[i].chosen]
    OBVIOUS
  <2>1. nodes \in Records /\ \A i \in DOMAIN nodes : nodes[i] \in Node
    BY DEF RecordInv, RecordTypeOK, Records
  <2>2. ASSUME NEW batch \in Batches, Propose(batch)
        PROVE  /\ Len(nodes') >= Len(nodes)
               /\ \A i \in DOMAIN nodes : nodes'[i] = nodes[i]
    <3>1. batch \in Seq(Proposal) /\ clock \in Nat /\ DOMAIN nodes = 1..Len(nodes)
      BY <2>1, BatchesAssumption, MaxTimeAssumption DEF RecordInv, RecordTypeOK, Records
    <3> QED
      BY <2>1, <2>2, <3>1, ProposedType DEF Propose
  <2>3. ASSUME NEW o \in DOMAIN nodes, NEW q \in DOMAIN nodes, Choose(o, q)
        PROVE  /\ Len(nodes') >= Len(nodes)
               /\ \A i \in DOMAIN nodes :
                    nodes'[i] = [nodes[i] EXCEPT !.chosen = nodes'[i].chosen]
    <3>1. nodes' = Chosen(nodes, o, q) /\ Len(nodes) \in Nat
      BY <2>1, <2>3 DEF Choose, Records
    <3>2. Len(Chosen(nodes, o, q)) >= Len(nodes)
      BY <2>1, <3>1, ChosenType
    <3>3. \A i \in DOMAIN nodes :
            Chosen(nodes, o, q)[i] = [nodes[i] EXCEPT !.chosen = Chosen(nodes, o, q)[i].chosen]
      BY <2>1, ChosenOnlyAnswers
    <3> QED
      BY <3>1, <3>2, <3>3, Zenon
  <2>5. CASE \E batch \in Batches : Propose(batch)
    <3>1. /\ Len(nodes') >= Len(nodes)
          /\ \A i \in DOMAIN nodes : nodes'[i] = nodes[i]
      BY <2>2, <2>5
    <3> QED
      BY <3>1, <2>1 DEF Node
  <2>6. CASE \E o, q \in DOMAIN nodes : Choose(o, q)
    BY <2>3, <2>6
  <2>7. CASE \/ \E w \in BOOLEAN : SetSpec(w)
             \/ RecordTick
             \/ UNCHANGED record
    BY <2>7 DEF SetSpec, RecordTick, record
  <2> QED
    BY <2>5, <2>6, <2>7 DEF RecordNext
<1> QED
  BY <1>1, RecordInvInit, RecordInvNext, PTL DEF RecordSpec, AppendOnly

\* An answer that has been built on is final.
THEOREM LockedAnswersStay == RecordSpec => LockedAnswerStays
<1>1. RecordInv /\ [RecordNext]_record =>
        [\A q \in DOMAIN nodes : IsLocked(nodes, nodes[q]) => nodes'[q] = nodes[q]]_nodes
  <2> SUFFICES ASSUME RecordInv, [RecordNext]_record, nodes' /= nodes,
                      NEW q \in DOMAIN nodes, IsLocked(nodes, nodes[q])
               PROVE  nodes'[q] = nodes[q]
    OBVIOUS
  <2>1. nodes \in Records /\ DOMAIN nodes = 1..Len(nodes)
    BY DEF RecordInv, RecordTypeOK, Records
  <2>2. ASSUME NEW batch \in Batches, Propose(batch) PROVE nodes'[q] = nodes[q]
    <3>1. batch \in Seq(Proposal) /\ clock \in Nat
      BY BatchesAssumption, MaxTimeAssumption DEF RecordInv, RecordTypeOK
    <3> QED
      BY <2>1, <2>2, <3>1, ProposedType DEF Propose
  <2>3. ASSUME NEW o \in DOMAIN nodes, NEW p \in DOMAIN nodes, Choose(o, p)
        PROVE  nodes'[q] = nodes[q]
    <3>1. p /= q
      BY <2>3 DEF Choose, Choosable
    <3>2. nodes' = Chosen(nodes, o, p)
      BY <2>3 DEF Choose
    <3>3. Chosen(nodes, o, p)[q] = nodes[q]
      BY <2>1, <3>1, ChosenElsewhere
    <3> QED
      BY <3>2, <3>3
  <2>4. CASE \/ \E w \in BOOLEAN : SetSpec(w)
             \/ RecordTick
             \/ UNCHANGED record
    BY <2>4 DEF SetSpec, RecordTick, record
  <2> QED
    BY <2>2, <2>3, <2>4 DEF RecordNext
<1> QED
  BY <1>1, RecordInvInit, RecordInvNext, PTL DEF RecordSpec, LockedAnswerStays

-----------------------------------------------------------------------------
(***************************************************************************)
(* A record of any age reads whole.  The walks down the page and over the  *)
(* map are recursive functions on the places of the record; each exists    *)
(* because what it asks of later places (or of cards further down) has a   *)
(* smaller rank, and what holds of them is shown by a smallest             *)
(* counterexample.                                                         *)
(***************************************************************************)
\* Of natural numbers there is a least.
LEMMA LeastNatural ==
  ASSUME NEW S \in SUBSET Nat, S # {}
  PROVE  \E x \in S : \A y \in S : x <= y
<1>1. PICK x \in S : \A y \in S : ~ (<<y, x>> \in OpToRel(<, Nat))
  BY NatLessThanWellFounded, WFMin, Zenon
<1>2. \A y \in S : ~ (y < x)
  BY <1>1 DEF OpToRel
<1> QED
  BY <1>2

\* In a finite set with a strict total order each number of predecessors is somebody's.
LEMMA PlacesInOrder ==
  ASSUME NEW S, IsFiniteSet(S), NEW R,
         \A x, y \in S : x # y => <<x, y>> \in R \/ <<y, x>> \in R,
         \A x, y, z \in S : <<x, y>> \in R /\ <<y, z>> \in R => <<x, z>> \in R,
         \A x \in S : <<x, x>> \notin R
  PROVE  \A k \in 1..Cardinality(S) : \E x \in S : Cardinality({y \in S : <<y, x>> \in R}) = k - 1
<1> DEFINE n == Cardinality(S)
           Before(x) == {y \in S : <<y, x>> \in R}
           rank == [x \in S |-> Cardinality(Before(x)) + 1]
<1>1. n \in Nat /\ IsFiniteSet(1..n) /\ Cardinality(1..n) = n
  BY FS_CardinalityType, FS_Interval
<1>2. \A x \in S : IsFiniteSet(Before(x)) /\ Cardinality(Before(x)) \in Nat
  BY FS_Subset, FS_CardinalityType
<1>3. \A x \in S : Cardinality(Before(x)) + 1 <= n
  <2> TAKE x \in S
  <2>1. x \notin Before(x) /\ Before(x) \cup {x} \in SUBSET S
    OBVIOUS
  <2>2. Cardinality(Before(x) \cup {x}) = Cardinality(Before(x)) + 1
    BY <1>2, <2>1, FS_AddElement
  <2>3. Cardinality(Before(x) \cup {x}) <= n
    BY <2>1, FS_Subset
  <2> QED
    BY <2>2, <2>3
<1>4. ASSUME NEW x \in S, NEW y \in S, <<x, y>> \in R
      PROVE  Cardinality(Before(x)) # Cardinality(Before(y))
  <2>1. x \notin Before(x) /\ Before(x) \cup {x} \in SUBSET Before(y)
    BY <1>4
  <2>2. Cardinality(Before(x) \cup {x}) = Cardinality(Before(x)) + 1
    BY <1>2, <2>1, FS_AddElement
  <2>3. Cardinality(Before(x) \cup {x}) <= Cardinality(Before(y))
    BY <1>2, <2>1, FS_Subset
  <2> HIDE DEF Before
  <2> QED
    BY <1>2, <2>2, <2>3
<1>a. \A x \in S : rank[x] = Cardinality(Before(x)) + 1
  OBVIOUS
<1> HIDE DEF Before, n, rank
<1>5. rank \in Injection(S, 1..n)
  <2>1. \A x \in S : Cardinality(Before(x)) + 1 \in 1..n
    BY <1>1, <1>2, <1>3
  <2>2. rank \in [S -> 1..n]
    BY <2>1 DEF rank
  <2>3. ASSUME NEW x \in S, NEW y \in S, rank[x] = rank[y] PROVE x = y
    <3>1. Cardinality(Before(x)) = Cardinality(Before(y))
      BY <1>2, <1>a, <2>3
    <3> QED
      BY <1>4, <3>1
  <2> QED
    BY <2>2, <2>3 DEF Injection, IsInjective
<1>6. rank \in Surjection(S, 1..n)
  BY <1>1, <1>5, FS_Injection DEF n
<1>7. \A k \in 1..n : \E x \in S : rank[x] = k
  BY <1>6 DEF Surjection
<1>8. \A k \in 1..n : \E x \in S : Cardinality(Before(x)) = k - 1
  <2> TAKE k \in 1..n
  <2>1. PICK x \in S : rank[x] = k
    BY <1>7
  <2> QED
    BY <1>1, <1>2, <1>a, <2>1
<1> QED
  BY <1>8 DEF n, Before

\* A list in which each place is told by what it holds lists the set.
LEMMA Enumerates ==
  ASSUME NEW S, IsFiniteSet(S), NEW ranked, NEW seq \in [1..Cardinality(S) -> S],
         \A k \in 1..Cardinality(S) : ranked[seq[k]] = k - 1
  PROVE  seq \in Seq(S) /\ IsInjective(seq) /\ ToSet(seq) = S
<1> DEFINE n == Cardinality(S)
<1>0. n \in Nat
  BY FS_CardinalityType
<1>1. n \in Nat /\ IsFiniteSet(1..n) /\ Cardinality(1..n) = n
  BY <1>0, FS_Interval
<1>2. \A k, l \in 1..n : seq[k] = seq[l] => k = l
  <2> TAKE k, l \in 1..n
  <2> HAVE seq[k] = seq[l]
  <2>1. k - 1 = l - 1
    OBVIOUS
  <2> QED
    BY <1>1, <2>1
<1>3. seq \in Injection(1..n, S)
  BY <1>2 DEF Injection, IsInjective
<1>4. seq \in Surjection(1..n, S)
  BY <1>1, <1>3, FS_Injection
<1> QED
  BY <1>1, <1>2, <1>4 DEF Surjection, ToSet, IsInjective

-----------------------------------------------------------------------------
\* One sequence is a stretch of another.
Stretch(t, s) == \E d \in Nat : \A j \in DOMAIN t : d + j \in DOMAIN s /\ s[d + j] = t[j]

\* What two sequences make when they are put together.
IsJoin(a, b, c, S) ==
  /\ c \in Seq(S) /\ ToSet(c) = ToSet(a) \cup ToSet(b) /\ Stretch(a, c) /\ Stretch(b, c)
  /\ IsInjective(a) /\ IsInjective(b) /\ ToSet(a) \cap ToSet(b) = {} => IsInjective(c)
  /\ \A x \in ToSet(a), y \in ToSet(b) : \E i, j \in DOMAIN c : i < j /\ c[i] = x /\ c[j] = y

\* Concatenation joins.
LEMMA Joined ==
  ASSUME NEW S, NEW a \in Seq(S), NEW b \in Seq(S)
  PROVE  IsJoin(a, b, a \o b, S)
<1> DEFINE c == a \o b
<1>1. /\ c \in Seq(S) /\ Len(c) = Len(a) + Len(b) /\ Len(a) \in Nat /\ Len(b) \in Nat
      /\ DOMAIN c = 1..(Len(a) + Len(b)) /\ DOMAIN a = 1..Len(a) /\ DOMAIN b = 1..Len(b)
  OBVIOUS
<1>2. \A i \in 1..Len(a) : i \in DOMAIN c /\ c[i] = a[i]
  BY <1>1
<1>3. \A i \in 1..Len(b) : Len(a) + i \in DOMAIN c /\ c[Len(a) + i] = b[i]
  BY <1>1
<1>4. \A i \in DOMAIN c : (i \in 1..Len(a) /\ c[i] = a[i])
                          \/ (i - Len(a) \in 1..Len(b) /\ c[i] = b[i - Len(a)] /\ i > Len(a))
  BY <1>1
<1> HIDE DEF c
<1>5. ToSet(c) = ToSet(a) \cup ToSet(b)
  <2>1. \A i \in DOMAIN c : c[i] \in ToSet(a) \cup ToSet(b)
    BY <1>1, <1>4 DEF ToSet
  <2>2. \A i \in DOMAIN a : a[i] \in ToSet(c)
    BY <1>1, <1>2 DEF ToSet
  <2>3. \A i \in DOMAIN b : b[i] \in ToSet(c)
    BY <1>1, <1>3 DEF ToSet
  <2> QED
    BY <2>1, <2>2, <2>3 DEF ToSet
<1>6. Stretch(a, c)
  <2>1. \A j \in DOMAIN a : 0 + j \in DOMAIN c /\ c[0 + j] = a[j]
    BY <1>1, <1>2
  <2> QED
    BY <2>1 DEF Stretch
<1>7. Stretch(b, c)
  BY <1>1, <1>3 DEF Stretch
<1>8. ASSUME IsInjective(a), IsInjective(b), ToSet(a) \cap ToSet(b) = {} PROVE IsInjective(c)
  <2> SUFFICES ASSUME NEW i \in DOMAIN c, NEW j \in DOMAIN c, c[i] = c[j] PROVE i = j
    BY DEF IsInjective
  <2>1. \A k \in 1..Len(a), l \in 1..Len(b) : a[k] # b[l]
    BY <1>1, <1>8 DEF ToSet
  <2> QED
    BY <1>1, <1>4, <1>8, <2>1 DEF IsInjective
<1>9. ASSUME NEW x \in ToSet(a), NEW y \in ToSet(b)
      PROVE  \E i, j \in DOMAIN c : i < j /\ c[i] = x /\ c[j] = y
  <2>1. PICK k \in DOMAIN a : a[k] = x
    BY DEF ToSet
  <2>2. PICK l \in DOMAIN b : b[l] = y
    BY DEF ToSet
  <2>3. k < Len(a) + l /\ k \in DOMAIN c /\ Len(a) + l \in DOMAIN c /\ c[k] = x /\ c[Len(a) + l] = y
    BY <1>1, <1>2, <1>3, <2>1, <2>2
  <2> QED
    BY <2>3
<1>10. IsJoin(a, b, c, S)
  BY <1>1, <1>5, <1>6, <1>7, <1>8, <1>9 DEF IsJoin
<1> QED
  BY <1>10 DEF c

\* A stretch of a stretch is a stretch.
LEMMA StretchOfStretch ==
  ASSUME NEW r, NEW s, NEW t, Stretch(r, s), Stretch(s, t), DOMAIN r \subseteq Nat
  PROVE  Stretch(r, t)
<1>1. PICK d \in Nat : \A j \in DOMAIN r : d + j \in DOMAIN s /\ s[d + j] = r[j]
  BY DEF Stretch
<1>2. PICK e \in Nat : \A j \in DOMAIN s : e + j \in DOMAIN t /\ t[e + j] = s[j]
  BY DEF Stretch
<1>3. \A j \in DOMAIN r : (e + d) + j = e + (d + j)
  OBVIOUS
<1>4. \A j \in DOMAIN r : (e + d) + j \in DOMAIN t /\ t[(e + d) + j] = r[j]
  BY <1>1, <1>2, <1>3
<1> QED
  BY <1>4 DEF Stretch

-----------------------------------------------------------------------------
\* A recursion is founded when what it makes of one element depends on what it makes of
\* those of lower rank.
Founded(D, V, rank, b, G) ==
  /\ V # {} /\ rank \in [D -> Nat] /\ b \in Nat /\ \A i \in D : rank[i] < b
  /\ G \in [D -> [[D -> V] -> V]]
  /\ \A i \in D : \A f, g \in [D -> V] :
       (\A k \in D : rank[k] < rank[i] => f[k] = g[k]) => G[i][f] = G[i][g]

\* ... and then it is a function.
LEMMA Recursion ==
  ASSUME NEW D, NEW V, NEW rank, NEW b, NEW G, Founded(D, V, rank, b, G)
  PROVE  \E h \in [D -> V] : \A i \in D : h[i] = G[i][h]
<1> DEFINE Good(n, h) == \A i \in D : rank[i] < n => h[i] = G[i][h]
           Bad == {n \in Nat : ~ \E h \in [D -> V] : Good(n, h)}
<1> USE DEF Founded
<1>1. Bad = {}
  <2> SUFFICES ASSUME Bad # {} PROVE FALSE
    OBVIOUS
  <2>1. PICK n \in Bad : \A m \in Bad : n <= m
    BY LeastNatural
  <2>2. CASE n = 0
    <3>1. PICK v \in V : TRUE
      OBVIOUS
    <3>2. [i \in D |-> v] \in [D -> V]
      BY <3>1
    <3>3. \A i \in D : ~ (rank[i] < 0)
      OBVIOUS
    <3> QED
      BY <2>1, <2>2, <3>2, <3>3
  <2>3. CASE n # 0
    <3>1. n - 1 \in Nat /\ n \in Nat /\ ~ (n <= n - 1)
      BY <2>1, <2>3
    <3>2. PICK g \in [D -> V] : Good(n - 1, g)
      BY <2>1, <3>1
    <3> DEFINE h == [i \in D |-> G[i][g]]
    <3>3. h \in [D -> V]
      OBVIOUS
    <3>4. \A i \in D : h[i] = G[i][g]
      OBVIOUS
    <3> HIDE DEF h
    <3>5. ASSUME NEW i \in D, rank[i] < n PROVE h[i] = G[i][h]
      <4>1. \A k \in D : rank[k] < rank[i] => g[k] = h[k]
        BY <3>1, <3>2, <3>4, <3>5
      <4> QED
        BY <3>3, <3>4, <4>1
    <3> QED
      BY <2>1, <3>3, <3>5
  <2> QED
    BY <2>2, <2>3
<1>2. PICK h \in [D -> V] : Good(b, h)
  BY <1>1
<1> QED
  BY <1>2

\* The steps in which FlattenSeq puts sequences together.
LEMMA FlattenSteps ==
  ASSUME NEW S, NEW seqs \in Seq(Seq(S)), Len(seqs) # 0
  PROVE  \E flat : /\ FlattenSeq(seqs) = flat[Len(seqs)] /\ flat[1] = seqs[1]
                   /\ \A i \in 1..Len(seqs) : i # 1 => flat[i] = flat[i - 1] \o seqs[i]
<1> DEFINE n == Len(seqs)
           D == 1..n
           V == Seq(S)
<1>0. n \in Nat /\ n # 0 /\ DOMAIN seqs = D /\ \A k \in D : seqs[k] \in V
  OBVIOUS
<1> DEFINE Step(f, i) == IF i = 1 THEN seqs[i] ELSE f[i - 1] \o seqs[i]
           flat == CHOOSE f : f = [i \in D |-> Step(f, i)]
<1>1. FlattenSeq(seqs) = flat[n]
  BY <1>0 DEF FlattenSeq
<1>2. \E f : f = [i \in D |-> Step(f, i)]
  <2> DEFINE G == [i \in D |-> [f \in [D -> V] |-> Step(f, i)]]
             rank == [i \in D |-> i]
             b == n + 1
  <2>1. G \in [D -> [[D -> V] -> V]]
    <3>1. \A i \in D : \A f \in [D -> V] : Step(f, i) \in V
      <4> TAKE i \in D
      <4> TAKE f \in [D -> V]
      <4>1. i # 1 => i - 1 \in D
        BY <1>0
      <4>2. seqs[i] \in Seq(S)
        BY <1>0
      <4>3. i # 1 => f[i - 1] \in Seq(S)
        BY <4>1
      <4> QED
        BY <4>2, <4>3
    <3> QED
      BY <3>1
  <2>2. \A i \in D : \A f \in [D -> V] : G[i][f] = Step(f, i)
    OBVIOUS
  <2>3. /\ rank \in [D -> Nat] /\ b \in Nat /\ \A i \in D : rank[i] = i
        /\ \A i \in D : rank[i] < b
    BY <1>0
  <2>4. V # {}
    <3>1. << >> \in V
      OBVIOUS
    <3> QED
      BY <3>1
  <2>5. \A i \in D : \A f, g \in [D -> V] :
          (\A k \in D : rank[k] < rank[i] => f[k] = g[k]) => G[i][f] = G[i][g]
    <3> TAKE i \in D
    <3> TAKE f, g \in [D -> V]
    <3> HAVE \A k \in D : rank[k] < rank[i] => f[k] = g[k]
    <3>1. i # 1 => i - 1 \in D /\ i - 1 < i
      BY <1>0
    <3>2. i # 1 => f[i - 1] = g[i - 1]
      BY <2>3, <3>1
    <3> QED
      BY <2>2, <3>2
  <2> HIDE DEF G, rank, V, Step, D, n, b
  <2>6. PICK h \in [D -> V] : \A i \in D : h[i] = G[i][h]
    <3>1. Founded(D, V, rank, b, G)
      BY <2>1, <2>3, <2>4, <2>5 DEF Founded
    <3> QED
      BY <3>1, Recursion
  <2>7. h = [i \in D |-> Step(h, i)]
    BY <2>2, <2>6
  <2> QED
    BY <2>7
<1>3. flat = [i \in D |-> Step(flat, i)]
  BY <1>2
<1> HIDE DEF flat
<1>4. flat[1] = seqs[1] /\ \A i \in D : i # 1 => flat[i] = flat[i - 1] \o seqs[i]
  <2>1. \A i \in D : flat[i] = Step(flat, i)
    BY <1>3
  <2>2. 1 \in D
    BY <1>0
  <2> QED
    BY <2>1, <2>2
<1> QED
  BY <1>1, <1>4

\* Putting any number of sequences together.
LEMMA Flattened ==
  ASSUME NEW S, NEW seqs \in Seq(Seq(S))
  PROVE  /\ FlattenSeq(seqs) \in Seq(S)
         /\ ToSet(FlattenSeq(seqs)) = UNION {ToSet(seqs[k]) : k \in DOMAIN seqs}
         /\ \A k \in DOMAIN seqs : Stretch(seqs[k], FlattenSeq(seqs))
         /\ (/\ \A k \in DOMAIN seqs : IsInjective(seqs[k])
             /\ \A k, l \in DOMAIN seqs : k # l => ToSet(seqs[k]) \cap ToSet(seqs[l]) = {})
              => IsInjective(FlattenSeq(seqs))
<1> DEFINE n == Len(seqs)
           D == 1..n
           V == Seq(S)
<1>0. n \in Nat /\ DOMAIN seqs = D /\ \A k \in D : seqs[k] \in V
  OBVIOUS
<1>1. CASE n = 0
  <2>1. FlattenSeq(seqs) = seqs /\ seqs = << >>
    BY <1>1 DEF FlattenSeq
  <2> QED
    BY <2>1 DEF ToSet, IsInjective
<1>2. CASE n # 0
  <2>0. PICK flat : /\ FlattenSeq(seqs) = flat[n] /\ flat[1] = seqs[1]
                    /\ \A i \in D : i # 1 => flat[i] = flat[i - 1] \o seqs[i]
    BY <1>2, FlattenSteps
  <2> DEFINE Apart(m) == /\ \A k \in 1..m : IsInjective(seqs[k])
                         /\ \A k, l \in 1..m : k # l => ToSet(seqs[k]) \cap ToSet(seqs[l]) = {}
             Claim(m) == /\ flat[m] \in Seq(S)
                         /\ ToSet(flat[m]) = UNION {ToSet(seqs[k]) : k \in 1..m}
                         /\ \A k \in 1..m : Stretch(seqs[k], flat[m])
                         /\ Apart(m) => IsInjective(flat[m])
             Bad == {m \in D : ~ Claim(m)}
  <2>5. Bad = {}
    <3> SUFFICES ASSUME Bad # {} PROVE FALSE
      OBVIOUS
    <3>0. Bad \in SUBSET Nat
      OBVIOUS
    <3>1. PICK m \in Bad : \A l \in Bad : m <= l
      <4> HIDE DEF Bad
      <4> QED
        BY <3>0, LeastNatural
    <3>2. CASE m = 1
      <4>1. flat[m] = seqs[1] /\ 1..m = {1} /\ seqs[1] \in Seq(S)
        BY <1>0, <1>2, <2>0, <3>2
      <4>2. Stretch(seqs[1], seqs[1])
        <5>1. \A j \in DOMAIN seqs[1] : 0 + j = j
          BY <4>1
        <5> QED
          BY <5>1 DEF Stretch
      <4>3. Claim(m)
        BY <4>1, <4>2
      <4> QED
        BY <3>1, <4>3
    <3>3. CASE m # 1
      <4>1. m - 1 \in D /\ ~ (m <= m - 1) /\ 1..m = (1..(m - 1)) \cup {m} /\ m \in D
            /\ m \notin 1..(m - 1)
        BY <1>0, <3>1, <3>3
      <4>2. Claim(m - 1)
        BY <3>1, <4>1
      <4>3. flat[m] = flat[m - 1] \o seqs[m] /\ seqs[m] \in Seq(S) /\ flat[m - 1] \in Seq(S)
        BY <1>0, <2>0, <3>3, <4>1, <4>2
      <4> DEFINE a == flat[m - 1]
                 c == seqs[m]
      <4>4. ToSet(a) = UNION {ToSet(seqs[k]) : k \in 1..(m - 1)}
        BY <4>2
      <4>5. /\ flat[m] \in Seq(S) /\ ToSet(flat[m]) = ToSet(a) \cup ToSet(c)
            /\ Stretch(a, flat[m]) /\ Stretch(c, flat[m])
            /\ IsInjective(a) /\ IsInjective(c) /\ ToSet(a) \cap ToSet(c) = {}
                 => IsInjective(flat[m])
        BY <4>3, Joined DEF IsJoin
      <4>6. ToSet(flat[m]) = UNION {ToSet(seqs[k]) : k \in 1..m}
        BY <4>1, <4>4, <4>5
      <4>7. \A k \in 1..m : Stretch(seqs[k], flat[m])
        <5>1. ASSUME NEW k \in 1..(m - 1) PROVE Stretch(seqs[k], flat[m])
          <6>1. k \in D
            BY <4>1
          <6>2. seqs[k] \in Seq(S) /\ DOMAIN seqs[k] \subseteq Nat
            BY <1>0, <6>1
          <6>3. Stretch(seqs[k], a)
            BY <4>2
          <6> QED
            BY <4>5, <6>2, <6>3, StretchOfStretch
        <5> QED
          BY <4>1, <4>5, <5>1
      <4>8. ASSUME Apart(m) PROVE IsInjective(flat[m])
        <5>1. Apart(m - 1) /\ IsInjective(c)
          BY <4>1, <4>8
        <5>2. ToSet(a) \cap ToSet(c) = {}
          <6>1. \A k \in 1..(m - 1) : ToSet(seqs[k]) \cap ToSet(c) = {}
            <7> TAKE k \in 1..(m - 1)
            <7>1. k \in 1..m /\ m \in 1..m /\ k # m
              BY <4>1
            <7> QED
              BY <4>8, <7>1
          <6> QED
            BY <4>4, <6>1
        <5> QED
          BY <4>2, <4>5, <5>1, <5>2
      <4>9. Claim(m)
        BY <4>5, <4>6, <4>7, <4>8
      <4> QED
        BY <3>1, <4>9
    <3> QED
      BY <3>2, <3>3
  <2>6. Claim(n)
    <3>1. n \in D
      BY <1>0, <1>2
    <3> QED
      BY <2>5, <3>1
  <2> QED
    BY <1>0, <2>0, <2>6
<1> QED
  BY <1>1, <1>2

\* What holds of an element when it holds of all of lower rank holds of all.
LEMMA ByRank ==
  ASSUME NEW D, NEW rank \in [D -> Nat], NEW Good,
         \A i \in D : (\A k \in D : rank[k] < rank[i] => k \in Good) => i \in Good
  PROVE  \A i \in D : i \in Good
<1> DEFINE bad == {rank[i] : i \in {j \in D : j \notin Good}}
<1> SUFFICES ASSUME bad # {} PROVE FALSE
  OBVIOUS
<1>1. bad \in SUBSET Nat
  OBVIOUS
<1> HIDE DEF bad
<1>2. PICK n \in bad : \A m \in bad : n <= m
  BY <1>1, LeastNatural
<1>3. PICK i \in D : i \notin Good /\ rank[i] = n
  BY <1>2 DEF bad
<1>4. \A k \in D : k \notin Good => n <= rank[k]
  BY <1>2 DEF bad
<1>5. \A k \in D : rank[k] < rank[i] => k \in Good
  BY <1>3, <1>4
<1> QED
  BY <1>3, <1>5

\* What comes of a list.
LEMMA EachOf ==
  ASSUME NEW S, NEW T, NEW list \in Seq(T), NEW read, \A k \in ToSet(list) : read[k] \in Seq(S)
  PROVE  /\ Each(read, list) \in Seq(S)
         /\ ToSet(Each(read, list)) = UNION {ToSet(read[k]) : k \in ToSet(list)}
         /\ \A k \in ToSet(list) : Stretch(read[k], Each(read, list))
         /\ (/\ IsInjective(list) /\ \A k \in ToSet(list) : IsInjective(read[k])
             /\ \A k, l \in ToSet(list) : k # l => ToSet(read[k]) \cap ToSet(read[l]) = {})
              => IsInjective(Each(read, list))
<1> DEFINE seqs == [k \in DOMAIN list |-> read[list[k]]]
<1>1. /\ seqs \in Seq(Seq(S)) /\ DOMAIN seqs = DOMAIN list
      /\ \A k \in DOMAIN list : seqs[k] = read[list[k]] /\ list[k] \in ToSet(list)
  BY DEF ToSet
<1>2. Each(read, list) = FlattenSeq(seqs)
  BY DEF Each
<1> HIDE DEF seqs
<1>4. \A k \in ToSet(list) : \E j \in DOMAIN seqs : seqs[j] = read[k]
  <2> TAKE k \in ToSet(list)
  <2>1. PICK j \in DOMAIN list : list[j] = k
    BY DEF ToSet
  <2> QED
    BY <1>1, <2>1
<1>3. UNION {ToSet(seqs[k]) : k \in DOMAIN seqs} = UNION {ToSet(read[k]) : k \in ToSet(list)}
  <2>1. \A k \in DOMAIN seqs : \E l \in ToSet(list) : seqs[k] = read[l]
    BY <1>1
  <2> QED
    BY <1>4, <2>1
<1>5. ASSUME IsInjective(list), \A k \in ToSet(list) : IsInjective(read[k]),
             \A k, l \in ToSet(list) : k # l => ToSet(read[k]) \cap ToSet(read[l]) = {}
      PROVE  IsInjective(Each(read, list))
  <2>1. \A k \in DOMAIN seqs : IsInjective(seqs[k])
    BY <1>1, <1>5
  <2>2. \A k, l \in DOMAIN seqs : k # l => ToSet(seqs[k]) \cap ToSet(seqs[l]) = {}
    <3> TAKE k, l \in DOMAIN seqs
    <3> HAVE k # l
    <3>1. list[k] # list[l]
      BY <1>1, <1>5 DEF IsInjective
    <3> QED
      BY <1>1, <1>5, <3>1
  <2> QED
    BY <1>1, <1>2, <2>1, <2>2, Flattened
<1>6. Each(read, list) \in Seq(S)
  BY <1>1, <1>2, Flattened
<1>7. ToSet(Each(read, list)) = UNION {ToSet(seqs[k]) : k \in DOMAIN seqs}
  BY <1>1, <1>2, Flattened
<1>8. \A k \in DOMAIN seqs : Stretch(seqs[k], Each(read, list))
  BY <1>1, <1>2, Flattened
<1> QED
  BY <1>3, <1>4, <1>5, <1>6, <1>7, <1>8

\* What comes of a list depends on its members only.
LEMMA EachSame ==
  ASSUME NEW list, NEW f, NEW g, \A k \in ToSet(list) : f[k] = g[k]
  PROVE  Each(f, list) = Each(g, list)
<1>1. [k \in DOMAIN list |-> f[list[k]]] = [k \in DOMAIN list |-> g[list[k]]]
  BY DEF ToSet
<1> QED
  BY <1>1 DEF Each

\* One sequence or two.
LEMMA FlattenFew ==
  ASSUME NEW S, NEW a \in Seq(S), NEW b \in Seq(S)
  PROVE  FlattenSeq(<<a>>) = a /\ FlattenSeq(<<a, b>>) = a \o b
<1>1. FlattenSeq(<<a>>) = a
  <2> DEFINE seqs == <<a>>
  <2>1. seqs \in Seq(Seq(S)) /\ Len(seqs) = 1 /\ Len(seqs) # 0 /\ seqs[1] = a
    OBVIOUS
  <2> HIDE DEF seqs
  <2>2. FlattenSeq(seqs) = a
    BY <2>1, FlattenSteps
  <2> QED
    BY <2>2 DEF seqs
<1>2. FlattenSeq(<<a, b>>) = a \o b
  <2> DEFINE seqs == <<a, b>>
  <2>1. seqs \in Seq(Seq(S)) /\ Len(seqs) = 2 /\ Len(seqs) # 0 /\ seqs[1] = a /\ seqs[2] = b
    OBVIOUS
  <2> HIDE DEF seqs
  <2>2. PICK flat : /\ FlattenSeq(seqs) = flat[Len(seqs)] /\ flat[1] = seqs[1]
                    /\ \A i \in 1..Len(seqs) : i # 1 => flat[i] = flat[i - 1] \o seqs[i]
    BY <2>1, FlattenSteps
  <2>3. 2 \in 1..Len(seqs) /\ 2 # 1 /\ 2 - 1 = 1
    BY <2>1
  <2>4. flat[2] = a \o b
    BY <2>1, <2>2, <2>3
  <2> QED
    BY <2>1, <2>2, <2>4 DEF seqs
<1> QED
  BY <1>1, <1>2

-----------------------------------------------------------------------------
\* The first place where something is, or nowhere.
LEMMA MinIs ==
  ASSUME NEW S \in SUBSET Nat, S # {}
  PROVE  Min(S) \in S /\ \A x \in S : Min(S) <= x
BY LeastNatural DEF Min

\* Where ids are apart, a node is found by its id.
LEMMA PlaceOfId ==
  ASSUME NEW ns \in Records, UniqueIds(ns), NEW id
  PROVE  /\ PlaceOf(ns, id) = 0 \/ (PlaceOf(ns, id) \in DOMAIN ns /\ ns[PlaceOf(ns, id)].id = id)
         /\ \A i \in DOMAIN ns : ns[i].id = id => PlaceOf(ns, id) = i
<1> DEFINE I == {i \in 1..Len(ns) : ns[i].id = id}
<1>1. PlaceOf(ns, id) = IF I # {} THEN Min(I) ELSE 0
  BY DEF PlaceOf, SelectInSeq
<1>2. DOMAIN ns = 1..Len(ns) /\ I \in SUBSET Nat
  BY DEF Records
<1>3. I # {} => Min(I) \in I
  BY <1>2, MinIs
<1> QED
  BY <1>1, <1>2, <1>3 DEF UniqueIds

Par(ns, i) == PlaceOf(ns, ns[i].parent)

\* In a readable record a node's parent is an earlier node.
LEMMA Parents ==
  ASSUME NEW ns \in Records, Readable(ns), NEW i \in DOMAIN ns
  PROVE  /\ i \in Nat /\ i <= Len(ns) /\ i >= 1
         /\ ns[i].parent = NoNode => Par(ns, i) = 0
         /\ ns[i].parent # NoNode => /\ Par(ns, i) \in DOMAIN ns /\ Par(ns, i) < i
                                     /\ ns[Par(ns, i)].id = ns[i].parent
         /\ Par(ns, i) = 0 => ns[i].parent = NoNode
         /\ \A p \in DOMAIN ns : i \in Kids(ns, ns[p].id) <=> Par(ns, i) = p
         /\ i \in Roots(ns) <=> Par(ns, i) = 0
<1>1. /\ DOMAIN ns = 1..Len(ns) /\ Len(ns) \in Nat
      /\ \A j \in DOMAIN ns : ns[j].id \in NodeIds /\ ns[j].id # NoNode
  BY RecordNode, NoNodeAssumption DEF Records
<1>2. /\ Par(ns, i) = 0 \/ (Par(ns, i) \in DOMAIN ns /\ ns[Par(ns, i)].id = ns[i].parent)
      /\ \A j \in DOMAIN ns : ns[j].id = ns[i].parent => Par(ns, i) = j
  BY PlaceOfId DEF Readable, Par
<1>3. ns[i].parent = NoNode => Par(ns, i) = 0
  BY <1>1, <1>2
<1>4. ASSUME ns[i].parent # NoNode
      PROVE  Par(ns, i) \in DOMAIN ns /\ Par(ns, i) < i /\ ns[Par(ns, i)].id = ns[i].parent
  <2>1. PICK j \in 1..(i - 1) : ns[j].id = ns[i].parent
    BY <1>4 DEF Readable, ParentEarlier
  <2>2. j \in DOMAIN ns
    BY <1>1
  <2> QED
    BY <1>1, <1>2, <2>1, <2>2
<1>5. \A p \in DOMAIN ns : 0 # p
  BY <1>1
<1>6. \A p \in DOMAIN ns : i \in Kids(ns, ns[p].id) <=> Par(ns, i) = p
  BY <1>1, <1>2, <1>3, <1>5 DEF Kids
<1>7. i \in Roots(ns) <=> ns[i].parent = NoNode
  BY DEF Kids, Roots
<1> QED
  BY <1>1, <1>3, <1>4, <1>5, <1>6, <1>7

\* A question has a winner when it is answered, one of its candidates.
LEMMA Winners ==
  ASSUME NEW ns \in Records, Readable(ns), NEW q \in DOMAIN ns
  PROVE  /\ ns[q].chosen = NoNode => Winner(ns, q) = 0
         /\ ns[q].chosen # NoNode =>
              /\ Winner(ns, q) \in DOMAIN ns /\ Par(ns, Winner(ns, q)) = q
              /\ ns[Winner(ns, q)].kind = "option" /\ ns[Winner(ns, q)].id = ns[q].chosen
              /\ ns[q].kind = "question"
<1>1. /\ DOMAIN ns = 1..Len(ns) /\ Len(ns) \in Nat
      /\ \A j \in DOMAIN ns : ns[j].id \in NodeIds /\ ns[j].id # NoNode
  BY RecordNode, NoNodeAssumption DEF Records
<1>2. /\ Winner(ns, q) = 0 \/ (Winner(ns, q) \in DOMAIN ns /\ ns[Winner(ns, q)].id = ns[q].chosen)
      /\ \A j \in DOMAIN ns : ns[j].id = ns[q].chosen => Winner(ns, q) = j
  BY PlaceOfId DEF Readable, Winner
<1>3. ASSUME ns[q].chosen # NoNode
      PROVE  /\ Winner(ns, q) \in DOMAIN ns /\ Par(ns, Winner(ns, q)) = q
             /\ ns[Winner(ns, q)].kind = "option" /\ ns[Winner(ns, q)].id = ns[q].chosen
             /\ ns[q].kind = "question"
  <2>1. PICK o \in DOMAIN ns : ns[o].id = ns[q].chosen /\ ns[o].kind = "option"
                               /\ ns[o].parent = ns[q].id
    BY <1>3 DEF Readable, AnswerIsCandidate
  <2>2. ns[q].kind = "question"
    BY <1>3 DEF Readable, AnswerIsCandidate
  <2>3. Par(ns, o) = q
    BY <2>1, PlaceOfId DEF Readable, Par
  <2> QED
    BY <1>2, <2>1, <2>2, <2>3
<1> QED
  BY <1>1, <1>2, <1>3

-----------------------------------------------------------------------------
\* The lists: each member of a set of places once.
Lists(list, set, D) == list \in Seq(D) /\ IsInjective(list) /\ ToSet(list) = set

\* The places of a record are numbers, finitely many.
LEMMA FinitePlaces ==
  ASSUME NEW ns \in Records, NEW set \in SUBSET DOMAIN ns
  PROVE  IsFiniteSet(set) /\ set \in SUBSET Nat
<1>1. DOMAIN ns = 1..Len(ns) /\ Len(ns) \in Nat
  BY DEF Records
<1>2. IsFiniteSet(1..Len(ns))
  BY <1>1, FS_Interval
<1> QED
  BY <1>1, <1>2, FS_Subset

\* Places in order,
LEMMA ListedLists ==
  ASSUME NEW ns \in Records, NEW set \in SUBSET DOMAIN ns
  PROVE  Lists(Listed(set), set, DOMAIN ns)
<1> DEFINE R == {p \in set \X set : p[1] < p[2]}
           before == [i \in set |-> Cardinality({j \in set : j < i})]
           seq == Listed(set)
<1>1. IsFiniteSet(set) /\ set \in SUBSET Nat
  BY FinitePlaces
<1>2. \A x, y \in set : <<x, y>> \in R <=> x < y
  OBVIOUS
<1>3. seq = [k \in 1..Cardinality(set) |->
               CHOOSE i \in set : Cardinality({j \in set : j < i}) = k - 1]
  BY DEF Listed, InOrder
<1> HIDE DEF seq, R
<1>4. \A k \in 1..Cardinality(set) :
        \E x \in set : Cardinality({y \in set : <<y, x>> \in R}) = k - 1
  <2>1. \A x, y \in set : x # y => <<x, y>> \in R \/ <<y, x>> \in R
    BY <1>1, <1>2
  <2>2. \A x, y, z \in set : <<x, y>> \in R /\ <<y, z>> \in R => <<x, z>> \in R
    BY <1>1, <1>2
  <2>3. \A x \in set : <<x, x>> \notin R
    BY <1>1, <1>2
  <2> QED
    BY <1>1, <2>1, <2>2, <2>3, PlacesInOrder
<1>5. \A x \in set : {y \in set : <<y, x>> \in R} = {y \in set : y < x}
  BY <1>2
<1>6. \A k \in 1..Cardinality(set) : seq[k] \in set /\ before[seq[k]] = k - 1
  BY <1>3, <1>4, <1>5
<1>7. seq \in [1..Cardinality(set) -> set]
  BY <1>3, <1>4, <1>5
<1> HIDE DEF before
<1>8. seq \in Seq(set) /\ IsInjective(seq) /\ ToSet(seq) = set
  BY <1>1, <1>6, <1>7, Enumerates
<1>9. seq \in Seq(DOMAIN ns)
  BY <1>8
<1> QED
  BY <1>8, <1>9 DEF Lists, seq

\* candidates,
LEMMA CandidatesList ==
  ASSUME NEW ns \in Records, NEW set \in SUBSET DOMAIN ns
  PROVE  Lists(Candidates(ns, set), {i \in set : ns[i].kind = "option"}, DOMAIN ns)
<1>1. {i \in set : ns[i].kind = "option"} \in SUBSET DOMAIN ns
  OBVIOUS
<1> QED
  BY <1>1, ListedLists DEF Candidates

\* and what ordered returns, list each place of their sets once.
LEMMA OrderedLists ==
  ASSUME NEW ns \in Records, NEW all \in SUBSET DOMAIN ns
  PROVE  Lists(Ordered(ns, all), {i \in all : ns[i].kind /= "option"}, DOMAIN ns)
<1> DEFINE set == {i \in all : ns[i].kind /= "option"}
           Earlier(i, j) == ns[i].at < ns[j].at \/ (ns[i].at = ns[j].at /\ i < j)
           R == {p \in set \X set : Earlier(p[1], p[2])}
           before == [i \in set |-> Cardinality({j \in set : Earlier(j, i)})]
           seq == Ordered(ns, all)
<1>1. set \in SUBSET DOMAIN ns /\ IsFiniteSet(set) /\ set \in SUBSET Nat
  BY FinitePlaces
<1>2. \A x, y \in set : <<x, y>> \in R <=> Earlier(x, y)
  OBVIOUS
<1>a. \A x \in set : ns[x].at \in Nat /\ x \in Nat
  BY <1>1, RecordNode DEF Node
<1>3. seq = [k \in 1..Cardinality(set) |->
               CHOOSE i \in set : Cardinality({j \in set : Earlier(j, i)}) = k - 1]
  BY DEF Ordered, InOrder
<1> HIDE DEF seq, R, set
<1>4. \A k \in 1..Cardinality(set) :
        \E x \in set : Cardinality({y \in set : <<y, x>> \in R}) = k - 1
  <2>1. \A x, y \in set : x # y => <<x, y>> \in R \/ <<y, x>> \in R
    BY <1>a, <1>2
  <2>2. \A x, y, z \in set : <<x, y>> \in R /\ <<y, z>> \in R => <<x, z>> \in R
    BY <1>a, <1>2
  <2>3. \A x \in set : <<x, x>> \notin R
    BY <1>a, <1>2
  <2> QED
    BY <1>1, <2>1, <2>2, <2>3, PlacesInOrder
<1>5. \A x \in set : {y \in set : <<y, x>> \in R} = {y \in set : Earlier(y, x)}
  BY <1>2
<1> HIDE DEF Earlier
<1>6. \A k \in 1..Cardinality(set) : seq[k] \in set /\ before[seq[k]] = k - 1
  BY <1>3, <1>4, <1>5
<1>7. seq \in [1..Cardinality(set) -> set]
  BY <1>3, <1>4, <1>5
<1> HIDE DEF before
<1>8. seq \in Seq(set) /\ IsInjective(seq) /\ ToSet(seq) = set
  BY <1>1, <1>6, <1>7, Enumerates
<1>9. seq \in Seq(DOMAIN ns)
  BY <1>1, <1>8
<1> QED
  BY <1>8, <1>9 DEF Lists, seq, set

-----------------------------------------------------------------------------
(***************************************************************************)
(* The page.  What is read from a node on begins with the node itself and  *)
(* its answer; then comes what is read from its other candidates on, then  *)
(* what is read from the nodes on that the walk goes on to.                *)
(***************************************************************************)
Leads(ns, i) ==
  IF ns[i].kind = "question" /\ Winner(ns, i) # 0 THEN <<i, Winner(ns, i)>> ELSE <<i>>

Shown(ns, i) ==
  IF ns[i].kind = "question" THEN Candidates(ns, Kids(ns, ns[i].id) \ {Winner(ns, i)})
  ELSE << >>

\* The nodes that are shown, and those that are gone on to.
ShownSet(ns, i) ==
  {j \in DOMAIN ns : ns[i].kind = "question" /\ Par(ns, j) = i /\ ns[j].kind = "option"
                     /\ j # Winner(ns, i)}

GoesOnSet(ns, i) ==
  {j \in DOMAIN ns : /\ ns[j].kind # "option"
                     /\ \/ Par(ns, j) = i
                        \/ /\ ns[i].kind = "question" /\ Winner(ns, i) # 0
                           /\ Par(ns, j) = Winner(ns, i)}

\* The nodes under a node are those whose parent it is.
LEMMA KidsAre ==
  ASSUME NEW ns \in Records, Readable(ns), NEW p \in DOMAIN ns
  PROVE  Kids(ns, ns[p].id) = {j \in DOMAIN ns : Par(ns, j) = p}
<1>1. \A i \in DOMAIN ns : i \in Kids(ns, ns[p].id) <=> Par(ns, i) = p
  BY Parents
<1>2. Kids(ns, ns[p].id) \subseteq DOMAIN ns
  BY DEF Kids
<1> QED
  BY <1>1, <1>2

\* Both parts of what follows a node are lists of places,
LEMMA TailsList ==
  ASSUME NEW ns \in Records, Readable(ns), NEW i \in DOMAIN ns
  PROVE  /\ Lists(Shown(ns, i), ShownSet(ns, i), DOMAIN ns)
         /\ Lists(GoesOn(ns, i), GoesOnSet(ns, i), DOMAIN ns)
         /\ Leads(ns, i) \in Seq(DOMAIN ns)
<1> DEFINE w == Winner(ns, i)
           D == DOMAIN ns
           after == Ordered(ns, Kids(ns, ns[i].id))
<1>1. w = 0 \/ w \in D
  BY PlaceOfId DEF Readable, Winner
<1>2. 0 \notin D
  BY DEF Records
<1>3. \A p \in D : Kids(ns, ns[p].id) = {j \in D : Par(ns, j) = p}
  BY KidsAre
<1>4. Lists(Shown(ns, i), ShownSet(ns, i), D)
  <2>1. CASE ns[i].kind = "question"
    <3> DEFINE T == Kids(ns, ns[i].id) \ {w}
    <3>1. T \in SUBSET D /\ T = {j \in D : Par(ns, j) = i /\ j # w}
      BY <1>3
    <3>2. Lists(Candidates(ns, T), {j \in T : ns[j].kind = "option"}, D)
      BY <3>1, CandidatesList
    <3>3. {j \in T : ns[j].kind = "option"} = ShownSet(ns, i)
      BY <2>1, <3>1 DEF ShownSet
    <3> QED
      BY <2>1, <3>2, <3>3 DEF Shown
  <2>2. CASE ns[i].kind # "question"
    <3>1. Shown(ns, i) = << >> /\ ShownSet(ns, i) = {}
      BY <2>2 DEF Shown, ShownSet
    <3>2. Lists(<< >>, {}, D)
      BY DEF Lists, ToSet, IsInjective
    <3> QED
      BY <3>1, <3>2
  <2> QED
    BY <2>1, <2>2
<1>5. \A p \in D : Lists(Ordered(ns, Kids(ns, ns[p].id)),
                         {j \in D : Par(ns, j) = p /\ ns[j].kind # "option"}, D)
  <2> TAKE p \in D
  <2>1. Kids(ns, ns[p].id) \in SUBSET D
    BY <1>3
  <2>2. Lists(Ordered(ns, Kids(ns, ns[p].id)),
              {j \in Kids(ns, ns[p].id) : ns[j].kind /= "option"}, D)
    BY <2>1, OrderedLists
  <2>3. {j \in Kids(ns, ns[p].id) : ns[j].kind /= "option"}
        = {j \in D : Par(ns, j) = p /\ ns[j].kind # "option"}
    BY <1>3
  <2> QED
    BY <2>2, <2>3
<1>6. Lists(GoesOn(ns, i), GoesOnSet(ns, i), D)
  <2>1. CASE ns[i].kind = "question" /\ w # 0
    <3>1. GoesOn(ns, i) = Ordered(ns, Kids(ns, ns[w].id)) \o after
      BY <2>1 DEF GoesOn, BranchUnder
    <3>2. Lists(Ordered(ns, Kids(ns, ns[w].id)),
                {j \in D : Par(ns, j) = w /\ ns[j].kind # "option"}, D)
      BY <1>1, <1>5, <2>1
    <3>3. Lists(after, {j \in D : Par(ns, j) = i /\ ns[j].kind # "option"}, D)
      BY <1>5
    <3>4. w # i
      <4>1. ns[i].chosen # NoNode
        BY <2>1, Winners
      <4> QED
        BY <2>1, <4>1, Winners
    <3>5. GoesOnSet(ns, i) = {j \in D : Par(ns, j) = w /\ ns[j].kind # "option"}
                             \cup {j \in D : Par(ns, j) = i /\ ns[j].kind # "option"}
      BY <2>1 DEF GoesOnSet
    <3> HIDE DEF after, w
    <3> DEFINE a == Ordered(ns, Kids(ns, ns[w].id))
    <3>6. a \in Seq(D) /\ after \in Seq(D) /\ IsInjective(a) /\ IsInjective(after)
          /\ ToSet(a) \cap ToSet(after) = {} /\ ToSet(a) \cup ToSet(after) = GoesOnSet(ns, i)
      BY <3>2, <3>3, <3>4, <3>5 DEF Lists
    <3> HIDE DEF a
    <3>7. a \o after \in Seq(D) /\ IsInjective(a \o after) /\ ToSet(a \o after) = GoesOnSet(ns, i)
      <4>1. IsJoin(a, after, a \o after, D)
        BY <3>6, Joined
      <4> QED
        BY <3>6, <4>1 DEF IsJoin
    <3> QED
      BY <3>1, <3>7 DEF Lists, a
  <2>2. CASE ~ (ns[i].kind = "question" /\ w # 0)
    <3>1. GoesOn(ns, i) = after
      BY <2>2 DEF GoesOn
    <3>2. GoesOnSet(ns, i) = {j \in D : Par(ns, j) = i /\ ns[j].kind # "option"}
      BY <2>2 DEF GoesOnSet
    <3> QED
      BY <1>5, <3>1, <3>2
  <2> QED
    BY <2>1, <2>2
<1>7. Leads(ns, i) \in Seq(D)
  <2>1. CASE ns[i].kind = "question" /\ w # 0
    <3>1. Leads(ns, i) = <<i, w>> /\ w \in D
      BY <1>1, <2>1 DEF Leads
    <3> HIDE DEF w
    <3> QED
      BY <3>1
  <2>2. CASE ~ (ns[i].kind = "question" /\ w # 0)
    <3>1. Leads(ns, i) = <<i>>
      BY <2>2 DEF Leads
    <3> QED
      BY <3>1
  <2> QED
    BY <2>1, <2>2
<1> QED
  BY <1>4, <1>6, <1>7

\* What is read from a node on, whatever the page makes of the nodes under it.
LEMMA PageShape ==
  ASSUME NEW ns \in Records, Readable(ns), NEW closed, NEW i \in DOMAIN ns, NEW read,
         \A k \in ToSet(Shown(ns, i)) \cup ToSet(GoesOn(ns, i)) : read[k] \in Seq(DOMAIN ns)
  PROVE  ReadFrom(ns, closed, read, i)
           = (Leads(ns, i) \o Each(read, Shown(ns, i))) \o Each(read, GoesOn(ns, i))
<1> DEFINE D == DOMAIN ns
           w == Winner(ns, i)
           kids == Kids(ns, ns[i].id)
           rest == Each(read, GoesOn(ns, i))
           state == QuestionState(ns, i, closed)
           inline == IF state = "waiting" THEN Candidates(ns, kids) ELSE << >>
           losers == IF state = "waiting" THEN << >> ELSE Candidates(ns, kids \ {w})
           first == [node |-> i, row |-> "question", state |-> state,
                     locked |-> IsLocked(ns, ns[i]),
                     options |-> inline, rejected |-> IF w = 0 THEN losers ELSE << >>]
           second == [NoteRow(w) EXCEPT !.row = "chosen", !.rejected = losers]
           ReadRow(r) == <<r.node>> \o Each(read, r.options) \o Each(read, r.rejected)
           rows == RowsOf(ns, closed, i)
<1>1. w = 0 \/ w \in D
  BY PlaceOfId DEF Readable, Winner
<1>2. 0 \notin D /\ kids \subseteq D
  BY DEF Records, Kids
<1>3. Each(read, << >>) = << >>
  BY DEF Each, FlattenSeq
<1>4. Each(read, Shown(ns, i)) \in Seq(D)
  <2>1. Shown(ns, i) \in Seq(D)
    BY TailsList DEF Lists
  <2> QED
    BY <2>1, EachOf
<1>5. CASE ns[i].kind = "option"
  <2>1. ReadFrom(ns, closed, read, i) = <<i>> \o Each(read, BranchUnder(ns, i))
    BY <1>5 DEF ReadFrom
  <2>2. BranchUnder(ns, i) = GoesOn(ns, i) /\ Leads(ns, i) = <<i>> /\ Shown(ns, i) = << >>
    BY <1>5 DEF BranchUnder, GoesOn, Leads, Shown
  <2>3. <<i>> \o << >> = <<i>>
    OBVIOUS
  <2> QED
    BY <1>3, <2>1, <2>2, <2>3
<1>6. CASE ns[i].kind # "option"
  <2>1. ReadFrom(ns, closed, read, i)
        = FlattenSeq([k \in DOMAIN rows |-> ReadRow(rows[k])]) \o rest
    BY <1>6 DEF ReadFrom
  <2> DEFINE parts == [k \in DOMAIN rows |-> ReadRow(rows[k])]
  <2>2. SUFFICES FlattenSeq(parts) = Leads(ns, i) \o Each(read, Shown(ns, i))
    BY <2>1
  <2>3. CASE ns[i].kind # "question"
    <3>1. rows = <<NoteRow(i)>> /\ Leads(ns, i) = <<i>> /\ Shown(ns, i) = << >>
      BY <2>3 DEF RowsOf, Leads, Shown
    <3>2. ReadRow(NoteRow(i)) = <<i>> \o << >> \o << >>
      BY <1>3 DEF NoteRow
    <3>3. parts = <<ReadRow(NoteRow(i))>>
      <4> HIDE DEF ReadRow, rows
      <4> QED
        BY <3>1
    <3>4. <<i>> \o << >> \o << >> = <<i>> /\ <<i>> \o << >> = <<i>> /\ <<i>> \in Seq(D)
      OBVIOUS
    <3>5. FlattenSeq(<<<<i>>>>) = <<i>>
      BY <3>4, FlattenFew
    <3> QED
      BY <1>3, <3>1, <3>2, <3>3, <3>4, <3>5
  <2>4. CASE ns[i].kind = "question"
    <3>0. Shown(ns, i) = Candidates(ns, kids \ {w})
      BY <2>4 DEF Shown
    <3>1. CASE w = 0
      <4>1. rows = <<first>> /\ Leads(ns, i) = <<i>>
        BY <2>4, <3>1 DEF RowsOf, Leads
      <4>2. kids \ {w} = kids
        BY <1>2, <3>1
      <4>3. \/ inline = Shown(ns, i) /\ losers = << >>
            \/ inline = << >> /\ losers = Shown(ns, i)
        BY <3>0, <4>2
      <4>4. ReadRow(first) = <<i>> \o Each(read, inline) \o Each(read, losers)
        BY <3>1
      <4>5. ReadRow(first) = <<i>> \o Each(read, Shown(ns, i))
        <5> DEFINE e == Each(read, Shown(ns, i))
        <5>1. e \in Seq(D)
          BY <1>4
        <5>2. \/ ReadRow(first) = <<i>> \o e \o << >>
              \/ ReadRow(first) = <<i>> \o << >> \o e
          BY <1>3, <4>3, <4>4
        <5> HIDE DEF e
        <5>3. <<i>> \o e \o << >> = <<i>> \o e /\ <<i>> \o << >> = <<i>>
          BY <5>1
        <5> QED
          BY <5>2, <5>3 DEF e
      <4>6. parts = <<ReadRow(first)>>
        <5> HIDE DEF ReadRow, rows, first
        <5> QED
          BY <4>1
      <4>7. <<i>> \o Each(read, Shown(ns, i)) \in Seq(D)
        BY <1>4
      <4> HIDE DEF parts, ReadRow, first
      <4>8. FlattenSeq(<<ReadRow(first)>>) = ReadRow(first)
        BY <4>5, <4>7, FlattenFew
      <4> QED
        BY <4>1, <4>5, <4>6, <4>8
    <3>2. CASE w # 0
      <4>1. rows = <<first, second>> /\ Leads(ns, i) = <<i, w>>
        BY <2>4, <3>2 DEF RowsOf, Leads
      <4>2. ns[i].chosen # NoNode
        BY <3>2, Winners
      <4>3. state = "answered"
        BY <4>2 DEF QuestionState
      <4>4. inline = << >> /\ losers = Shown(ns, i)
        BY <3>0, <4>3
      <4>5. ReadRow(first) = <<i>> \o << >> \o << >>
        BY <1>3, <3>2, <4>4
      <4> DEFINE e == Each(read, Shown(ns, i))
      <4>6. ReadRow(second) = <<w>> \o << >> \o e
        <5>1. second.node = w /\ second.options = << >> /\ second.rejected = losers
          BY DEF NoteRow
        <5> HIDE DEF second, w
        <5> QED
          BY <1>3, <4>4, <5>1
      <4>7. parts = <<ReadRow(first), ReadRow(second)>>
        <5> HIDE DEF ReadRow, rows, first, second
        <5> QED
          BY <4>1
      <4> HIDE DEF parts, ReadRow, first, second, w
      <4>8. e \in Seq(D) /\ w \in D
        BY <1>1, <1>4, <3>2
      <4> HIDE DEF e
      <4>9. <<i>> \o << >> \o << >> = <<i>> /\ <<w>> \o << >> = <<w>> /\ <<w>> \o e \in Seq(D)
            /\ <<i>> \in Seq(D) /\ <<i>> \o (<<w>> \o e) = <<i, w>> \o e
        BY <4>8
      <4>10. parts = <<<<i>>, <<w>> \o e>>
        BY <4>5, <4>6, <4>7, <4>9
      <4>11. FlattenSeq(<<<<i>>, <<w>> \o e>>) = <<i>> \o (<<w>> \o e)
        BY <4>9, FlattenFew
      <4> QED
        BY <4>1, <4>9, <4>10, <4>11 DEF e
    <3> QED
      BY <3>1, <3>2
  <2> QED
    BY <2>3, <2>4
<1> QED
  BY <1>5, <1>6

\* all of them later than the node.
LEMMA TailsLater ==
  ASSUME NEW ns \in Records, Readable(ns), NEW i \in DOMAIN ns,
         NEW k \in ShownSet(ns, i) \cup GoesOnSet(ns, i)
  PROVE  k \in DOMAIN ns /\ i < k
<1>1. k \in DOMAIN ns /\ i \in Nat /\ k \in Nat /\ i # 0
  BY Parents DEF ShownSet, GoesOnSet
<1>2. \A j \in DOMAIN ns : Par(ns, j) # 0 => Par(ns, j) \in DOMAIN ns /\ Par(ns, j) < j
  BY Parents
<1>3. CASE Par(ns, k) = i
  BY <1>1, <1>2, <1>3
<1>4. CASE Par(ns, k) # i
  <2>1. ns[i].kind = "question" /\ Winner(ns, i) # 0 /\ Par(ns, k) = Winner(ns, i)
    BY <1>4 DEF ShownSet, GoesOnSet
  <2>2. ns[i].chosen # NoNode
    BY <2>1, Winners
  <2>3. Winner(ns, i) \in DOMAIN ns /\ Par(ns, Winner(ns, i)) = i /\ Winner(ns, i) \in Nat
    BY <2>2, Winners, Parents
  <2>4. i < Winner(ns, i) /\ Winner(ns, i) < k
    BY <1>1, <1>2, <2>1, <2>3
  <2> QED
    BY <1>1, <2>3, <2>4
<1> QED
  BY <1>3, <1>4

\* What the page makes of the nodes is a function.
LEMMA PageIs ==
  ASSUME NEW ns \in Records, Readable(ns), NEW closed
  PROVE  \E read \in [DOMAIN ns -> Seq(DOMAIN ns)] :
           /\ \A i \in DOMAIN ns :
                read[i] = (Leads(ns, i) \o Each(read, Shown(ns, i))) \o Each(read, GoesOn(ns, i))
           /\ PageOf(ns, closed) = Each(read, Listed(Roots(ns)))
<1> DEFINE D == DOMAIN ns
           V == Seq(D)
           After(i) == ToSet(Shown(ns, i)) \cup ToSet(GoesOn(ns, i))
           Shape(read, i) ==
             (Leads(ns, i) \o Each(read, Shown(ns, i))) \o Each(read, GoesOn(ns, i))
           G == [i \in D |-> [f \in [D -> V] |-> Shape(f, i)]]
           rank == [i \in D |-> Len(ns) - i]
           b == Len(ns) + 1
           Read == CHOOSE f : f = [i \in D |-> ReadFrom(ns, closed, f, i)]
<1>1. \A i \in D : i \in Nat /\ i <= Len(ns) /\ i >= 1
  BY Parents
<1>2. Len(ns) \in Nat
  BY DEF Records
<1>3. \A i \in D : After(i) \subseteq {k \in D : i < k}
  BY TailsList, TailsLater DEF Lists
<1>4. rank \in [D -> Nat] /\ b \in Nat /\ \A i \in D : rank[i] < b
  BY <1>1, <1>2
<1>5. \A i \in D : \A k \in D : i < k <=> rank[k] < rank[i]
  BY <1>1, <1>2
<1>6. \A i \in D : Shown(ns, i) \in Seq(D) /\ GoesOn(ns, i) \in Seq(D) /\ Leads(ns, i) \in Seq(D)
  BY TailsList DEF Lists
<1>7. ASSUME NEW i \in D, NEW f, \A k \in After(i) : f[k] \in V
      PROVE  Shape(f, i) \in V /\ ReadFrom(ns, closed, f, i) = Shape(f, i)
  <2>1. Each(f, Shown(ns, i)) \in Seq(D) /\ Each(f, GoesOn(ns, i)) \in Seq(D)
    BY <1>6, <1>7, EachOf
  <2>2. Shape(f, i) \in V
    <3> DEFINE x == Each(f, Shown(ns, i))
               y == Each(f, GoesOn(ns, i))
               z == Leads(ns, i)
    <3>1. x \in Seq(D) /\ y \in Seq(D) /\ z \in Seq(D)
      BY <1>6, <2>1
    <3> HIDE DEF x, y, z
    <3>2. (z \o x) \o y \in Seq(D)
      BY <3>1
    <3> QED
      BY <3>2 DEF x, y, z
  <2> QED
    BY <1>7, <2>2, PageShape
<1> HIDE DEF b
<1>8. G \in [D -> [[D -> V] -> V]]
  <2>1. \A i \in D : \A f \in [D -> V] : Shape(f, i) \in V
    <3> TAKE i \in D
    <3> TAKE f \in [D -> V]
    <3>1. \A k \in After(i) : f[k] \in V
      BY <1>3
    <3> QED
      BY <1>7, <3>1
  <2> HIDE DEF Shape, V
  <2> QED
    BY <2>1
<1>9. \A i \in D : \A f, g \in [D -> V] :
        (\A k \in D : rank[k] < rank[i] => f[k] = g[k]) => Shape(f, i) = Shape(g, i)
  <2> TAKE i \in D
  <2> TAKE f, g \in [D -> V]
  <2> HAVE \A k \in D : rank[k] < rank[i] => f[k] = g[k]
  <2>1. \A k \in After(i) : f[k] = g[k]
    BY <1>3, <1>5
  <2>2. Each(f, Shown(ns, i)) = Each(g, Shown(ns, i))
        /\ Each(f, GoesOn(ns, i)) = Each(g, GoesOn(ns, i))
    BY <2>1, EachSame
  <2> QED
    BY <2>2
<1>a. \A i \in D : \A f \in [D -> V] : G[i][f] = Shape(f, i)
  <2> HIDE DEF Shape, V
  <2> QED
    OBVIOUS
<1> HIDE DEF G
<1>10. PICK h \in [D -> V] : \A i \in D : h[i] = G[i][h]
  <2>1. << >> \in V
    OBVIOUS
  <2>2. Founded(D, V, rank, b, G)
    <3>1. \A i \in D : \A f, g \in [D -> V] :
            (\A k \in D : rank[k] < rank[i] => f[k] = g[k]) => G[i][f] = G[i][g]
      <4> HIDE DEF V, Shape, rank
      <4> QED
        BY <1>9, <1>a
    <3> HIDE DEF V, Shape, rank
    <3> QED
      BY <1>4, <1>8, <2>1, <3>1 DEF Founded
  <2> HIDE DEF V, Shape, rank
  <2> QED
    BY <2>2, Recursion
<1>11. \A i \in D : ReadFrom(ns, closed, h, i) = h[i]
  <2> TAKE i \in D
  <2>1. \A k \in After(i) : h[k] \in V
    BY <1>3
  <2> QED
    BY <1>7, <1>10, <1>a, <2>1
<1>12. Read = [i \in D |-> ReadFrom(ns, closed, Read, i)]
  <2>1. h = [i \in D |-> ReadFrom(ns, closed, h, i)]
    <3> HIDE DEF V
    <3> QED
      BY <1>11
  <2>2. \E f : f = [i \in D |-> ReadFrom(ns, closed, f, i)]
    BY <2>1
  <2> QED
    BY <2>2
<1>13. PageOf(ns, closed) = Each(Read, Listed(Roots(ns)))
  BY DEF PageOf
<1> HIDE DEF Read
<1>14. \A i \in D : Read[i] \in V /\ Read[i] = Shape(Read, i)
  <2> DEFINE Good == {i \in D : Read[i] \in V /\ Read[i] = Shape(Read, i)}
  <2>1. ASSUME NEW i \in D, \A k \in D : rank[k] < rank[i] => k \in Good PROVE i \in Good
    <3>1. \A k \in After(i) : Read[k] \in V
      BY <1>3, <1>5, <2>1
    <3>2. Read[i] = ReadFrom(ns, closed, Read, i)
      BY <1>12
    <3> HIDE DEF Shape, V
    <3>3. Shape(Read, i) \in V /\ ReadFrom(ns, closed, Read, i) = Shape(Read, i)
      BY <1>7, <3>1
    <3> QED
      BY <3>2, <3>3
  <2>2. \A i \in D : i \in Good
    <3>1. rank \in [D -> Nat]
      BY <1>4
    <3> HIDE DEF Good, rank, D
    <3> QED
      BY <2>1, <3>1, ByRank
  <2> QED
    BY <2>2
<1>15. Read \in [D -> V]
  <2> HIDE DEF V
  <2>1. Read = [i \in D |-> Read[i]]
    BY <1>12
  <2> QED
    BY <1>14, <2>1
<1> HIDE DEF V
<1> QED
  BY <1>13, <1>14, <1>15 DEF V

\* The node from which another is read, 0 if it is read from none: a candidate of a question
\* and what follows its answer are read from the question, the rest from their parents.
Reader(ns, x) ==
  LET p == Par(ns, x) IN
  IF p = 0 \/ (ns[x].kind = "option" /\ ns[p].kind # "question") THEN 0
  ELSE IF /\ ns[x].kind # "option" /\ Par(ns, p) # 0
          /\ ns[Par(ns, p)].kind = "question" /\ Winner(ns, Par(ns, p)) = p
       THEN Par(ns, p) ELSE p

IsWinner(ns, x) == \E q \in DOMAIN ns : ns[q].kind = "question" /\ Winner(ns, q) = x

\* A winner is a candidate of its question,
LEMMA WinnerIs ==
  ASSUME NEW ns \in Records, Readable(ns), NEW q \in DOMAIN ns, Winner(ns, q) # 0
  PROVE  /\ Winner(ns, q) \in DOMAIN ns /\ Par(ns, Winner(ns, q)) = q
         /\ ns[Winner(ns, q)].kind = "option" /\ ns[q].kind = "question"
<1>1. ns[q].chosen # NoNode
  BY Winners
<1> QED
  BY <1>1, Winners

\* and every other node has one reader, the node whose rows bring it up.
LEMMA ReaderIs ==
  ASSUME NEW ns \in Records, Readable(ns), NEW x \in DOMAIN ns
  PROVE  /\ Reader(ns, x) \in Nat /\ Reader(ns, x) < x
         /\ Reader(ns, x) # 0 => Reader(ns, x) \in DOMAIN ns /\ ~ IsWinner(ns, Reader(ns, x))
         /\ \A i \in DOMAIN ns : ~ IsWinner(ns, i) /\ x \in ShownSet(ns, i) \cup GoesOnSet(ns, i)
              => Reader(ns, x) = i /\ ~ IsWinner(ns, x)
         /\ \A i \in DOMAIN ns : Reader(ns, x) = i =>
              \/ x \in ShownSet(ns, i) \cup GoesOnSet(ns, i)
              \/ ns[i].kind = "question" /\ Winner(ns, i) = x
         /\ \A i \in DOMAIN ns : ns[i].kind = "question" /\ Winner(ns, i) = x => Reader(ns, x) = i
         /\ x \in Roots(ns) => Reader(ns, x) = 0 /\ ~ IsWinner(ns, x)
<1> DEFINE D == DOMAIN ns
           p == Par(ns, x)
           r == Reader(ns, x)
<1>1. /\ \A j \in D : j \in Nat /\ j # 0
      /\ \A j \in D : Par(ns, j) # 0 => Par(ns, j) \in D /\ Par(ns, j) < j
  BY Parents
<1>2. \A q \in D : Winner(ns, q) # 0 =>
        /\ Winner(ns, q) \in D /\ Par(ns, Winner(ns, q)) = q
        /\ ns[Winner(ns, q)].kind = "option" /\ ns[q].kind = "question"
  BY WinnerIs
<1>3. \A q \in D : q \in Roots(ns) <=> Par(ns, q) = 0
  BY Parents
<1>4. r \in Nat /\ r < x
  BY <1>1 DEF Reader
<1>5. ASSUME r # 0 PROVE r \in D /\ ~ IsWinner(ns, r)
  <2>1. r \in D
    BY <1>1, <1>5 DEF Reader
  <2>2. ASSUME NEW q \in D, Winner(ns, q) = r PROVE FALSE
    BY <1>1, <1>2, <1>5, <2>1, <2>2 DEF Reader
  <2> QED
    BY <2>1, <2>2 DEF IsWinner
<1>6. ASSUME NEW i \in D, ~ IsWinner(ns, i), x \in ShownSet(ns, i) \cup GoesOnSet(ns, i)
      PROVE  r = i /\ ~ IsWinner(ns, x)
  <2>1. CASE x \in ShownSet(ns, i)
    <3>1. r = i
      BY <1>1, <2>1 DEF ShownSet, Reader
    <3>2. ~ IsWinner(ns, x)
      BY <1>1, <1>2, <2>1 DEF ShownSet, IsWinner
    <3> QED
      BY <3>1, <3>2
  <2>2. CASE x \in GoesOnSet(ns, i) /\ p = i
    <3>1. ns[x].kind # "option"
      BY <2>2 DEF GoesOnSet
    <3>2. r = i
      BY <1>1, <1>6, <2>2, <3>1 DEF Reader, IsWinner
    <3>3. ~ IsWinner(ns, x)
      BY <1>1, <1>2, <3>1 DEF IsWinner
    <3> QED
      BY <3>2, <3>3
  <2>3. CASE x \in GoesOnSet(ns, i) /\ p # i
    <3>1. ns[x].kind # "option" /\ ns[i].kind = "question" /\ Winner(ns, i) # 0
          /\ p = Winner(ns, i)
      BY <2>3 DEF GoesOnSet
    <3>2. Par(ns, p) = i /\ p # 0
      BY <1>1, <1>2, <3>1
    <3>3. r = i
      BY <1>1, <3>1, <3>2 DEF Reader
    <3>4. ~ IsWinner(ns, x)
      BY <1>1, <1>2, <3>1 DEF IsWinner
    <3> QED
      BY <3>3, <3>4
  <2> QED
    BY <1>6, <2>1, <2>2, <2>3
<1>7. ASSUME NEW i \in D, r = i
      PROVE  \/ x \in ShownSet(ns, i) \cup GoesOnSet(ns, i)
             \/ ns[i].kind = "question" /\ Winner(ns, i) = x
  <2>1. i # 0 /\ p # 0 /\ p \in D
    BY <1>1, <1>7 DEF Reader
  <2>2. CASE ns[x].kind = "option"
    <3>1. p = i /\ ns[i].kind = "question"
      BY <1>7, <2>1, <2>2 DEF Reader
    <3> QED
      BY <2>2, <3>1 DEF ShownSet
  <2>3. CASE ns[x].kind # "option" /\ p = i
    BY <2>3 DEF GoesOnSet
  <2>4. CASE ns[x].kind # "option" /\ p # i
    <3>1. Par(ns, p) = i /\ ns[i].kind = "question" /\ Winner(ns, i) = p
      BY <1>7, <2>1, <2>4 DEF Reader
    <3> QED
      BY <2>1, <2>4, <3>1 DEF GoesOnSet
  <2> QED
    BY <2>2, <2>3, <2>4
<1>8. ASSUME NEW i \in D, Winner(ns, i) = x PROVE r = i
  <2>1. x # 0 /\ p = i /\ ns[x].kind = "option" /\ ns[i].kind = "question" /\ i # 0
    BY <1>1, <1>2, <1>8
  <2> QED
    BY <2>1 DEF Reader
<1>9. ASSUME x \in Roots(ns) PROVE r = 0 /\ ~ IsWinner(ns, x)
  <2>1. p = 0
    BY <1>3, <1>9
  <2>2. ASSUME NEW q \in D, Winner(ns, q) = x PROVE FALSE
    BY <1>1, <1>2, <2>1, <2>2
  <2> QED
    BY <2>1, <2>2 DEF Reader, IsWinner
<1> QED
  BY <1>4, <1>5, <1>6, <1>7, <1>8, <1>9

PageMade(ns, read) ==
  /\ read \in [DOMAIN ns -> Seq(DOMAIN ns)]
  /\ \A i \in DOMAIN ns :
       read[i] = (Leads(ns, i) \o Each(read, Shown(ns, i))) \o Each(read, GoesOn(ns, i))

NextSet(ns, i) == ShownSet(ns, i) \cup GoesOnSet(ns, i)

LeadSet(ns, i) ==
  {x \in DOMAIN ns : x = i \/ (ns[i].kind = "question" /\ Winner(ns, i) = x)}

\* A node's rows begin with the node, and its winner if it has one.
LEMMA LeadsAre ==
  ASSUME NEW ns \in Records, Readable(ns), NEW i \in DOMAIN ns
  PROVE  /\ Leads(ns, i) \in Seq(DOMAIN ns) /\ ToSet(Leads(ns, i)) = LeadSet(ns, i)
         /\ IsInjective(Leads(ns, i))
         /\ \A x \in LeadSet(ns, i) : x # i =>
              1 \in DOMAIN Leads(ns, i) /\ 2 \in DOMAIN Leads(ns, i)
              /\ Leads(ns, i)[1] = i /\ Leads(ns, i)[2] = x
<1> DEFINE w == Winner(ns, i)
<1>1. Leads(ns, i) \in Seq(DOMAIN ns)
  BY TailsList
<1>2. 0 \notin DOMAIN ns
  BY DEF Records
<1>3. CASE ns[i].kind = "question" /\ w # 0
  <2>1. Leads(ns, i) = <<i, w>>
    BY <1>3 DEF Leads
  <2>2. w \in DOMAIN ns /\ w # i
    BY <1>3, WinnerIs
  <2>3. LeadSet(ns, i) = {i, w}
    BY <1>3, <2>2 DEF LeadSet
  <2> HIDE DEF w
  <2> QED
    BY <1>1, <2>1, <2>2, <2>3 DEF ToSet, IsInjective
<1>4. CASE ~ (ns[i].kind = "question" /\ w # 0)
  <2>1. Leads(ns, i) = <<i>>
    BY <1>4 DEF Leads
  <2>2. LeadSet(ns, i) = {i}
    BY <1>2, <1>4 DEF LeadSet
  <2> QED
    BY <1>1, <2>1, <2>2 DEF ToSet, IsInjective
<1> QED
  BY <1>3, <1>4

\* One element of a sequence comes before another.
Comes(s, x, y) == \E m, n \in DOMAIN s : m < n /\ s[m] = x /\ s[n] = y

\* What is read from a node on, in terms of what is read from the next ones on.
LEMMA ReadIs ==
  ASSUME NEW ns \in Records, Readable(ns), NEW read, PageMade(ns, read), NEW i \in DOMAIN ns
  PROVE  /\ read[i] \in Seq(DOMAIN ns)
         /\ ToSet(read[i]) = LeadSet(ns, i) \cup UNION {ToSet(read[k]) : k \in NextSet(ns, i)}
         /\ \A k \in NextSet(ns, i) : Stretch(read[k], read[i])
         /\ \A x \in LeadSet(ns, i), k \in NextSet(ns, i) : \A y \in ToSet(read[k]) :
              Comes(read[i], x, y)
         /\ \A x \in LeadSet(ns, i) : x # i => Comes(read[i], i, x)
         /\ (/\ \A k \in NextSet(ns, i) : IsInjective(read[k])
             /\ \A k \in NextSet(ns, i) : LeadSet(ns, i) \cap ToSet(read[k]) = {}
             /\ \A k, l \in NextSet(ns, i) : k # l => ToSet(read[k]) \cap ToSet(read[l]) = {})
              => IsInjective(read[i])
<1> DEFINE D == DOMAIN ns
           a == Leads(ns, i)
           shown == Shown(ns, i)
           after == GoesOn(ns, i)
           b == Each(read, shown)
           c == Each(read, after)
           s == read[i]
<1>1. /\ shown \in Seq(D) /\ IsInjective(shown) /\ ToSet(shown) = ShownSet(ns, i)
      /\ after \in Seq(D) /\ IsInjective(after) /\ ToSet(after) = GoesOnSet(ns, i)
  BY TailsList DEF Lists
<1>2. /\ a \in Seq(D) /\ ToSet(a) = LeadSet(ns, i) /\ IsInjective(a)
      /\ \A x \in LeadSet(ns, i) : x # i => 1 \in DOMAIN a /\ 2 \in DOMAIN a
                                            /\ a[1] = i /\ a[2] = x
  BY LeadsAre
<1>3. /\ \A k \in D : read[k] \in Seq(D)
      /\ s = (a \o b) \o c
  BY DEF PageMade
<1>4. ShownSet(ns, i) \subseteq D /\ GoesOnSet(ns, i) \subseteq D
      /\ ShownSet(ns, i) \cap GoesOnSet(ns, i) = {}
  BY DEF ShownSet, GoesOnSet
<1> HIDE DEF a, shown, after, s
<1>5. /\ b \in Seq(D) /\ ToSet(b) = UNION {ToSet(read[k]) : k \in ShownSet(ns, i)}
      /\ \A k \in ShownSet(ns, i) : Stretch(read[k], b)
      /\ (/\ \A k \in ShownSet(ns, i) : IsInjective(read[k])
          /\ \A k, l \in ShownSet(ns, i) : k # l => ToSet(read[k]) \cap ToSet(read[l]) = {})
           => IsInjective(b)
  <2>1. \A k \in ToSet(shown) : read[k] \in Seq(D)
    BY <1>1, <1>3, <1>4
  <2>2. /\ b \in Seq(D) /\ ToSet(b) = UNION {ToSet(read[k]) : k \in ToSet(shown)}
        /\ \A k \in ToSet(shown) : Stretch(read[k], b)
        /\ (/\ IsInjective(shown) /\ \A k \in ToSet(shown) : IsInjective(read[k])
            /\ \A k, l \in ToSet(shown) : k # l => ToSet(read[k]) \cap ToSet(read[l]) = {})
             => IsInjective(b)
    BY <1>1, <2>1, EachOf
  <2> HIDE DEF b
  <2> QED
    BY <1>1, <2>2
<1>6. /\ c \in Seq(D) /\ ToSet(c) = UNION {ToSet(read[k]) : k \in GoesOnSet(ns, i)}
      /\ \A k \in GoesOnSet(ns, i) : Stretch(read[k], c)
      /\ (/\ \A k \in GoesOnSet(ns, i) : IsInjective(read[k])
          /\ \A k, l \in GoesOnSet(ns, i) : k # l => ToSet(read[k]) \cap ToSet(read[l]) = {})
           => IsInjective(c)
  <2>1. \A k \in ToSet(after) : read[k] \in Seq(D)
    BY <1>1, <1>3, <1>4
  <2>2. /\ c \in Seq(D) /\ ToSet(c) = UNION {ToSet(read[k]) : k \in ToSet(after)}
        /\ \A k \in ToSet(after) : Stretch(read[k], c)
        /\ (/\ IsInjective(after) /\ \A k \in ToSet(after) : IsInjective(read[k])
            /\ \A k, l \in ToSet(after) : k # l => ToSet(read[k]) \cap ToSet(read[l]) = {})
             => IsInjective(c)
    BY <1>1, <2>1, EachOf
  <2> HIDE DEF c
  <2> QED
    BY <1>1, <2>2
<1> HIDE DEF b, c
<1> DEFINE ab == a \o b
<1>7. IsJoin(a, b, ab, D)
  BY <1>2, <1>5, Joined
<1> HIDE DEF ab
<1>8. IsJoin(ab, c, s, D)
  <2>1. s = ab \o c /\ ab \in Seq(D)
    BY <1>3, <1>7 DEF ab, IsJoin
  <2> QED
    BY <1>6, <2>1, Joined
<1> USE DEF IsJoin
<1>9. \A m, n \in DOMAIN ab : m < n =>
        \E k, l \in DOMAIN s : k < l /\ s[k] = ab[m] /\ s[l] = ab[n]
  <2>1. PICK d \in Nat : \A j \in DOMAIN ab : d + j \in DOMAIN s /\ s[d + j] = ab[j]
    BY <1>8 DEF Stretch
  <2> TAKE m, n \in DOMAIN ab
  <2> HAVE m < n
  <2>2. m \in Nat /\ n \in Nat
    BY <1>7
  <2>3. d + m < d + n
    BY <2>2
  <2> QED
    BY <2>1, <2>3
<1>10. ASSUME NEW k \in NextSet(ns, i) PROVE Stretch(read[k], s)
  <2>1. DOMAIN read[k] \subseteq Nat
    BY <1>3, <1>4 DEF NextSet
  <2>2. CASE k \in ShownSet(ns, i)
    <3>1. DOMAIN b \subseteq Nat
      BY <1>5
    <3>2. Stretch(read[k], ab)
      BY <1>5, <1>7, <2>1, <2>2, StretchOfStretch
    <3> QED
      BY <1>8, <2>1, <3>2, StretchOfStretch
  <2>3. CASE k \in GoesOnSet(ns, i)
    BY <1>6, <1>8, <2>1, <2>3, StretchOfStretch
  <2> QED
    BY <2>2, <2>3 DEF NextSet
<1>11. ASSUME NEW x \in LeadSet(ns, i), NEW k \in NextSet(ns, i), NEW y \in ToSet(read[k])
       PROVE  \E m, n \in DOMAIN s : m < n /\ s[m] = x /\ s[n] = y
  <2>1. CASE k \in ShownSet(ns, i)
    <3>1. y \in ToSet(b)
      BY <1>5, <2>1
    <3> QED
      BY <1>2, <1>7, <1>9, <3>1
  <2>2. CASE k \in GoesOnSet(ns, i)
    <3>1. y \in ToSet(c)
      BY <1>6, <2>2
    <3> QED
      BY <1>2, <1>7, <1>8, <3>1
  <2> QED
    BY <2>1, <2>2 DEF NextSet
<1>12. ASSUME NEW x \in LeadSet(ns, i), x # i
       PROVE  \E m, n \in DOMAIN s : m < n /\ s[m] = i /\ s[n] = x
  <2>1. PICK d \in Nat : \A j \in DOMAIN a : d + j \in DOMAIN ab /\ ab[d + j] = a[j]
    BY <1>7 DEF Stretch
  <2>2. d + 1 \in DOMAIN ab /\ d + 2 \in DOMAIN ab /\ d + 1 < d + 2
        /\ ab[d + 1] = i /\ ab[d + 2] = x
    BY <1>2, <1>12, <2>1
  <2> QED
    BY <1>9, <2>2
<1>13. ASSUME \A k \in NextSet(ns, i) : IsInjective(read[k]),
              \A k \in NextSet(ns, i) : LeadSet(ns, i) \cap ToSet(read[k]) = {},
              \A k, l \in NextSet(ns, i) : k # l => ToSet(read[k]) \cap ToSet(read[l]) = {}
       PROVE  IsInjective(s)
  <2>0. ShownSet(ns, i) \subseteq NextSet(ns, i) /\ GoesOnSet(ns, i) \subseteq NextSet(ns, i)
    BY DEF NextSet
  <2>1. IsInjective(b) /\ IsInjective(c)
    BY <1>5, <1>6, <1>13, <2>0
  <2>2. ToSet(a) \cap ToSet(b) = {} /\ ToSet(a) \cap ToSet(c) = {}
    BY <1>2, <1>5, <1>6, <1>13, <2>0
  <2>3. ToSet(b) \cap ToSet(c) = {}
    <3>1. \A k \in ShownSet(ns, i), l \in GoesOnSet(ns, i) : ToSet(read[k]) \cap ToSet(read[l]) = {}
      <4> TAKE k \in ShownSet(ns, i), l \in GoesOnSet(ns, i)
      <4>1. k \in NextSet(ns, i) /\ l \in NextSet(ns, i) /\ k # l
        BY <1>4, <2>0
      <4> QED
        BY <1>13, <4>1
    <3>2. ASSUME NEW z \in ToSet(b), z \in ToSet(c) PROVE FALSE
      <4>1. PICK k \in ShownSet(ns, i) : z \in ToSet(read[k])
        BY <1>5, <3>2
      <4>2. PICK l \in GoesOnSet(ns, i) : z \in ToSet(read[l])
        BY <1>6, <3>2
      <4> QED
        BY <3>1, <4>1, <4>2
    <3> QED
      BY <3>2
  <2>4. ToSet(ab) \cap ToSet(c) = {} /\ IsInjective(ab)
    BY <1>2, <1>7, <2>1, <2>2, <2>3
  <2> QED
    BY <1>8, <2>1, <2>4
<1>14. ToSet(s) = LeadSet(ns, i) \cup UNION {ToSet(read[k]) : k \in NextSet(ns, i)}
  BY <1>2, <1>5, <1>6, <1>7, <1>8 DEF NextSet
<1> QED
  BY <1>8, <1>10, <1>11, <1>12, <1>13, <1>14 DEF s, Comes

\* A node is the reader of just the nodes that its rows go on to.
LEMMA NextOnes ==
  ASSUME NEW ns \in Records, Readable(ns), NEW i \in DOMAIN ns, ~ IsWinner(ns, i),
         NEW k \in NextSet(ns, i)
  PROVE  k \in DOMAIN ns /\ i < k /\ ~ IsWinner(ns, k) /\ Reader(ns, k) = i
BY TailsLater, ReaderIs DEF NextSet

\* Induction up the record, from the last node to the first.
LEMMA FromTheEnd ==
  ASSUME NEW ns \in Records, NEW Good,
         \A i \in DOMAIN ns : (\A k \in DOMAIN ns : i < k => k \in Good) => i \in Good
  PROVE  \A i \in DOMAIN ns : i \in Good
<1> DEFINE rank == [i \in DOMAIN ns |-> Len(ns) - i]
<1>1. Len(ns) \in Nat /\ DOMAIN ns = 1..Len(ns)
  BY DEF Records
<1>2. rank \in [DOMAIN ns -> Nat]
  BY <1>1
<1>3. \A i, k \in DOMAIN ns : i < k => rank[k] < rank[i]
  BY <1>1
<1> HIDE DEF rank
<1> QED
  BY <1>2, <1>3, ByRank

\* ... and down the record.
LEMMA FromTheStart ==
  ASSUME NEW ns \in Records, NEW Good,
         \A i \in DOMAIN ns : (\A k \in DOMAIN ns : k < i => k \in Good) => i \in Good
  PROVE  \A i \in DOMAIN ns : i \in Good
<1> DEFINE rank == [i \in DOMAIN ns |-> i]
<1>1. Len(ns) \in Nat /\ DOMAIN ns = 1..Len(ns)
  BY DEF Records
<1>2. rank \in [DOMAIN ns -> Nat]
  BY <1>1
<1>3. \A i, k \in DOMAIN ns : k < i => rank[k] < rank[i]
  OBVIOUS
<1> HIDE DEF rank
<1> QED
  BY <1>2, <1>3, ByRank

\* All that is read from a node on comes after it in the record, and each of it but the
\* node itself is read from another of it.
LEMMA ReadFromIt ==
  ASSUME NEW ns \in Records, Readable(ns), NEW read, PageMade(ns, read)
  PROVE  \A k \in DOMAIN ns : ~ IsWinner(ns, k) =>
           /\ k \in ToSet(read[k])
           /\ \A x \in ToSet(read[k]) : /\ x \in DOMAIN ns /\ x >= k
                                        /\ x # k => Reader(ns, x) \in ToSet(read[k])
<1> DEFINE D == DOMAIN ns
           Good == {k \in D : ~ IsWinner(ns, k) =>
                      /\ k \in ToSet(read[k])
                      /\ \A x \in ToSet(read[k]) : /\ x \in D /\ x >= k
                                                   /\ x # k => Reader(ns, x) \in ToSet(read[k])}
<1>1. ASSUME NEW i \in D, \A k \in D : i < k => k \in Good PROVE i \in Good
  <2> SUFFICES ASSUME ~ IsWinner(ns, i)
               PROVE  /\ i \in ToSet(read[i])
                      /\ \A x \in ToSet(read[i]) : /\ x \in D /\ x >= i
                                                   /\ x # i => Reader(ns, x) \in ToSet(read[i])
    OBVIOUS
  <2>1. ToSet(read[i]) = LeadSet(ns, i) \cup UNION {ToSet(read[k]) : k \in NextSet(ns, i)}
    BY ReadIs
  <2>2. \A j \in D : j \in Nat
    BY DEF Records
  <2>3. i \in ToSet(read[i])
    BY <2>1 DEF LeadSet
  <2>4. ASSUME NEW x \in ToSet(read[i])
        PROVE  x \in D /\ x >= i /\ (x # i => Reader(ns, x) \in ToSet(read[i]))
    <3>1. CASE x \in LeadSet(ns, i)
      <4>1. x \in D /\ (x # i => Reader(ns, x) = i)
        BY <3>1, ReaderIs DEF LeadSet
      <4>2. Reader(ns, x) \in Nat /\ Reader(ns, x) < x
        BY <4>1, ReaderIs
      <4> QED
        BY <2>2, <2>3, <4>1, <4>2
    <3>2. CASE x \notin LeadSet(ns, i)
      <4>1. PICK k \in NextSet(ns, i) : x \in ToSet(read[k])
        BY <2>1, <3>2
      <4>2. k \in D /\ i < k /\ ~ IsWinner(ns, k) /\ Reader(ns, k) = i
        BY NextOnes
      <4>3. x \in D /\ x >= k /\ (x # k => Reader(ns, x) \in ToSet(read[k]))
        BY <1>1, <4>1, <4>2
      <4>4. x >= i
        BY <2>2, <4>2, <4>3
      <4>5. Reader(ns, x) \in ToSet(read[i])
        BY <2>1, <2>3, <4>2, <4>3
      <4> QED
        BY <4>3, <4>4, <4>5
    <3> QED
      BY <3>1, <3>2
  <2> QED
    BY <2>3, <2>4
<1>2. \A i \in D : i \in Good
  <2> HIDE DEF Good
  <2> QED
    BY <1>1, FromTheEnd
<1> QED
  BY <1>2

\* With a node, all is read that is read from it.
LEMMA ReadWithIt ==
  ASSUME NEW ns \in Records, Readable(ns), NEW read, PageMade(ns, read)
  PROVE  \A k \in DOMAIN ns : ~ IsWinner(ns, k) =>
           \A y \in ToSet(read[k]) :
             /\ ~ IsWinner(ns, y) => Stretch(read[y], read[k])
             /\ \A x \in DOMAIN ns : Reader(ns, x) = y => x \in ToSet(read[k])
<1> DEFINE D == DOMAIN ns
           Fine(k, y) == /\ ~ IsWinner(ns, y) => Stretch(read[y], read[k])
                         /\ \A x \in D : Reader(ns, x) = y => x \in ToSet(read[k])
           Good == {k \in D : ~ IsWinner(ns, k) => \A y \in ToSet(read[k]) : Fine(k, y)}
<1>0. \A k \in D : DOMAIN read[k] \subseteq Nat /\ read[k] \in Seq(D)
  BY DEF PageMade
<1>1. ASSUME NEW i \in D, \A k \in D : i < k => k \in Good PROVE i \in Good
  <2> SUFFICES ASSUME ~ IsWinner(ns, i), NEW y \in ToSet(read[i]) PROVE Fine(i, y)
    OBVIOUS
  <2>1. /\ ToSet(read[i]) = LeadSet(ns, i) \cup UNION {ToSet(read[k]) : k \in NextSet(ns, i)}
        /\ \A k \in NextSet(ns, i) : Stretch(read[k], read[i])
    BY ReadIs
  <2>2. CASE y = i
    <3>1. Stretch(read[i], read[i])
      <4>1. \A j \in DOMAIN read[i] : 0 + j = j
        BY <1>0
      <4> QED
        BY <4>1 DEF Stretch
    <3>2. ASSUME NEW x \in D, Reader(ns, x) = i PROVE x \in ToSet(read[i])
      <4>1. x \in NextSet(ns, i) \/ x \in LeadSet(ns, i)
        BY <3>2, ReaderIs DEF NextSet, LeadSet
      <4>2. ASSUME x \in NextSet(ns, i) PROVE x \in ToSet(read[x])
        BY <4>2, NextOnes, ReadFromIt
      <4> QED
        BY <2>1, <4>1, <4>2
    <3> QED
      BY <2>2, <3>1, <3>2
  <2>3. CASE y \in LeadSet(ns, i) /\ y # i
    <3>1. IsWinner(ns, y) /\ y \in D
      BY <2>3 DEF LeadSet, IsWinner
    <3>2. \A x \in D : Reader(ns, x) # y
      <4>1. y # 0
        BY <3>1 DEF Records
      <4> QED
        BY <3>1, <4>1, ReaderIs
    <3> QED
      BY <3>1, <3>2
  <2>4. CASE y \notin LeadSet(ns, i)
    <3>1. PICK k \in NextSet(ns, i) : y \in ToSet(read[k])
      BY <2>1, <2>4
    <3>2. k \in D /\ i < k /\ ~ IsWinner(ns, k)
      BY NextOnes
    <3>3. Fine(k, y)
      BY <1>1, <3>1, <3>2
    <3>4. y \in D
      BY <3>1, <3>2, ReadFromIt
    <3>5. ~ IsWinner(ns, y) => Stretch(read[y], read[i])
      BY <1>0, <2>1, <3>3, <3>4, StretchOfStretch
    <3> QED
      BY <2>1, <3>3, <3>5
  <2> QED
    BY <2>2, <2>3, <2>4
<1>2. \A i \in D : i \in Good
  <2> HIDE DEF Good
  <2> QED
    BY <1>1, FromTheEnd
<1> QED
  BY <1>2

\* What is read from two nodes on that are read from the same one, or from none, is apart.
LEMMA ReadApart ==
  ASSUME NEW ns \in Records, Readable(ns), NEW read, PageMade(ns, read),
         NEW k \in DOMAIN ns, NEW l \in DOMAIN ns, ~ IsWinner(ns, k), ~ IsWinner(ns, l),
         k # l, Reader(ns, k) = Reader(ns, l)
  PROVE  ToSet(read[k]) \cap ToSet(read[l]) = {}
<1> DEFINE S == ToSet(read[k]) \cap ToSet(read[l])
<1> SUFFICES ASSUME S # {} PROVE FALSE
  OBVIOUS
<1>1. \A j \in DOMAIN ns : j \in Nat
  BY DEF Records
<1>2. /\ \A x \in ToSet(read[k]) : /\ x \in DOMAIN ns /\ x >= k
                                   /\ x # k => Reader(ns, x) \in ToSet(read[k])
      /\ \A x \in ToSet(read[l]) : /\ x \in DOMAIN ns /\ x >= l
                                   /\ x # l => Reader(ns, x) \in ToSet(read[l])
  BY ReadFromIt
<1>3. S \in SUBSET Nat
  BY <1>1, <1>2
<1>4. PICK x \in S : \A y \in S : x <= y
  <2> HIDE DEF S
  <2> QED
    BY <1>3, LeastNatural
<1>5. \A j \in DOMAIN ns : Reader(ns, j) \in Nat /\ Reader(ns, j) < j
  BY ReaderIs
<1>6. CASE x = k
  BY <1>1, <1>2, <1>5, <1>6
<1>7. CASE x = l
  BY <1>1, <1>2, <1>5, <1>7
<1>8. CASE x # k /\ x # l
  <2>1. Reader(ns, x) \in S
    BY <1>2, <1>8
  <2>2. x <= Reader(ns, x) /\ x \in DOMAIN ns
    BY <1>2, <1>4, <2>1
  <2> QED
    BY <1>1, <1>5, <2>2
<1> QED
  BY <1>6, <1>7, <1>8

\* Nothing is read twice.
LEMMA ReadOnce ==
  ASSUME NEW ns \in Records, Readable(ns), NEW read, PageMade(ns, read)
  PROVE  \A k \in DOMAIN ns : ~ IsWinner(ns, k) => IsInjective(read[k])
<1> DEFINE D == DOMAIN ns
           Good == {k \in D : ~ IsWinner(ns, k) => IsInjective(read[k])}
<1>1. ASSUME NEW i \in D, \A k \in D : i < k => k \in Good PROVE i \in Good
  <2> SUFFICES ASSUME ~ IsWinner(ns, i) PROVE IsInjective(read[i])
    OBVIOUS
  <2>1. \A k \in NextSet(ns, i) : IsInjective(read[k])
    BY <1>1, NextOnes
  <2>2. ASSUME NEW k \in NextSet(ns, i), NEW x \in LeadSet(ns, i) PROVE x \notin ToSet(read[k])
    <3>1. k \in D /\ i < k /\ ~ IsWinner(ns, k) /\ Reader(ns, k) = i
      BY NextOnes
    <3>2. k \in Nat /\ i \in Nat
      BY <3>1 DEF Records
    <3>3. \A y \in ToSet(read[k]) : y >= k /\ (y # k => Reader(ns, y) \in ToSet(read[k]))
      BY <3>1, ReadFromIt
    <3>4. CASE x = i
      BY <3>1, <3>2, <3>3, <3>4
    <3>5. CASE x # i
      <4>1. IsWinner(ns, x) /\ Reader(ns, x) = i
        BY <3>5, ReaderIs DEF LeadSet, IsWinner
      <4> QED
        BY <3>1, <3>2, <3>3, <4>1
    <3> QED
      BY <3>4, <3>5
  <2>3. \A k, l \in NextSet(ns, i) : k # l => ToSet(read[k]) \cap ToSet(read[l]) = {}
    <3> TAKE k, l \in NextSet(ns, i)
    <3> HAVE k # l
    <3>1. /\ k \in D /\ ~ IsWinner(ns, k) /\ Reader(ns, k) = i
          /\ l \in D /\ ~ IsWinner(ns, l) /\ Reader(ns, l) = i
      BY NextOnes
    <3> QED
      BY <3>1, ReadApart
  <2>4. \A k \in NextSet(ns, i) : LeadSet(ns, i) \cap ToSet(read[k]) = {}
    BY <2>2
  <2> QED
    BY <2>1, <2>3, <2>4, ReadIs
<1>2. \A i \in D : i \in Good
  <2> HIDE DEF Good
  <2> QED
    BY <1>1, FromTheEnd
<1> QED
  BY <1>2

\* A candidate that is nobody's.
Stray(ns, i) == ns[i].kind = "option" /\ ns[Par(ns, i)].kind # "question"

\* A node is astray when its parent is or when it is a stray candidate.
LEMMA AstrayIs ==
  ASSUME NEW ns \in Records, Readable(ns), NEW i \in DOMAIN ns
  PROVE  i \in Astray(ns) <=> Par(ns, i) # 0 /\ (Par(ns, i) \in Astray(ns) \/ Stray(ns, i))
<1> DEFINE D == DOMAIN ns
           V == BOOLEAN
           Step(f, j) == Par(ns, j) # 0 /\ (f[Par(ns, j)] \/ Stray(ns, j))
           G == [j \in D |-> [f \in [D -> V] |-> Step(f, j)]]
           rank == [j \in D |-> j]
           b == Len(ns) + 1
           Lost == CHOOSE f : f = [j \in D |-> Step(f, j)]
<1>1. D = 1..Len(ns) /\ Len(ns) \in Nat
  BY DEF Records
<1>2. \A j \in D : Par(ns, j) # 0 => Par(ns, j) \in D /\ Par(ns, j) < j
  BY Parents
<1>3. /\ rank \in [D -> Nat] /\ b \in Nat
      /\ \A j \in D : rank[j] < b /\ rank[j] = j
  BY <1>1
<1>4. \A j \in D : \A f \in [D -> V] : Step(f, j) \in V
  OBVIOUS
<1>5. \A j \in D : \A f, g \in [D -> V] :
        (\A k \in D : rank[k] < rank[j] => f[k] = g[k]) => Step(f, j) = Step(g, j)
  <2> TAKE j \in D
  <2> TAKE f, g \in [D -> V]
  <2> HAVE \A k \in D : rank[k] < rank[j] => f[k] = g[k]
  <2>1. Par(ns, j) # 0 => f[Par(ns, j)] = g[Par(ns, j)]
    BY <1>2, <1>3
  <2> HIDE DEF rank, V
  <2>2. CASE Par(ns, j) = 0
    BY <2>2
  <2>3. CASE Par(ns, j) # 0
    BY <2>1, <2>3
  <2> QED
    BY <2>2, <2>3
<1>6. \E f : f = [j \in D |-> Step(f, j)]
  <2>1. \A j \in D : \A f \in [D -> V] : G[j][f] = Step(f, j)
    <3> HIDE DEF Step, V
    <3> QED
      OBVIOUS
  <2>2. G \in [D -> [[D -> V] -> V]]
    <3> HIDE DEF Step, V
    <3> QED
      BY <1>4
  <2> HIDE DEF G, Step, V, rank, b
  <2>3. V # {}
    BY DEF V
  <2>4. \A j \in D : \A f, g \in [D -> V] :
          (\A k \in D : rank[k] < rank[j] => f[k] = g[k]) => G[j][f] = G[j][g]
    BY <1>5, <2>1
  <2>5. Founded(D, V, rank, b, G)
    BY <1>3, <2>2, <2>3, <2>4 DEF Founded
  <2>6. PICK h \in [D -> V] : \A j \in D : h[j] = G[j][h]
    BY <2>5, Recursion
  <2>7. h = [j \in D |-> Step(h, j)]
    BY <2>1, <2>6
  <2> QED
    BY <2>7
<1>7. Lost = [j \in D |-> Step(Lost, j)]
  <2> HIDE DEF Step
  <2> QED
    BY <1>6
<1>8. Astray(ns) = {j \in D : Lost[j]}
  BY DEF Astray, Par, Stray
<1> HIDE DEF Lost
<1>9. Lost[i] = Step(Lost, i)
  <2> HIDE DEF Step
  <2> QED
    BY <1>7
<1>10. i \in Astray(ns) <=> Lost[i]
  BY <1>8
<1>11. Par(ns, i) # 0 => (Par(ns, i) \in Astray(ns) <=> Lost[Par(ns, i)])
  BY <1>2, <1>8
<1> QED
  BY <1>9, <1>10, <1>11

\* The page is what is read from the roots on.
LEMMA PageMadeOf ==
  ASSUME NEW ns \in Records, Readable(ns), NEW closed, NEW read, PageMade(ns, read),
         PageOf(ns, closed) = Each(read, Listed(Roots(ns)))
  PROVE  /\ PageOf(ns, closed) \in Seq(DOMAIN ns)
         /\ ToSet(PageOf(ns, closed)) = UNION {ToSet(read[r]) : r \in Roots(ns)}
         /\ \A r \in Roots(ns) : Stretch(read[r], PageOf(ns, closed))
         /\ IsInjective(PageOf(ns, closed))
<1> DEFINE D == DOMAIN ns
           list == Listed(Roots(ns))
<1>1. Roots(ns) \in SUBSET D
  BY DEF Roots, Kids
<1>2. list \in Seq(D) /\ IsInjective(list) /\ ToSet(list) = Roots(ns)
  BY <1>1, ListedLists DEF Lists
<1>3. \A r \in Roots(ns) : r \in D /\ Reader(ns, r) = 0 /\ ~ IsWinner(ns, r)
  BY <1>1, ReaderIs
<1>4. \A k \in ToSet(list) : read[k] \in Seq(D)
  BY <1>2, <1>1 DEF PageMade
<1> HIDE DEF list
<1>5. \A k \in ToSet(list) : IsInjective(read[k])
  BY <1>2, <1>3, ReadOnce
<1>6. \A k, l \in ToSet(list) : k # l => ToSet(read[k]) \cap ToSet(read[l]) = {}
  BY <1>2, <1>3, ReadApart
<1>7. PageOf(ns, closed) = Each(read, list)
  BY DEF list
<1>8. /\ Each(read, list) \in Seq(D)
      /\ ToSet(Each(read, list)) = UNION {ToSet(read[k]) : k \in ToSet(list)}
  BY <1>2, <1>4, EachOf
<1>9. \A k \in ToSet(list) : Stretch(read[k], Each(read, list))
  BY <1>2, <1>4, EachOf
<1>10. IsInjective(Each(read, list))
  BY <1>2, <1>4, <1>5, <1>6, EachOf
<1> QED
  BY <1>2, <1>7, <1>8, <1>9, <1>10

\* Every node that is not astray is on the page, once.
LEMMA PageHoldsAll ==
  ASSUME NEW ns \in Records, Readable(ns), NEW closed
  PROVE  EachNodeOnce(ns, closed)
<1> DEFINE D == DOMAIN ns
           page == PageOf(ns, closed)
<1>1. PICK read \in [D -> Seq(D)] :
        /\ \A i \in D : read[i] = (Leads(ns, i) \o Each(read, Shown(ns, i)))
                                  \o Each(read, GoesOn(ns, i))
        /\ page = Each(read, Listed(Roots(ns)))
  BY PageIs
<1>2. PageMade(ns, read)
  BY <1>1 DEF PageMade
<1>3. /\ page \in Seq(D) /\ ToSet(page) = UNION {ToSet(read[r]) : r \in Roots(ns)}
      /\ IsInjective(page)
  BY <1>1, <1>2, PageMadeOf
<1> HIDE DEF page
<1>4. /\ Roots(ns) \subseteq D /\ 0 \notin D
      /\ \A r \in Roots(ns) : Par(ns, r) = 0 /\ ~ IsWinner(ns, r)
  BY Parents, ReaderIs DEF Roots, Kids, Records
<1>5. /\ \A j \in D : Par(ns, j) # 0 => Par(ns, j) \in D /\ Par(ns, j) < j
      /\ \A j \in D : Par(ns, j) = 0 => j \in Roots(ns)
  BY Parents
\* Whatever is read from a node is astray as it is, and a node read from none is a root or astray.
<1>6. ASSUME NEW x \in D, Reader(ns, x) # 0
      PROVE  x \in Astray(ns) <=> Reader(ns, x) \in Astray(ns)
  <2> DEFINE p == Par(ns, x)
  <2>1. p # 0 /\ p \in D /\ ~ Stray(ns, x) /\ Reader(ns, x) \in {p, Par(ns, p)}
    BY <1>5, <1>6 DEF Reader, Stray
  <2>2. x \in Astray(ns) <=> p \in Astray(ns)
    BY <2>1, AstrayIs
  <2>3. CASE Reader(ns, x) # p
    <3>1. Reader(ns, x) = Par(ns, p) /\ Par(ns, p) # 0 /\ ns[Par(ns, p)].kind = "question"
      BY <1>6, <2>3 DEF Reader
    <3>2. p \in Astray(ns) <=> Par(ns, p) \in Astray(ns)
      BY <2>1, <3>1, AstrayIs DEF Stray
    <3> QED
      BY <2>2, <3>1, <3>2
  <2> QED
    BY <2>2, <2>3
<1>7. ASSUME NEW x \in D, Reader(ns, x) = 0, x \notin Roots(ns)
      PROVE  x \in Astray(ns)
  <2>1. Par(ns, x) # 0 /\ Par(ns, x) \in D
    BY <1>5, <1>7
  <2>2. Stray(ns, x)
    BY <1>4, <1>7, <2>1 DEF Reader, Stray
  <2> QED
    BY <2>1, <2>2, AstrayIs
<1>8. \A x \in D : Reader(ns, x) # 0 => Reader(ns, x) \in D /\ Reader(ns, x) < x
                                        /\ ~ IsWinner(ns, Reader(ns, x))
  BY ReaderIs
<1>9. \A r \in Roots(ns) :
        /\ r \in ToSet(read[r])
        /\ \A x \in ToSet(read[r]) : x \in D /\ (x # r => Reader(ns, x) \in ToSet(read[r]))
        /\ \A y \in ToSet(read[r]) : \A x \in D : Reader(ns, x) = y => x \in ToSet(read[r])
  BY <1>2, <1>4, ReadFromIt, ReadWithIt
<1>10. \A r \in Roots(ns) : r \notin Astray(ns)
  BY <1>4, AstrayIs
<1> DEFINE Good == {x \in D : x \in ToSet(page) <=> x \notin Astray(ns)}
<1>11. ASSUME NEW x \in D, \A k \in D : k < x => k \in Good PROVE x \in Good
  <2>1. CASE x \in Roots(ns)
    BY <1>3, <1>9, <1>10, <2>1
  <2>2. CASE x \notin Roots(ns) /\ Reader(ns, x) = 0
    <3>1. x \notin ToSet(page)
      <4> SUFFICES ASSUME NEW r \in Roots(ns), x \in ToSet(read[r]) PROVE FALSE
        BY <1>3
      <4> QED
        BY <1>4, <1>9, <2>2
    <3> QED
      BY <1>7, <2>2, <3>1
  <2>3. CASE x \notin Roots(ns) /\ Reader(ns, x) # 0
    <3>1. Reader(ns, x) \in Good /\ Reader(ns, x) \in D
      BY <1>8, <1>11, <2>3
    <3>2. ASSUME NEW r \in Roots(ns)
          PROVE  x \in ToSet(read[r]) <=> Reader(ns, x) \in ToSet(read[r])
      BY <1>9, <2>3
    <3>3. x \in ToSet(page) <=> Reader(ns, x) \in ToSet(page)
      BY <1>3, <3>2
    <3> QED
      BY <1>6, <2>3, <3>1, <3>3
  <2> QED
    BY <2>1, <2>2, <2>3
<1>12. \A x \in D : x \in Good
  <2> HIDE DEF Good
  <2> QED
    BY <1>11, FromTheStart
<1>13. ToSet(page) \subseteq D
  BY <1>3 DEF ToSet
<1>14. ToSet(page) = D \ Astray(ns)
  BY <1>12, <1>13
<1> QED
  BY <1>3, <1>14 DEF EachNodeOnce, page

\* The map's edges.
LEMMA ReparentedIs ==
  ASSUME NEW ns \in Records, Readable(ns), NEW x \in DOMAIN ns
  PROVE  LET map == Reparented(ns)
             p == Par(ns, x)
             moved == p # 0 /\ ns[p].kind = "question" /\ Winner(ns, p) # 0 /\ ns[x].kind # "option"
         IN /\ DOMAIN map = DOMAIN ns /\ map \in Records
            /\ map[x].id = ns[x].id /\ map[x].kind = ns[x].kind
            /\ moved => map[x].parent = ns[Winner(ns, p)].id
            /\ ~ moved => map[x] = ns[x]
<1> DEFINE D == DOMAIN ns
           map == Reparented(ns)
           Q(i) == {j \in 1..Len(ns) : ns[j].id = ns[i].parent /\ ns[j].kind = "question"
                                       /\ ns[j].chosen # NoNode}
           At(i) == SelectInSeq(ns, LAMBDA n : n.id = ns[i].parent /\ n.kind = "question"
                                               /\ n.chosen /= NoNode)
           moved == Par(ns, x) # 0 /\ ns[Par(ns, x)].kind = "question"
                    /\ Winner(ns, Par(ns, x)) # 0 /\ ns[x].kind # "option"
<1>1. D = 1..Len(ns) /\ Len(ns) \in Nat /\ \A j \in D : ns[j] \in Node /\ j # 0
  BY DEF Records
<1>2. \A j \in D : /\ Par(ns, j) # 0 => Par(ns, j) \in D /\ ns[Par(ns, j)].id = ns[j].parent
                   /\ \A i \in D : ns[i].id = ns[j].parent => Par(ns, j) = i
  <2> TAKE j \in D
  <2>1. \A i \in D : ns[i].id = ns[j].parent => Par(ns, j) = i
    BY PlaceOfId DEF Readable, Par
  <2> QED
    BY <2>1, Parents
<1>3. \A q \in D : (ns[q].kind = "question" /\ ns[q].chosen # NoNode) <=> Winner(ns, q) # 0
  BY <1>1, Winners
<1>4. ASSUME NEW i \in D
      PROVE  IF Par(ns, i) # 0 /\ Winner(ns, Par(ns, i)) # 0 THEN At(i) = Par(ns, i) ELSE At(i) = 0
  <2>1. At(i) = IF Q(i) # {} THEN Min(Q(i)) ELSE 0
    BY DEF SelectInSeq
  <2>2. \A j \in Q(i) : j \in D /\ Par(ns, i) = j /\ Winner(ns, j) # 0
    BY <1>1, <1>2, <1>3
  <2>3. Par(ns, i) # 0 /\ Winner(ns, Par(ns, i)) # 0 => Par(ns, i) \in Q(i)
    BY <1>1, <1>2, <1>3
  <2>4. Q(i) \in SUBSET Nat
    BY <1>1
  <2> HIDE DEF Q
  <2>5. Q(i) # {} => Min(Q(i)) \in Q(i)
    BY <2>4, MinIs
  <2> QED
    BY <1>1, <2>1, <2>2, <2>3, <2>5
<1>5. map = [i \in D |-> IF At(i) # 0 /\ ns[i].kind # "option" /\ ns[i].id # ns[At(i)].chosen
                         THEN [ns[i] EXCEPT !.parent = ns[At(i)].chosen] ELSE ns[i]]
  BY DEF Reparented
<1> HIDE DEF At, map
<1>6. \A q \in D : Winner(ns, q) # 0 =>
        /\ ns[q].chosen = ns[Winner(ns, q)].id /\ Winner(ns, q) \in D
        /\ ns[Winner(ns, q)].kind = "option"
  BY <1>3, Winners
<1>7. \A i \in D : map[i] \in Node /\ map[i].id = ns[i].id /\ map[i].kind = ns[i].kind
  <2> TAKE i \in D
  <2>1. ns[i] \in Node
    BY <1>1
  <2>2. \/ map[i] = ns[i]
        \/ \E q \in D : map[i] = [ns[i] EXCEPT !.parent = ns[q].chosen]
    BY <1>2, <1>4, <1>5
  <2>3. \A q \in D : ns[q].chosen \in NodeIds \cup {NoNode}
    BY <1>1 DEF Node
  <2> QED
    BY <2>1, <2>2, <2>3 DEF Node
<1>8. DOMAIN map = D /\ map \in Records
  <2>1. map = [i \in D |-> map[i]]
    BY <1>5
  <2>2. map \in [1..Len(ns) -> Node]
    BY <1>1, <1>7, <2>1
  <2> QED
    BY <1>1, <2>2 DEF Records
<1>9. ASSUME moved PROVE map[x].parent = ns[Winner(ns, Par(ns, x))].id
  <2> DEFINE q == Par(ns, x)
  <2>1. At(x) = q /\ q \in D /\ q # 0 /\ Winner(ns, q) # 0
    BY <1>2, <1>4, <1>9
  <2>2. ns[q].chosen = ns[Winner(ns, q)].id /\ Winner(ns, q) \in D
        /\ ns[Winner(ns, q)].kind = "option"
    BY <1>6, <2>1
  <2>3. ns[x].id # ns[q].chosen
    BY <1>9, <2>2 DEF Readable, UniqueIds
  <2> HIDE DEF q
  <2>4. map[x] = [ns[x] EXCEPT !.parent = ns[q].chosen]
    BY <1>5, <1>9, <2>1, <2>3
  <2>5. ns[x] \in Node
    BY <1>1
  <2>6. map[x].parent = ns[q].chosen
    BY <2>4, <2>5 DEF Node
  <2> QED
    BY <2>2, <2>6 DEF q
<1>10. ASSUME ~ moved PROVE map[x] = ns[x]
  <2>1. At(x) = 0 \/ ns[x].kind = "option"
    BY <1>2, <1>3, <1>4, <1>10
  <2> QED
    BY <1>5, <2>1
<1> QED
  BY <1>7, <1>8, <1>9, <1>10 DEF map

\* On the page a node comes after what the map hangs it off.
LEMMA PageInOrder ==
  ASSUME NEW ns \in Records, Readable(ns), NEW closed
  PROVE  ReadAfterItsParent(ns, closed)
<1> DEFINE D == DOMAIN ns
           page == PageOf(ns, closed)
           map == Reparented(ns)
<1>1. PICK read \in [D -> Seq(D)] :
        /\ \A i \in D : read[i] = (Leads(ns, i) \o Each(read, Shown(ns, i)))
                                  \o Each(read, GoesOn(ns, i))
        /\ page = Each(read, Listed(Roots(ns)))
  BY PageIs
<1>2. PageMade(ns, read)
  BY <1>1 DEF PageMade
<1>3. /\ page \in Seq(D) /\ ToSet(page) = UNION {ToSet(read[r]) : r \in Roots(ns)}
      /\ IsInjective(page) /\ \A r \in Roots(ns) : Stretch(read[r], page)
  BY <1>1, <1>2, PageMadeOf
<1> SUFFICES ASSUME NEW j \in DOMAIN page, NEW k \in DOMAIN page,
                    map[page[k]].parent = ns[page[j]].id
             PROVE  j < k
  BY DEF ReadAfterItsParent
<1> DEFINE x == page[k]
           y == page[j]
           z == Reader(ns, x)
           p == Par(ns, x)
<1>4. x \in ToSet(page) /\ y \in ToSet(page) /\ x \in D /\ y \in D
  BY <1>3 DEF ToSet
<1>5. map[x].parent = ns[y].id
  OBVIOUS
<1> HIDE DEF page, map
<1>6. /\ \A i \in D : ns[i].id # NoNode /\ ns[i].id \in NodeIds /\ i \in Nat /\ i # 0
      /\ \A i, l \in D : ns[i].id = ns[l].id => i = l
  BY RecordNode, NoNodeAssumption DEF Readable, UniqueIds, Records
<1>7. /\ p = 0 => ns[x].parent = NoNode
      /\ p # 0 => p \in D /\ ns[p].id = ns[x].parent
      /\ ns[x].parent = NoNode => p = 0
  BY <1>4, Parents
<1> DEFINE moved == p # 0 /\ ns[p].kind = "question" /\ Winner(ns, p) # 0 /\ ns[x].kind # "option"
<1>8. /\ moved => map[x].parent = ns[Winner(ns, p)].id
      /\ ~ moved => map[x] = ns[x]
  BY <1>4, ReparentedIs DEF map
<1>9. p # 0 /\ p \in D
  BY <1>4, <1>5, <1>6, <1>7, <1>8
<1>10. IF moved THEN y = Winner(ns, p) ELSE y = p
  <2>1. CASE moved
    <3>1. Winner(ns, p) \in D
      BY <1>9, <2>1, WinnerIs
    <3> QED
      BY <1>4, <1>5, <1>6, <1>8, <2>1, <3>1
  <2>2. CASE ~ moved
    BY <1>4, <1>5, <1>6, <1>7, <1>8, <1>9, <2>2
  <2> QED
    BY <2>1, <2>2
<1>11. PICK r \in Roots(ns) : x \in ToSet(read[r])
  BY <1>3, <1>4
<1>12. r \in D /\ ~ IsWinner(ns, r) /\ Par(ns, r) = 0
  <2>1. r \in D
    BY DEF Roots, Kids
  <2> QED
    BY <2>1, Parents, ReaderIs
<1>13. x # r
  BY <1>9, <1>12
<1>14. z \in ToSet(read[r])
  BY <1>2, <1>11, <1>12, <1>13, ReadFromIt
<1>15. z \in D /\ z # 0 /\ ~ IsWinner(ns, z)
  <2>1. z \in D
    BY <1>2, <1>12, <1>14, ReadFromIt
  <2> QED
    BY <1>4, <1>6, <2>1, ReaderIs
<1>16. y \in LeadSet(ns, z)
  <2>1. ~ (ns[x].kind = "option" /\ ns[p].kind # "question")
    BY <1>15 DEF Reader
  <2>2. CASE z = p
    <3>1. \A w \in D : moved /\ w = Winner(ns, p) => w \in LeadSet(ns, z)
      BY <2>2 DEF LeadSet
    <3>2. p \in LeadSet(ns, z)
      BY <1>9, <2>2 DEF LeadSet
    <3> QED
      BY <1>4, <1>10, <3>1, <3>2
  <2>3. CASE z # p
    <3>1. z = Par(ns, p) /\ ns[z].kind = "question" /\ Winner(ns, z) = p
      BY <1>15, <2>3 DEF Reader
    <3>2. ns[p].kind = "option"
      BY <1>9, <1>15, <3>1, WinnerIs
    <3>3. ~ moved
      BY <3>2
    <3> QED
      BY <1>4, <1>10, <3>1, <3>3 DEF LeadSet
  <2> QED
    BY <2>2, <2>3
<1>17. x # y
  <2>1. p < x
    BY <1>4, <1>9, Parents
  <2>2. CASE moved
    <3>1. ns[Winner(ns, p)].kind = "option"
      BY <1>9, <2>2, WinnerIs
    <3> QED
      BY <1>10, <2>2, <3>1
  <2>3. CASE ~ moved
    BY <1>4, <1>6, <1>10, <2>1, <2>3
  <2> QED
    BY <2>2, <2>3
<1>18. Comes(read[z], y, x)
  <2>1. CASE x \in NextSet(ns, z)
    <3>1. x \in ToSet(read[x])
      BY <1>2, <1>15, <2>1, NextOnes, ReadFromIt
    <3> HIDE DEF x, y, z
    <3> QED
      BY <1>2, <1>15, <1>16, <2>1, <3>1, ReadIs
  <2>2. CASE x \notin NextSet(ns, z)
    <3>1. ns[z].kind = "question" /\ Winner(ns, z) = x
      BY <1>4, <1>15, <2>2, ReaderIs DEF NextSet
    <3>2. x \in LeadSet(ns, z) /\ y = z
      BY <1>4, <1>16, <1>17, <3>1 DEF LeadSet
    <3> HIDE DEF x, y, z
    <3> QED
      BY <1>2, <1>15, <1>17, <3>2, ReadIs
  <2> QED
    BY <2>1, <2>2
<1>19. PICK m, n \in DOMAIN read[z] : m < n /\ read[z][m] = y /\ read[z][n] = x
  BY <1>18 DEF Comes
<1>20. Stretch(read[z], page)
  <2>1. Stretch(read[z], read[r]) /\ Stretch(read[r], page)
    BY <1>2, <1>3, <1>12, <1>14, <1>15, ReadWithIt
  <2>2. DOMAIN read[z] \subseteq Nat
    <3>1. read[z] \in Seq(D)
      BY <1>1, <1>15
    <3> QED
      BY <3>1
  <2> QED
    BY <2>1, <2>2, StretchOfStretch
<1>21. PICK d \in Nat : \A i \in DOMAIN read[z] : d + i \in DOMAIN page /\ page[d + i] = read[z][i]
  BY <1>20 DEF Stretch
<1>22. d + m = j /\ d + n = k
  BY <1>3, <1>19, <1>21 DEF IsInjective
<1>23. m \in Nat /\ n \in Nat
  <2>1. read[z] \in Seq(D)
    BY <1>15
  <2> QED
    BY <2>1
<1> QED
  BY <1>19, <1>22, <1>23

-----------------------------------------------------------------------------
(***************************************************************************)
(* The agent's text.                                                       *)
(***************************************************************************)
\* The nodes that one row names, and that rows name.
Names(r) == {r.node} \cup ToSet(r.options) \cup ToSet(r.rejected)
NamesAll(rows) == UNION {Names(r) : r \in ToSet(rows)}

\* The rows of a node name it, its winner, and its candidates.
LEMMA RowsName ==
  ASSUME NEW ns \in Records, Readable(ns), NEW closed, NEW i \in DOMAIN ns
  PROVE  /\ RowsOf(ns, closed, i) \in Seq(ToSet(RowsOf(ns, closed, i)))
         /\ NamesAll(RowsOf(ns, closed, i)) = LeadSet(ns, i) \cup ShownSet(ns, i)
<1> DEFINE D == DOMAIN ns
           w == Winner(ns, i)
           kids == Kids(ns, ns[i].id)
           state == QuestionState(ns, i, closed)
           inline == IF state = "waiting" THEN Candidates(ns, kids) ELSE << >>
           losers == IF state = "waiting" THEN << >> ELSE Candidates(ns, kids \ {w})
           first == [node |-> i, row |-> "question", state |-> state,
                     locked |-> IsLocked(ns, ns[i]),
                     options |-> inline, rejected |-> IF w = 0 THEN losers ELSE << >>]
           second == [NoteRow(w) EXCEPT !.row = "chosen", !.rejected = losers]
           rows == RowsOf(ns, closed, i)
<1>1. 0 \notin D /\ kids \subseteq D /\ (w = 0 \/ w \in D)
  BY PlaceOfId DEF Records, Kids, Readable, Winner
<1>2. ToSet(<< >>) = {}
  BY DEF ToSet
<1>3. ToSet(Shown(ns, i)) = ShownSet(ns, i)
  BY TailsList DEF Lists
<1>4. \A u, v : ToSet(<<u>>) = {u} /\ ToSet(<<u, v>>) = {u, v}
  BY DEF ToSet
<1>5. CASE ns[i].kind # "question"
  <2>1. rows = <<NoteRow(i)>>
    BY <1>5 DEF RowsOf
  <2>2. Names(NoteRow(i)) = {i}
    BY <1>2 DEF Names, NoteRow
  <2>3. LeadSet(ns, i) = {i} /\ ShownSet(ns, i) = {}
    BY <1>5 DEF LeadSet, ShownSet
  <2> HIDE DEF rows
  <2> QED
    BY <1>4, <2>1, <2>2, <2>3 DEF NamesAll, rows
<1>6. CASE ns[i].kind = "question"
  <2>0. Shown(ns, i) = Candidates(ns, kids \ {w})
    BY <1>6 DEF Shown
  <2>1. CASE w = 0
    <3>1. rows = <<first>>
      BY <1>6, <2>1 DEF RowsOf
    <3>2. kids \ {w} = kids
      BY <1>1, <2>1
    <3>3. \/ inline = Shown(ns, i) /\ losers = << >>
          \/ inline = << >> /\ losers = Shown(ns, i)
      BY <2>0, <3>2
    <3>4. first.node = i /\ first.options = inline /\ first.rejected = losers
      BY <2>1
    <3>5. Names(first) = {i} \cup ShownSet(ns, i)
      <4> HIDE DEF first, inline, losers
      <4> QED
        BY <1>2, <1>3, <3>3, <3>4 DEF Names
    <3>6. LeadSet(ns, i) = {i}
      BY <1>1, <2>1 DEF LeadSet
    <3> HIDE DEF rows, first
    <3> QED
      BY <1>4, <3>1, <3>5, <3>6 DEF NamesAll, rows
  <2>2. CASE w # 0
    <3>1. rows = <<first, second>>
      BY <1>6, <2>2 DEF RowsOf
    <3>2. ns[i].chosen # NoNode
      BY <2>2, Winners
    <3>3. state = "answered"
      BY <3>2 DEF QuestionState
    <3>4. inline = << >> /\ losers = Shown(ns, i)
      BY <2>0, <3>3
    <3>5. first.node = i /\ first.options = inline /\ first.rejected = << >>
      BY <2>2
    <3>6. second.node = w /\ second.options = << >> /\ second.rejected = losers
      BY DEF NoteRow
    <3>7. LeadSet(ns, i) = {i, w}
      BY <1>1, <1>6, <2>2 DEF LeadSet
    <3> HIDE DEF rows, first, second, inline, losers
    <3>8. Names(first) = {i} /\ Names(second) = {w} \cup ShownSet(ns, i)
      BY <1>2, <1>3, <3>4, <3>5, <3>6 DEF Names
    <3> HIDE DEF w
    <3> QED
      BY <1>4, <3>1, <3>7, <3>8 DEF NamesAll, rows
  <2> QED
    BY <2>1, <2>2
<1> QED
  BY <1>5, <1>6

\* What the walk makes of the nodes is a function.
LEMMA WalkIs ==
  ASSUME NEW ns \in Records, Readable(ns), NEW closed
  PROVE  \E S : \E walk \in [DOMAIN ns -> Seq(S)] :
           /\ \A i \in DOMAIN ns : walk[i] = RowsOf(ns, closed, i) \o Each(walk, GoesOn(ns, i))
                                   /\ RowsOf(ns, closed, i) \in Seq(S)
           /\ SpineFor(ns, closed) = Each(walk, Listed(Roots(ns)))
<1> DEFINE D == DOMAIN ns
           S == UNION {ToSet(RowsOf(ns, closed, i)) : i \in D}
           V == Seq(S)
           After(i) == ToSet(GoesOn(ns, i))
           Shape(walk, i) == RowsOf(ns, closed, i) \o Each(walk, GoesOn(ns, i))
           G == [i \in D |-> [f \in [D -> V] |-> Shape(f, i)]]
           rank == [i \in D |-> Len(ns) - i]
           b == Len(ns) + 1
           Walk == CHOOSE f : f = [i \in D |-> Shape(f, i)]
<1>1. \A i \in D : i \in Nat /\ i <= Len(ns) /\ i >= 1
  BY Parents
<1>2. Len(ns) \in Nat
  BY DEF Records
<1>3. \A i \in D : After(i) \subseteq {k \in D : i < k}
  BY TailsList, TailsLater DEF Lists
<1>4. rank \in [D -> Nat] /\ b \in Nat /\ \A i \in D : rank[i] < b
  BY <1>1, <1>2
<1>5. \A i \in D : \A k \in D : i < k <=> rank[k] < rank[i]
  BY <1>1, <1>2
<1>6. \A i \in D : GoesOn(ns, i) \in Seq(D) /\ RowsOf(ns, closed, i) \in V
  <2> TAKE i \in D
  <2>1. RowsOf(ns, closed, i) \in Seq(ToSet(RowsOf(ns, closed, i)))
        /\ ToSet(RowsOf(ns, closed, i)) \subseteq S
    BY RowsName
  <2> HIDE DEF S
  <2>2. RowsOf(ns, closed, i) \in V
    <3> DEFINE q == RowsOf(ns, closed, i)
               T == ToSet(RowsOf(ns, closed, i))
    <3>1. q \in Seq(T) /\ T \subseteq S
      BY <2>1
    <3> HIDE DEF q, T
    <3>2. q \in Seq(S)
      BY <3>1
    <3> QED
      BY <3>2 DEF q
  <2> QED
    BY <2>2, TailsList DEF Lists
<1> HIDE DEF S
<1>7. ASSUME NEW i \in D, NEW f, \A k \in After(i) : f[k] \in V
      PROVE  Shape(f, i) \in V
  <2>1. Each(f, GoesOn(ns, i)) \in Seq(S)
    BY <1>6, <1>7, EachOf
  <2> DEFINE x == RowsOf(ns, closed, i)
             y == Each(f, GoesOn(ns, i))
  <2>2. x \in Seq(S) /\ y \in Seq(S)
    BY <1>6, <2>1
  <2> HIDE DEF x, y
  <2>3. x \o y \in Seq(S)
    BY <2>2
  <2> QED
    BY <2>3 DEF x, y
<1> HIDE DEF b
<1>8. G \in [D -> [[D -> V] -> V]]
  <2>1. \A i \in D : \A f \in [D -> V] : Shape(f, i) \in V
    <3> TAKE i \in D
    <3> TAKE f \in [D -> V]
    <3>1. \A k \in After(i) : f[k] \in V
      BY <1>3
    <3> QED
      BY <1>7, <3>1
  <2> HIDE DEF Shape, V
  <2> QED
    BY <2>1
<1>9. \A i \in D : \A f, g \in [D -> V] :
        (\A k \in D : rank[k] < rank[i] => f[k] = g[k]) => Shape(f, i) = Shape(g, i)
  <2> TAKE i \in D
  <2> TAKE f, g \in [D -> V]
  <2> HAVE \A k \in D : rank[k] < rank[i] => f[k] = g[k]
  <2>1. \A k \in After(i) : f[k] = g[k]
    BY <1>3, <1>5
  <2>2. Each(f, GoesOn(ns, i)) = Each(g, GoesOn(ns, i))
    BY <2>1, EachSame
  <2> QED
    BY <2>2
<1>10. \E h : h = [i \in D |-> Shape(h, i)]
  <2>1. \A i \in D : \A f \in [D -> V] : G[i][f] = Shape(f, i)
    <3> HIDE DEF Shape, V
    <3> QED
      OBVIOUS
  <2>2. << >> \in V
    OBVIOUS
  <2> HIDE DEF G, V, Shape, rank
  <2>3. \A i \in D : \A f, g \in [D -> V] :
          (\A k \in D : rank[k] < rank[i] => f[k] = g[k]) => G[i][f] = G[i][g]
    BY <1>9, <2>1
  <2>4. Founded(D, V, rank, b, G)
    BY <1>4, <1>8, <2>2, <2>3 DEF Founded
  <2>5. PICK h \in [D -> V] : \A i \in D : h[i] = G[i][h]
    BY <2>4, Recursion
  <2>6. h = [i \in D |-> Shape(h, i)]
    BY <2>1, <2>5
  <2> QED
    BY <2>6
<1>11. Walk = [i \in D |-> Shape(Walk, i)]
  <2> HIDE DEF Shape
  <2> QED
    BY <1>10
<1>12. SpineFor(ns, closed) = Each(Walk, Listed(Roots(ns)))
  BY DEF SpineFor
<1> HIDE DEF Walk
<1>13. \A i \in D : Walk[i] = Shape(Walk, i)
  <2> HIDE DEF Shape
  <2> QED
    BY <1>11
<1>14. \A i \in D : Walk[i] \in V
  <2> DEFINE Good == {i \in D : Walk[i] \in V}
  <2>1. ASSUME NEW i \in D, \A k \in D : i < k => k \in Good PROVE i \in Good
    <3>1. \A k \in After(i) : Walk[k] \in V
      BY <1>3, <2>1
    <3> HIDE DEF Shape, V
    <3> QED
      BY <1>7, <1>13, <3>1
  <2>2. \A i \in D : i \in Good
    <3> HIDE DEF Good
    <3> QED
      BY <2>1, FromTheEnd
  <2> QED
    BY <2>2
<1>15. Walk \in [D -> V]
  <2> HIDE DEF V, Shape
  <2>1. Walk = [i \in D |-> Walk[i]]
    BY <1>11, <1>13
  <2> QED
    BY <1>14, <2>1
<1> WITNESS S
<1> WITNESS Walk \in [D -> Seq(S)]
<1> QED
  BY <1>6, <1>12, <1>13

\* A candidate that lost has nothing under it.
LEMMA LosersStandAlone ==
  ASSUME NEW ns \in Records, Readable(ns), OnlyWinnersGrow(ns), NEW i \in DOMAIN ns,
         NEW k \in ShownSet(ns, i)
  PROVE  LeadSet(ns, k) = {k} /\ NextSet(ns, k) = {}
<1>1. k \in DOMAIN ns /\ ns[k].kind = "option" /\ Par(ns, k) = i /\ ns[i].kind = "question"
      /\ k # Winner(ns, i) /\ i # 0 /\ k # 0
  BY DEF ShownSet, Records
<1>2. ns[k].parent = ns[i].id
  BY <1>1, Parents
<1>3. LeadSet(ns, k) = {k} /\ ShownSet(ns, k) = {}
  BY <1>1 DEF LeadSet, ShownSet
<1>4. ASSUME NEW c \in GoesOnSet(ns, k) PROVE FALSE
  <2>1. c \in DOMAIN ns /\ Par(ns, c) = k
    BY <1>1 DEF GoesOnSet
  <2>2. ns[c].parent = ns[k].id
    BY <1>1, <2>1, Parents
  <2>3. ns[i].chosen = ns[k].id
    BY <1>1, <1>2, <2>1, <2>2 DEF OnlyWinnersGrow
  <2>4. Winner(ns, i) = k
    BY <1>1, <2>3, PlaceOfId DEF Readable, Winner
  <2> QED
    BY <1>1, <2>4
<1> QED
  BY <1>3, <1>4 DEF NextSet

\* Rows put together name what either does,
LEMMA NamesOfTwo ==
  ASSUME NEW S, NEW a \in Seq(S), NEW b \in Seq(S)
  PROVE  NamesAll(a \o b) = NamesAll(a) \cup NamesAll(b)
<1>1. ToSet(a \o b) = ToSet(a) \cup ToSet(b)
  BY Joined DEF IsJoin
<1> QED
  BY <1>1 DEF NamesAll

\* and so do the rows of a list.
LEMMA NamesOfEach ==
  ASSUME NEW S, NEW T, NEW list \in Seq(T), NEW walk, \A k \in ToSet(list) : walk[k] \in Seq(S)
  PROVE  NamesAll(Each(walk, list)) = UNION {NamesAll(walk[k]) : k \in ToSet(list)}
<1>1. ToSet(Each(walk, list)) = UNION {ToSet(walk[k]) : k \in ToSet(list)}
  BY EachOf
<1> QED
  BY <1>1 DEF NamesAll

\* As long as only winners grow, the agent is told of all that is on the page.
LEMMA AgentToldAll ==
  ASSUME NEW ns \in Records, Readable(ns), NEW closed
  PROVE  AgentIsTold(ns, closed)
<1> SUFFICES ASSUME OnlyWinnersGrow(ns)
             PROVE  NodesTold(SpineFor(ns, closed)) = ToSet(PageOf(ns, closed))
  BY DEF AgentIsTold
<1> DEFINE D == DOMAIN ns
<1>1. PICK read \in [D -> Seq(D)] :
        /\ \A i \in D : read[i] = (Leads(ns, i) \o Each(read, Shown(ns, i)))
                                  \o Each(read, GoesOn(ns, i))
        /\ PageOf(ns, closed) = Each(read, Listed(Roots(ns)))
  BY PageIs
<1>2. PageMade(ns, read)
  BY <1>1 DEF PageMade
<1>3. ToSet(PageOf(ns, closed)) = UNION {ToSet(read[r]) : r \in Roots(ns)}
  BY <1>1, <1>2, PageMadeOf
<1>4. PICK S : \E walk \in [D -> Seq(S)] :
        /\ \A i \in D : walk[i] = RowsOf(ns, closed, i) \o Each(walk, GoesOn(ns, i))
                        /\ RowsOf(ns, closed, i) \in Seq(S)
        /\ SpineFor(ns, closed) = Each(walk, Listed(Roots(ns)))
  BY WalkIs
<1>5. PICK walk \in [D -> Seq(S)] :
        /\ \A i \in D : walk[i] = RowsOf(ns, closed, i) \o Each(walk, GoesOn(ns, i))
                        /\ RowsOf(ns, closed, i) \in Seq(S)
        /\ SpineFor(ns, closed) = Each(walk, Listed(Roots(ns)))
  BY <1>4
<1> DEFINE Good == {i \in D : NamesAll(walk[i]) = ToSet(read[i])}
<1>6. ASSUME NEW i \in D, \A k \in D : i < k => k \in Good PROVE i \in Good
  <2>1. ToSet(GoesOn(ns, i)) = GoesOnSet(ns, i) /\ GoesOn(ns, i) \in Seq(D)
    BY TailsList DEF Lists
  <2>2. \A k \in ToSet(GoesOn(ns, i)) : walk[k] \in Seq(S)
    BY <2>1 DEF GoesOnSet
  <2>3. NamesAll(Each(walk, GoesOn(ns, i))) = UNION {NamesAll(walk[k]) : k \in GoesOnSet(ns, i)}
    BY <2>1, <2>2, NamesOfEach
  <2>4. NamesAll(RowsOf(ns, closed, i)) = LeadSet(ns, i) \cup ShownSet(ns, i)
    BY RowsName
  <2>5. NamesAll(walk[i]) = NamesAll(RowsOf(ns, closed, i)) \cup NamesAll(Each(walk, GoesOn(ns, i)))
    <3> DEFINE u == RowsOf(ns, closed, i)
               v == Each(walk, GoesOn(ns, i))
    <3>1. u \in Seq(S) /\ v \in Seq(S) /\ walk[i] = u \o v
      BY <1>5, <2>1, <2>2, EachOf
    <3> HIDE DEF u, v
    <3>2. NamesAll(walk[i]) = NamesAll(u) \cup NamesAll(v)
      BY <3>1, NamesOfTwo
    <3> QED
      BY <3>2 DEF u, v
  <2>6. \A k \in GoesOnSet(ns, i) : NamesAll(walk[k]) = ToSet(read[k])
    BY <1>6, TailsLater
  <2>7. \A k \in ShownSet(ns, i) : ToSet(read[k]) = {k}
    <3> TAKE k \in ShownSet(ns, i)
    <3>1. LeadSet(ns, k) = {k} /\ NextSet(ns, k) = {} /\ k \in D
      BY LosersStandAlone DEF ShownSet
    <3>2. ToSet(read[k]) = LeadSet(ns, k) \cup UNION {ToSet(read[l]) : l \in NextSet(ns, k)}
      BY <1>2, <3>1, ReadIs
    <3> QED
      BY <3>1, <3>2
  <2>8. ToSet(read[i]) = LeadSet(ns, i) \cup UNION {ToSet(read[k]) : k \in NextSet(ns, i)}
    BY <1>2, ReadIs
  <2>9. ToSet(read[i]) = (LeadSet(ns, i) \cup ShownSet(ns, i))
                          \cup UNION {ToSet(read[k]) : k \in GoesOnSet(ns, i)}
    <3> DEFINE A == ShownSet(ns, i)
               B == GoesOnSet(ns, i)
    <3>1. \A x : x \in ToSet(read[i]) <=>
            \/ x \in LeadSet(ns, i)
            \/ \E k \in A : x \in ToSet(read[k])
            \/ \E k \in B : x \in ToSet(read[k])
      BY <2>8 DEF NextSet
    <3>2. \A x : (\E k \in A : x \in ToSet(read[k])) <=> x \in A
      BY <2>7
    <3> HIDE DEF A, B
    <3>3. ToSet(read[i]) = (LeadSet(ns, i) \cup A) \cup UNION {ToSet(read[k]) : k \in B}
      BY <3>1, <3>2
    <3> QED
      BY <3>3 DEF A, B
  <2>10. NamesAll(walk[i]) = ToSet(read[i])
    BY <2>3, <2>4, <2>5, <2>6, <2>9
  <2> QED
    BY <2>10
<1>7. \A i \in D : i \in Good
  <2> HIDE DEF Good
  <2> QED
    BY <1>6, FromTheEnd
<1>8. Roots(ns) \in SUBSET D
  BY DEF Roots, Kids
<1>9. Listed(Roots(ns)) \in Seq(D) /\ ToSet(Listed(Roots(ns))) = Roots(ns)
  BY <1>8, ListedLists DEF Lists
<1>10. NamesAll(SpineFor(ns, closed)) = UNION {NamesAll(walk[r]) : r \in Roots(ns)}
  <2>1. \A k \in ToSet(Listed(Roots(ns))) : walk[k] \in Seq(S)
    BY <1>8, <1>9
  <2>2. NamesAll(Each(walk, Listed(Roots(ns))))
        = UNION {NamesAll(walk[k]) : k \in ToSet(Listed(Roots(ns)))}
    BY <1>9, <2>1, NamesOfEach
  <2> QED
    BY <1>5, <1>9, <2>2
<1>11. NamesAll(SpineFor(ns, closed)) = ToSet(PageOf(ns, closed))
  BY <1>3, <1>7, <1>8, <1>10
<1>12. NodesTold(SpineFor(ns, closed)) = NamesAll(SpineFor(ns, closed))
  BY DEF NodesTold, NamesAll, Names, ToSet
<1> QED
  BY <1>11, <1>12

-----------------------------------------------------------------------------
(***************************************************************************)
(* The map.                                                                *)
(***************************************************************************)
\* The first place of something in a sequence.
Where(s, x) == SelectInSeq(s, LAMBDA y : y = x)

\* A member of a sequence is found in it.
LEMMA WhereIs ==
  ASSUME NEW T, NEW s \in Seq(T), NEW x \in ToSet(s)
  PROVE  /\ Where(s, x) \in DOMAIN s /\ Where(s, x) \in Nat /\ s[Where(s, x)] = x
         /\ IsInjective(s) => \A k \in DOMAIN s : s[k] = x => Where(s, x) = k
<1> DEFINE I == {i \in 1..Len(s) : s[i] = x}
<1>1. Where(s, x) = IF I # {} THEN Min(I) ELSE 0
  BY DEF Where, SelectInSeq
<1>2. DOMAIN s = 1..Len(s) /\ I \in SUBSET Nat
  OBVIOUS
<1>3. I # {}
  BY <1>2 DEF ToSet
<1>4. Min(I) \in I
  BY <1>2, <1>3, MinIs
<1> QED
  BY <1>1, <1>2, <1>3, <1>4 DEF IsInjective

\* A card that has been placed.
Card == [column : Nat, y : Int, h : Nat]

InColumn(at, c) == {i \in DOMAIN at : at[i].column = c}

\* The cards of a column are listed, each once,
LEMMA ColumnLists ==
  ASSUME NEW n \in Nat, NEW at \in [1..n -> Card], NEW T, NEW walked \in Seq(T),
         \A i \in 1..n : i \in ToSet(walked), NEW c
  PROVE  Lists(DownTheColumn(at, walked, c), InColumn(at, c), 1..n)
<1> DEFINE set == InColumn(at, c)
           Higher(i, j) == at[i].y < at[j].y
                           \/ (at[i].y = at[j].y /\ Where(walked, i) < Where(walked, j))
           R == {p \in set \X set : Higher(p[1], p[2])}
           before == [i \in set |-> Cardinality({j \in set : Higher(j, i)})]
           seq == DownTheColumn(at, walked, c)
<1>1. set \in SUBSET (1..n) /\ IsFiniteSet(set)
  BY FS_Interval, FS_Subset DEF InColumn
<1>2. \A x, y \in set : <<x, y>> \in R <=> Higher(x, y)
  OBVIOUS
<1>3. /\ \A x \in set : at[x].y \in Int /\ Where(walked, x) \in Nat
      /\ \A x, y \in set : Where(walked, x) = Where(walked, y) => x = y
  <2>1. \A x \in set : at[x] \in Card /\ x \in ToSet(walked)
    BY <1>1
  <2>2. \A x \in set : Where(walked, x) \in Nat /\ walked[Where(walked, x)] = x
    BY <2>1, WhereIs
  <2>3. \A x \in set : at[x].y \in Int
    BY <2>1 DEF Card
  <2> QED
    BY <2>2, <2>3
<1>4. seq = [k \in 1..Cardinality(set) |->
               CHOOSE i \in set : Cardinality({j \in set : Higher(j, i)}) = k - 1]
  BY DEF DownTheColumn, InOrder, InColumn, Where
<1> HIDE DEF seq, R, set
<1>5. \A k \in 1..Cardinality(set) :
        \E x \in set : Cardinality({y \in set : <<y, x>> \in R}) = k - 1
  <2>1. \A x, y \in set : x # y => <<x, y>> \in R \/ <<y, x>> \in R
    BY <1>2, <1>3
  <2>2. \A x, y, z \in set : <<x, y>> \in R /\ <<y, z>> \in R => <<x, z>> \in R
    <3> TAKE x, y, z \in set
    <3> HAVE <<x, y>> \in R /\ <<y, z>> \in R
    <3>1. Higher(x, y) /\ Higher(y, z)
      BY <1>2
    <3>2. /\ at[x].y \in Int /\ at[y].y \in Int /\ at[z].y \in Int
          /\ Where(walked, x) \in Nat /\ Where(walked, y) \in Nat /\ Where(walked, z) \in Nat
      BY <1>3
    <3>3. Higher(x, z)
      BY <3>1, <3>2
    <3> QED
      BY <1>2, <3>3
  <2>3. \A x \in set : <<x, x>> \notin R
    BY <1>2, <1>3
  <2> QED
    BY <1>1, <2>1, <2>2, <2>3, PlacesInOrder
<1>6. \A x \in set : {y \in set : <<y, x>> \in R} = {y \in set : Higher(y, x)}
  BY <1>2
<1> HIDE DEF Higher
<1>7. \A k \in 1..Cardinality(set) : seq[k] \in set /\ before[seq[k]] = k - 1
  BY <1>4, <1>5, <1>6
<1>8. seq \in [1..Cardinality(set) -> set]
  BY <1>4, <1>5, <1>6
<1> HIDE DEF before
<1>9. seq \in Seq(set) /\ IsInjective(seq) /\ ToSet(seq) = set
  <2>1. \A k \in 1..Cardinality(set) : before[seq[k]] = k - 1
    BY <1>7
  <2> QED
    BY <1>1, <1>8, <2>1, Enumerates
<1>10. seq \in Seq(1..n)
  <2> DEFINE D == 1..n
  <2>1. \A x \in set : x \in D
    BY <1>1
  <2> HIDE DEF D
  <2>2. seq \in Seq(D)
    BY <1>9, <2>1
  <2> QED
    BY <2>2 DEF D
<1> QED
  BY <1>9, <1>10 DEF Lists, seq, set

\* Once the cards of a column are pushed apart, each begins at or below the floor of all above it.
LEMMA ApartInColumns ==
  ASSUME NEW n \in Nat, NEW at \in [1..n -> Card], NEW T, NEW walked \in Seq(T),
         \A i \in 1..n : i \in ToSet(walked)
  PROVE  LET out == PushedApart(at, walked) IN
         /\ out \in [1..n -> Card]
         /\ \A i \in 1..n : out[i].column = at[i].column
         /\ \A i, j \in 1..n : i # j /\ at[i].column = at[j].column =>
              \/ out[i].y + out[i].h + RowGap <= out[j].y
              \/ out[j].y + out[j].h + RowGap <= out[i].y
<1> DEFINE D == 1..n
           V == Card
           columns == {at[i].column : i \in DOMAIN at}
           column == [c \in columns |-> DownTheColumn(at, walked, c)]
           Cards(i) == column[at[i].column]
           Place(i) == SelectInSeq(Cards(i), LAMBDA j : j = i)
           Above(i) == IF Place(i) = 1 THEN 0 ELSE Cards(i)[Place(i) - 1]
           Step(f, i) ==
             IF Above(i) = 0 THEN at[i]
             ELSE [at[i] EXCEPT !.y = IF @ < Floor(f[Above(i)]) THEN Floor(f[Above(i)]) ELSE @]
           Pushed == CHOOSE f : f = [i \in D |-> Step(f, i)]
           G == [i \in D |-> [f \in [D -> V] |-> Step(f, i)]]
           rank == [i \in D |-> Place(i)]
           b == n + 1
<1>1. DOMAIN at = D /\ \A i \in D : at[i] \in Card
  OBVIOUS
<1>2. \A i \in D : /\ Cards(i) \in Seq(D) /\ IsInjective(Cards(i))
                   /\ ToSet(Cards(i)) = InColumn(at, at[i].column)
  <2> TAKE i \in D
  <2>1. Cards(i) = DownTheColumn(at, walked, at[i].column)
    OBVIOUS
  <2>2. Lists(DownTheColumn(at, walked, at[i].column), InColumn(at, at[i].column), D)
    BY ColumnLists
  <2> QED
    BY <2>1, <2>2 DEF Lists
<1>3. \A i, j \in D : at[i].column = at[j].column => Cards(i) = Cards(j)
  OBVIOUS
<1>4. \A i \in D : InColumn(at, at[i].column) = {j \in D : at[j].column = at[i].column}
  BY DEF InColumn
<1>5. \A i \in D : Place(i) = Where(Cards(i), i)
  BY DEF Where
<1>a. IsFiniteSet(D) /\ Cardinality(D) = n /\ \A i \in D : i # 0
  BY FS_Interval
<1> HIDE DEF column, Cards, Place, D
<1>6. \A i \in D : /\ Place(i) \in DOMAIN Cards(i) /\ Place(i) \in Nat /\ Place(i) >= 1
                   /\ Cards(i)[Place(i)] = i
                   /\ \A k \in DOMAIN Cards(i) : Cards(i)[k] = i => Place(i) = k
  <2> TAKE i \in D
  <2>1. i \in ToSet(Cards(i))
    BY <1>2, <1>4
  <2> DEFINE s == Cards(i)
  <2>2. s \in Seq(D) /\ IsInjective(s) /\ i \in ToSet(s) /\ Place(i) = Where(s, i)
    BY <1>2, <1>5, <2>1
  <2> HIDE DEF s
  <2>3. /\ Place(i) \in DOMAIN s /\ Place(i) \in Nat /\ s[Place(i)] = i
        /\ \A k \in DOMAIN s : s[k] = i => Place(i) = k
    BY <2>2, WhereIs
  <2>4. Place(i) >= 1
    BY <2>2, <2>3
  <2> QED
    BY <2>3, <2>4 DEF s
<1>7. \A i \in D : Place(i) # 1 =>
        /\ Above(i) \in D /\ Above(i) # 0 /\ at[Above(i)].column = at[i].column
        /\ Place(Above(i)) = Place(i) - 1
  <2> TAKE i \in D
  <2> HAVE Place(i) # 1
  <2> DEFINE k == Place(i) - 1
             a == Cards(i)[k]
  <2>1. Cards(i) \in Seq(D) /\ Place(i) \in DOMAIN Cards(i) /\ Place(i) \in Nat /\ Place(i) >= 1
    BY <1>2, <1>6
  <2>2. k \in DOMAIN Cards(i) /\ Above(i) = a
    <3> DEFINE s == Cards(i)
    <3>1. s \in Seq(D) /\ Place(i) \in DOMAIN s /\ Place(i) \in Nat /\ Place(i) >= 1
      BY <2>1
    <3> HIDE DEF s
    <3>2. k \in DOMAIN s
      BY <3>1
    <3> QED
      BY <3>2 DEF s
  <2>3. a \in ToSet(Cards(i))
    BY <2>2 DEF ToSet
  <2>4. a \in D /\ at[a].column = at[i].column
    BY <1>2, <1>4, <2>3
  <2>5. Cards(a) = Cards(i)
    BY <1>3, <2>4
  <2>6. Place(a) = k
    BY <1>6, <2>2, <2>4, <2>5
  <2>7. a # 0
    BY <1>a, <2>4
  <2> HIDE DEF k, a, Above
  <2> QED
    BY <2>2, <2>4, <2>6, <2>7 DEF k
<1>8. \A i \in D : Place(i) = 1 => Above(i) = 0
  OBVIOUS
<1> HIDE DEF Above
<1>9. \A x \in Card : Floor(x) = x.y + x.h + RowGap /\ x.y \in Int /\ x.h \in Nat
                      /\ Floor(x) \in Int
                      /\ Floor(x) >= x.y /\ x.column \in Nat
  BY SpineAssumption DEF Floor, Card
<1>10. \A i \in D : \A f : (Above(i) # 0 => f[Above(i)] \in Card) => Step(f, i) \in Card
  <2> TAKE i \in D
  <2> TAKE f
  <2> HAVE Above(i) # 0 => f[Above(i)] \in Card
  <2>1. at[i] \in Card
    BY <1>1
  <2>2. CASE Above(i) = 0
    BY <2>1, <2>2
  <2>3. CASE Above(i) # 0
    <3> DEFINE fl == Floor(f[Above(i)])
    <3>1. fl \in Int
      BY <1>9, <2>3
    <3>2. Step(f, i) = [at[i] EXCEPT !.y = IF @ < fl THEN fl ELSE @]
      BY <2>3
    <3> HIDE DEF fl, Step
    <3> QED
      BY <2>1, <3>1, <3>2 DEF Card
  <2> QED
    BY <2>2, <2>3
<1>11. \E f : f = [i \in D |-> Step(f, i)]
  <2>1. \A i \in D : \A f \in [D -> V] : G[i][f] = Step(f, i)
    <3> HIDE DEF Step, V
    <3> QED
      OBVIOUS
  <2>2. G \in [D -> [[D -> V] -> V]]
    <3>1. \A i \in D : \A f \in [D -> V] : Step(f, i) \in V
      <4> TAKE i \in D
      <4> TAKE f \in [D -> V]
      <4>1. Above(i) # 0 => Above(i) \in D
        BY <1>7, <1>8
      <4> HIDE DEF Step
      <4> QED
        BY <1>10, <4>1
    <3> HIDE DEF Step, V
    <3> QED
      BY <3>1
  <2>3. V # {}
    <3>1. [column |-> 0, y |-> 0, h |-> 0] \in Card
      BY DEF Card
    <3> QED
      BY <3>1
  <2>4. /\ rank \in [D -> Nat] /\ b \in Nat
        /\ \A i \in D : rank[i] = Place(i) /\ rank[i] < b
    <3>1. \A i \in D : Place(i) <= n
      <4> TAKE i \in D
      <4> DEFINE s == Cards(i)
      <4>1. s \in Seq(D) /\ IsInjective(s) /\ Place(i) \in DOMAIN s
        BY <1>2, <1>6
      <4> HIDE DEF s
      <4> DEFINE m == Len(s)
      <4>2. s \in Injection(1..m, D) /\ m \in Nat /\ DOMAIN s = 1..m
        BY <4>1 DEF Injection, IsInjective
      <4> HIDE DEF m
      <4>3. m \in Int /\ (m = 0 \/ m >= 1)
        BY <4>2
      <4>4. IsFiniteSet(1..m) /\ Cardinality(1..m) = m
        BY <4>3, FS_Interval
      <4>5. m <= n
        BY <1>a, <4>2, <4>4, FS_Injection
      <4> QED
        BY <4>1, <4>2, <4>5
    <3> QED
      BY <1>6, <3>1
  <2>5. \A i \in D : \A f, g \in [D -> V] :
          (\A k \in D : rank[k] < rank[i] => f[k] = g[k]) => Step(f, i) = Step(g, i)
    <3> TAKE i \in D
    <3> TAKE f, g \in [D -> V]
    <3> HAVE \A k \in D : rank[k] < rank[i] => f[k] = g[k]
    <3>1. Above(i) # 0 => f[Above(i)] = g[Above(i)]
      <4>1. Above(i) # 0 => Above(i) \in D /\ rank[Above(i)] < rank[i]
        BY <1>6, <1>7, <1>8, <2>4
      <4> QED
        BY <4>1
    <3> QED
      BY <3>1
  <2> HIDE DEF G, V, Step, rank, b
  <2>6. \A i \in D : \A f, g \in [D -> V] :
          (\A k \in D : rank[k] < rank[i] => f[k] = g[k]) => G[i][f] = G[i][g]
    BY <2>1, <2>5
  <2>7. Founded(D, V, rank, b, G)
    BY <2>2, <2>3, <2>4, <2>6 DEF Founded
  <2>8. PICK h \in [D -> V] : \A i \in D : h[i] = G[i][h]
    BY <2>7, Recursion
  <2>9. h = [i \in D |-> Step(h, i)]
    BY <2>1, <2>8
  <2> QED
    BY <2>9
<1>12. Pushed = [i \in D |-> Step(Pushed, i)]
  <2> HIDE DEF Step
  <2> QED
    BY <1>11
<1>13. PushedApart(at, walked) = << >> \o Pushed
  BY <1>1 DEF PushedApart, Tabled, Above, Place, Cards, column
<1> HIDE DEF Pushed
<1>14. \A i \in D : Pushed[i] = Step(Pushed, i)
  <2> HIDE DEF Step
  <2> QED
    BY <1>12
<1>15. \A i \in D : Pushed[i] \in Card
  <2> DEFINE Good == {i \in D : Pushed[i] \in Card}
  <2>1. rank \in [D -> Nat]
    BY <1>6
  <2>2. ASSUME NEW i \in D, \A k \in D : rank[k] < rank[i] => k \in Good PROVE i \in Good
    <3>1. Above(i) # 0 => Above(i) \in D /\ rank[Above(i)] < rank[i]
      BY <1>6, <1>7, <1>8
    <3>2. Above(i) # 0 => Pushed[Above(i)] \in Card
      BY <2>2, <3>1
    <3> HIDE DEF Step
    <3>3. Step(Pushed, i) \in Card
      BY <1>10, <3>2
    <3> QED
      BY <1>14, <3>3
  <2>3. \A i \in D : i \in Good
    <3> HIDE DEF Good, rank
    <3> QED
      BY <2>1, <2>2, ByRank
  <2> QED
    BY <2>3
<1>16. \A i \in D : /\ Pushed[i].column = at[i].column
                    /\ Above(i) # 0 => Pushed[i].y >= Floor(Pushed[Above(i)])
  <2> TAKE i \in D
  <2>1. at[i] \in Card /\ Pushed[i] = Step(Pushed, i)
    BY <1>1, <1>14
  <2>2. CASE Above(i) = 0
    BY <2>1, <2>2
  <2>3. CASE Above(i) # 0
    <3> DEFINE fl == Floor(Pushed[Above(i)])
    <3>1. Above(i) \in D
      BY <1>7, <1>8, <2>3
    <3>2. fl \in Int
      BY <1>9, <1>15, <3>1
    <3>3. Pushed[i] = [at[i] EXCEPT !.y = IF @ < fl THEN fl ELSE @]
      BY <2>1, <2>3
    <3> HIDE DEF fl, Step
    <3>4. Pushed[i].column = at[i].column /\ Pushed[i].y >= fl
      BY <2>1, <3>2, <3>3 DEF Card
    <3> QED
      BY <3>4 DEF fl
  <2> QED
    BY <2>2, <2>3
<1> HIDE DEF Step
\* The floors of all the cards above, by the place in the column.
<1>17. \A i \in D : \A j \in D : at[j].column = at[i].column /\ Place(j) < Place(i)
         => Pushed[i].y >= Floor(Pushed[j])
  <2> DEFINE Good == {i \in D : \A j \in D : at[j].column = at[i].column /\ Place(j) < Place(i)
                                  => Pushed[i].y >= Floor(Pushed[j])}
  <2>1. rank \in [D -> Nat] /\ \A i \in D : rank[i] = Place(i)
    BY <1>6
  <2>2. ASSUME NEW i \in D, \A k \in D : rank[k] < rank[i] => k \in Good PROVE i \in Good
    <3> SUFFICES ASSUME NEW j \in D, at[j].column = at[i].column, Place(j) < Place(i)
                 PROVE  Pushed[i].y >= Floor(Pushed[j])
      OBVIOUS
    <3>1. Place(i) # 1
      BY <1>6
    <3>2. /\ Above(i) \in D /\ Above(i) # 0 /\ at[Above(i)].column = at[i].column
          /\ Place(Above(i)) = Place(i) - 1
      BY <1>7, <3>1
    <3>3. Pushed[i].y >= Floor(Pushed[Above(i)])
      BY <1>16, <3>2
    <3>4. CASE Place(j) = Place(Above(i))
      <4>1. Cards(j) = Cards(Above(i))
        BY <1>3, <3>2
      <4>2. j = Above(i)
        BY <1>6, <3>2, <3>4, <4>1
      <4> QED
        BY <3>3, <4>2
    <3>5. CASE Place(j) # Place(Above(i))
      <4>1. Place(j) < Place(Above(i))
        BY <1>6, <3>2, <3>5
      <4>2. Above(i) \in Good
        BY <1>6, <2>1, <2>2, <3>2
      <4>3. Pushed[Above(i)].y >= Floor(Pushed[j])
        BY <3>2, <4>1, <4>2
      <4>4. Pushed[Above(i)] \in Card /\ Pushed[i] \in Card /\ Pushed[j] \in Card
        BY <1>15, <3>2
      <4>5. Floor(Pushed[Above(i)]) >= Pushed[Above(i)].y
        BY <1>9, <4>4
      <4> QED
        BY <1>9, <3>3, <4>3, <4>4, <4>5
    <3> QED
      BY <3>4, <3>5
  <2>3. \A i \in D : i \in Good
    <3> HIDE DEF Good, rank
    <3> QED
      BY <2>1, <2>2, ByRank
  <2> QED
    BY <2>3
<1>18. \A i, j \in D : i # j /\ at[i].column = at[j].column =>
         \/ Pushed[i].y + Pushed[i].h + RowGap <= Pushed[j].y
         \/ Pushed[j].y + Pushed[j].h + RowGap <= Pushed[i].y
  <2> TAKE i, j \in D
  <2> HAVE i # j /\ at[i].column = at[j].column
  <2>1. Cards(i) = Cards(j)
    BY <1>3
  <2>2. Place(i) # Place(j)
    BY <1>6, <2>1
  <2>3. Place(i) < Place(j) \/ Place(j) < Place(i)
    BY <1>6, <2>2
  <2>4. Pushed[j].y >= Floor(Pushed[i]) \/ Pushed[i].y >= Floor(Pushed[j])
    BY <1>17, <2>3
  <2>5. Pushed[i] \in Card /\ Pushed[j] \in Card
    BY <1>15
  <2> QED
    BY <1>9, <2>4, <2>5
<1>19. << >> \o Pushed = Pushed /\ Pushed \in [1..n -> Card]
  <2>1. Pushed \in [1..n -> Card]
    BY <1>12, <1>15 DEF D
  <2>2. Pushed \in Seq(Card)
    BY <2>1
  <2> QED
    BY <2>1, <2>2
<1> QED
  BY <1>13, <1>16, <1>18, <1>19 DEF D

\* A forest: a node's rank is higher than its parent's.
Forest(ns, rank, b) ==
  /\ ns \in Records /\ UniqueIds(ns)
  /\ rank \in [DOMAIN ns -> Nat] /\ b \in Nat /\ \A i \in DOMAIN ns : rank[i] < b
  /\ \A i \in DOMAIN ns : ns[i].parent # NoNode =>
       Par(ns, i) \in DOMAIN ns /\ rank[Par(ns, i)] < rank[i]

\* In a forest a node is under the node that its parent names.
LEMMA ForestParents ==
  ASSUME NEW ns, NEW rank, NEW b, Forest(ns, rank, b), NEW i \in DOMAIN ns
  PROVE  /\ ns[i].parent = NoNode <=> Par(ns, i) = 0
         /\ Par(ns, i) # 0 => Par(ns, i) \in DOMAIN ns /\ rank[Par(ns, i)] < rank[i]
         /\ \A p \in DOMAIN ns : ns[i].parent = ns[p].id <=> Par(ns, i) = p
         /\ Kids(ns, ns[i].id) = {j \in DOMAIN ns : Par(ns, j) = i}
         /\ Roots(ns) = {j \in DOMAIN ns : Par(ns, j) = 0}
<1> USE DEF Forest
<1> DEFINE D == DOMAIN ns
<1>1. /\ D = 1..Len(ns) /\ 0 \notin D
      /\ \A j \in D : ns[j].id \in NodeIds /\ ns[j].id # NoNode
  BY RecordNode, NoNodeAssumption DEF Records
<1>2. \A j \in D : /\ Par(ns, j) = 0 \/ (Par(ns, j) \in D /\ ns[Par(ns, j)].id = ns[j].parent)
                   /\ \A p \in D : ns[p].id = ns[j].parent => Par(ns, j) = p
  BY PlaceOfId DEF Par
<1>3. \A j \in D : ns[j].parent = NoNode <=> Par(ns, j) = 0
  BY <1>1, <1>2
<1>4. \A j, p \in D : ns[j].parent = ns[p].id <=> Par(ns, j) = p
  BY <1>1, <1>2
<1>5. Kids(ns, ns[i].id) = {j \in D : Par(ns, j) = i}
  BY <1>4 DEF Kids
<1>6. Roots(ns) = {j \in D : Par(ns, j) = 0}
  BY <1>3 DEF Roots, Kids
<1> QED
  BY <1>3, <1>4, <1>5, <1>6

\* The map is a forest in which an option comes right after the question's own, and what
\* follows a question or its answer after that.
LEMMA MapIsForest ==
  ASSUME NEW ns \in Records, Readable(ns)
  PROVE  \E rank : \E b : Forest(Reparented(ns), rank, b)
<1> DEFINE D == DOMAIN ns
           map == Reparented(ns)
           rank == [i \in D |-> 2 * Par(ns, i) + (IF ns[i].kind = "option" THEN 0 ELSE 1)]
           b == 2 * Len(ns) + 2
           moved(x) == Par(ns, x) # 0 /\ ns[Par(ns, x)].kind = "question"
                       /\ Winner(ns, Par(ns, x)) # 0 /\ ns[x].kind # "option"
<1>1. \A x \in D : /\ map[x].id = ns[x].id
                   /\ moved(x) => map[x].parent = ns[Winner(ns, Par(ns, x))].id
                   /\ ~ moved(x) => map[x] = ns[x]
  BY ReparentedIs
<1>2. DOMAIN map = D /\ map \in Records
  <2>1. \A x \in D : DOMAIN map = D /\ map \in Records
    BY ReparentedIs
  <2>2. DOMAIN map = D
    BY DEF Reparented
  <2>3. CASE D = {}
    <3>1. map = << >>
      BY <2>2, <2>3
    <3> QED
      BY <2>2, <3>1 DEF Records
  <2> QED
    BY <2>1, <2>2, <2>3
<1>3. /\ Len(ns) \in Nat
      /\ \A i \in D : /\ i \in Nat /\ i <= Len(ns) /\ i >= 1
                      /\ Par(ns, i) \in Nat /\ Par(ns, i) < i
                      /\ Par(ns, i) # 0 => Par(ns, i) \in D /\ ns[Par(ns, i)].id = ns[i].parent
                      /\ Par(ns, i) = 0 => ns[i].parent = NoNode
  <2>1. Len(ns) \in Nat
    BY DEF Records
  <2>2. \A i \in D : /\ i \in Nat /\ i <= Len(ns) /\ i >= 1
                     /\ ns[i].parent = NoNode => Par(ns, i) = 0
                     /\ ns[i].parent # NoNode => /\ Par(ns, i) \in D /\ Par(ns, i) < i
                                                 /\ ns[Par(ns, i)].id = ns[i].parent
                     /\ Par(ns, i) = 0 => ns[i].parent = NoNode
    BY Parents
  <2>3. \A i \in D : i \in Nat
    BY <2>2
  <2> QED
    BY <2>1, <2>2, <2>3
<1> HIDE DEF map
<1>4. \A i \in D : /\ rank[i] \in Nat /\ rank[i] < b
                   /\ rank[i] = 2 * Par(ns, i) + (IF ns[i].kind = "option" THEN 0 ELSE 1)
  BY <1>3
<1>5. UniqueIds(map)
  BY <1>1, <1>2 DEF Readable, UniqueIds
<1>6. \A i, p \in D : map[i].parent = map[p].id => Par(map, i) = p
  BY <1>2, <1>5, PlaceOfId DEF Par
<1>7. rank \in [D -> Nat] /\ b \in Nat
  <2>1. b \in Nat
    BY <1>3
  <2>2. DOMAIN rank = D /\ rank = [i \in D |-> rank[i]]
    OBVIOUS
  <2> HIDE DEF rank
  <2> QED
    BY <1>4, <2>1, <2>2
<1> HIDE DEF rank, b
<1>8. ASSUME NEW i \in D, map[i].parent # NoNode
      PROVE  Par(map, i) \in D /\ rank[Par(map, i)] < rank[i]
  <2> DEFINE p == Par(ns, i)
             w == Winner(ns, p)
  <2>1. CASE moved(i)
    <3>1. p \in D /\ w # 0
      BY <1>3, <2>1
    <3>2. w \in D /\ Par(ns, w) = p /\ ns[w].kind = "option"
      BY <3>1, WinnerIs
    <3>3. Par(map, i) = w
      BY <1>1, <1>6, <2>1, <3>2
    <3>4. rank[w] = 2 * p + 0 /\ rank[i] = 2 * p + 1 /\ p \in Nat
      BY <1>3, <1>4, <2>1, <3>2
    <3> HIDE DEF p, w
    <3> QED
      BY <3>2, <3>3, <3>4
  <2>2. CASE ~ moved(i)
    <3>1. p # 0
      BY <1>1, <1>3, <1>8, <2>2
    <3>2. p \in D /\ map[i].parent = map[p].id
      BY <1>1, <1>3, <2>2, <3>1
    <3>3. Par(map, i) = p
      BY <1>6, <3>2
    <3>4. /\ Par(ns, p) \in Nat /\ p \in Nat /\ Par(ns, p) < p
          /\ rank[p] <= 2 * Par(ns, p) + 1 /\ rank[i] >= 2 * p
      <4>1. Par(ns, p) \in Nat /\ p \in Nat /\ Par(ns, p) < p
        BY <1>3, <3>2
      <4>2. rank[p] = 2 * Par(ns, p) + (IF ns[p].kind = "option" THEN 0 ELSE 1)
        BY <1>4, <3>2
      <4>3. rank[i] = 2 * p + (IF ns[i].kind = "option" THEN 0 ELSE 1)
        BY <1>4
      <4>4. rank[p] <= 2 * Par(ns, p) + 1
        BY <4>1, <4>2
      <4>5. rank[i] >= 2 * p
        BY <4>1, <4>3
      <4> QED
        BY <4>1, <4>4, <4>5
    <3>5. rank[p] \in Nat /\ rank[i] \in Nat
      BY <1>4, <3>2
    <3> HIDE DEF p
    <3> QED
      BY <3>2, <3>3, <3>4, <3>5
  <2> QED
    BY <2>1, <2>2
<1>9. Forest(map, rank, b)
  BY <1>2, <1>4, <1>5, <1>7, <1>8 DEF Forest
<1> QED
  BY <1>9 DEF map

\* The rank that a recursion over what hangs off a node comes down by.
LEMMA FromTheLeaves ==
  ASSUME NEW ns, NEW rank, NEW b, Forest(ns, rank, b)
  PROVE  \E down \in [DOMAIN ns -> Nat] :
           /\ \A i \in DOMAIN ns : down[i] < b + 1
           /\ \A i, k \in DOMAIN ns : Par(ns, k) = i => down[k] < down[i]
<1> DEFINE D == DOMAIN ns
           down == [i \in D |-> b - rank[i]]
<1>1. \A i \in D : rank[i] \in Nat /\ b \in Nat /\ rank[i] < b /\ i # 0
  BY DEF Forest, Records
<1>2. \A k \in D : Par(ns, k) # 0 => Par(ns, k) \in D /\ rank[Par(ns, k)] < rank[k]
  BY ForestParents
<1>3. \A i \in D : down[i] = b - rank[i] /\ down[i] \in Nat /\ down[i] < b + 1
  BY <1>1
<1>4. down \in [D -> Nat]
  BY <1>1
<1> HIDE DEF down
<1>5. \A i, k \in D : Par(ns, k) = i => down[k] < down[i]
  BY <1>1, <1>2, <1>3
<1> QED
  BY <1>3, <1>4, <1>5

\* A sequence with one more in front.
LEMMA OneAndMore ==
  ASSUME NEW S, NEW x \in S, NEW e \in Seq(S), NEW s, s = <<x>> \o e
  PROVE  ToSet(s) = {x} \cup ToSet(e)
<1>1. <<x>> \in Seq(S) /\ ToSet(<<x>>) = {x}
  BY DEF ToSet
<1>2. IsJoin(<<x>>, e, s, S)
  BY <1>1, Joined
<1> QED
  BY <1>1, <1>2 DEF IsJoin

\* The walk comes upon every card.
LEMMA WalkedAll ==
  ASSUME NEW ns, NEW rank, NEW b, Forest(ns, rank, b)
  PROVE  Walked(ns) \in Seq(DOMAIN ns) /\ \A i \in DOMAIN ns : i \in ToSet(Walked(ns))
<1> DEFINE D == DOMAIN ns
           V == Seq(D)
           List(i) == Listed(Kids(ns, ns[i].id))
           Step(f, i) == <<i>> \o Each(f, List(i))
           G == [i \in D |-> [f \in [D -> V] |-> Step(f, i)]]
           Under == CHOOSE f : f = [i \in D |-> Step(f, i)]
<1>0. ns \in Records /\ b + 1 \in Nat /\ 0 \notin D
  BY DEF Forest, Records
<1>1. \A i \in D : List(i) \in Seq(D) /\ ToSet(List(i)) = {j \in D : Par(ns, j) = i}
  <2> TAKE i \in D
  <2>1. Kids(ns, ns[i].id) = {j \in D : Par(ns, j) = i}
    BY ForestParents
  <2>2. Kids(ns, ns[i].id) \in SUBSET D
    BY <2>1
  <2> QED
    BY <1>0, <2>1, <2>2, ListedLists DEF Lists
<1> HIDE DEF List
<1>2. PICK down \in [D -> Nat] :
        /\ \A i \in D : down[i] < b + 1
        /\ \A i, k \in D : Par(ns, k) = i => down[k] < down[i]
  BY FromTheLeaves
<1>3. \A i \in D : \A f : (\A k \in ToSet(List(i)) : f[k] \in V) => Step(f, i) \in V
  <2> TAKE i \in D
  <2> TAKE f
  <2> HAVE \A k \in ToSet(List(i)) : f[k] \in V
  <2> DEFINE e == Each(f, List(i))
  <2>1. e \in Seq(D)
    BY <1>1, EachOf
  <2> HIDE DEF e
  <2>2. <<i>> \o e \in Seq(D)
    BY <2>1
  <2> QED
    BY <2>2 DEF e
<1>4. \E f : f = [i \in D |-> Step(f, i)]
  <2>1. \A i \in D : \A f \in [D -> V] : G[i][f] = Step(f, i)
    <3> HIDE DEF Step, V
    <3> QED
      OBVIOUS
  <2>2. G \in [D -> [[D -> V] -> V]]
    <3>1. \A i \in D : \A f \in [D -> V] : Step(f, i) \in V
      <4> TAKE i \in D
      <4> TAKE f \in [D -> V]
      <4>1. \A k \in ToSet(List(i)) : f[k] \in V
        BY <1>1
      <4> HIDE DEF Step, V
      <4> QED
        BY <1>3, <4>1
    <3> HIDE DEF Step, V
    <3> QED
      BY <3>1
  <2>3. V # {}
    <3>1. << >> \in V
      OBVIOUS
    <3> QED
      BY <3>1
  <2>4. \A i \in D : \A f, g \in [D -> V] :
          (\A k \in D : down[k] < down[i] => f[k] = g[k]) => Step(f, i) = Step(g, i)
    <3> TAKE i \in D
    <3> TAKE f, g \in [D -> V]
    <3> HAVE \A k \in D : down[k] < down[i] => f[k] = g[k]
    <3>1. \A k \in ToSet(List(i)) : f[k] = g[k]
      BY <1>1, <1>2
    <3>2. Each(f, List(i)) = Each(g, List(i))
      BY <3>1, EachSame
    <3> QED
      BY <3>2
  <2> HIDE DEF G, V, Step
  <2>5. \A i \in D : \A f, g \in [D -> V] :
          (\A k \in D : down[k] < down[i] => f[k] = g[k]) => G[i][f] = G[i][g]
    BY <2>1, <2>4
  <2>6. Founded(D, V, down, b + 1, G)
    BY <1>0, <1>2, <2>2, <2>3, <2>5 DEF Founded
  <2>7. PICK h \in [D -> V] : \A i \in D : h[i] = G[i][h]
    BY <2>6, Recursion
  <2>8. h = [i \in D |-> Step(h, i)]
    BY <2>1, <2>7
  <2> QED
    BY <2>8
<1>5. Under = [i \in D |-> Step(Under, i)]
  <2> HIDE DEF Step
  <2> QED
    BY <1>4
<1>6. Walked(ns) = Each(Under, Listed(Roots(ns)))
  BY DEF Walked, List
<1> HIDE DEF Under
<1>7. \A i \in D : Under[i] = Step(Under, i)
  <2> HIDE DEF Step
  <2> QED
    BY <1>5
<1>8. \A i \in D : Under[i] \in V
  <2> DEFINE Good == {i \in D : Under[i] \in V}
  <2>1. ASSUME NEW i \in D, \A k \in D : down[k] < down[i] => k \in Good PROVE i \in Good
    <3>1. \A k \in ToSet(List(i)) : Under[k] \in V
      BY <1>1, <1>2, <2>1
    <3> HIDE DEF Step, V
    <3> QED
      BY <1>3, <1>7, <3>1
  <2>2. \A i \in D : i \in Good
    <3> HIDE DEF Good
    <3> QED
      BY <1>2, <2>1, ByRank
  <2> QED
    BY <2>2
<1>9. \A i \in D : /\ i \in ToSet(Under[i])
                   /\ \A k \in D : Par(ns, k) = i => ToSet(Under[k]) \subseteq ToSet(Under[i])
  <2> TAKE i \in D
  <2> DEFINE e == Each(Under, List(i))
  <2>1. \A k \in ToSet(List(i)) : Under[k] \in Seq(D)
    BY <1>1, <1>8
  <2>2. e \in Seq(D) /\ ToSet(e) = UNION {ToSet(Under[k]) : k \in ToSet(List(i))}
    BY <1>1, <2>1, EachOf
  <2>3. Under[i] = <<i>> \o e
    BY <1>7
  <2> HIDE DEF e
  <2>4. ToSet(Under[i]) = {i} \cup ToSet(e)
    BY <2>2, <2>3, OneAndMore
  <2> QED
    BY <1>1, <2>2, <2>4
\* With a card, the walk comes upon all that hang off it.
<1>10. \A k \in D : \A p \in ToSet(Under[k]), i \in D : Par(ns, i) = p => i \in ToSet(Under[k])
  <2> DEFINE Good == {k \in D : \A p \in ToSet(Under[k]), i \in D :
                                  Par(ns, i) = p => i \in ToSet(Under[k])}
  <2>1. ASSUME NEW k \in D, \A l \in D : down[l] < down[k] => l \in Good PROVE k \in Good
    <3> SUFFICES ASSUME NEW p \in ToSet(Under[k]), NEW i \in D, Par(ns, i) = p
                 PROVE  i \in ToSet(Under[k])
      OBVIOUS
    <3> DEFINE e == Each(Under, List(k))
    <3>1. \A l \in ToSet(List(k)) : Under[l] \in Seq(D)
      BY <1>1, <1>8
    <3>2. e \in Seq(D) /\ ToSet(e) = UNION {ToSet(Under[l]) : l \in ToSet(List(k))}
      BY <1>1, <3>1, EachOf
    <3>3. Under[k] = <<k>> \o e
      BY <1>7
    <3> HIDE DEF e
    <3>4. ToSet(Under[k]) = {k} \cup ToSet(e)
      BY <3>2, <3>3, OneAndMore
    <3>5. CASE p = k
      BY <1>9, <3>5
    <3>6. CASE p # k
      <4>1. PICK l \in ToSet(List(k)) : p \in ToSet(Under[l])
        BY <3>2, <3>4, <3>6
      <4>2. l \in D /\ l \in Good
        <5>1. l \in D /\ down[l] < down[k]
          BY <1>1, <1>2, <4>1
        <5> HIDE DEF Good
        <5> QED
          BY <2>1, <5>1
      <4>3. i \in ToSet(Under[l])
        BY <4>1, <4>2
      <4> QED
        BY <3>2, <3>4, <4>1, <4>3
    <3> QED
      BY <3>5, <3>6
  <2>2. \A k \in D : k \in Good
    <3> HIDE DEF Good
    <3> QED
      BY <1>2, <2>1, ByRank
  <2> QED
    BY <2>2
<1> DEFINE roots == Listed(Roots(ns))
<1>11. /\ roots \in Seq(D) /\ ToSet(roots) = Roots(ns) /\ Roots(ns) \subseteq D
       /\ \A i \in D : Par(ns, i) = 0 => i \in Roots(ns)
  <2>1. \A i \in D : Roots(ns) = {j \in D : Par(ns, j) = 0}
    BY ForestParents
  <2>2. Roots(ns) \in SUBSET D
    BY DEF Roots, Kids
  <2>3. roots \in Seq(D) /\ ToSet(roots) = Roots(ns)
    BY <1>0, <2>2, ListedLists DEF Lists
  <2> QED
    BY <2>1, <2>2, <2>3
<1>12. Walked(ns) \in Seq(D) /\ ToSet(Walked(ns)) = UNION {ToSet(Under[r]) : r \in Roots(ns)}
  <2>1. \A k \in ToSet(roots) : Under[k] \in Seq(D)
    BY <1>8, <1>11
  <2>2. Each(Under, roots) \in Seq(D)
        /\ ToSet(Each(Under, roots)) = UNION {ToSet(Under[k]) : k \in ToSet(roots)}
    BY <1>11, <2>1, EachOf
  <2> QED
    BY <1>6, <1>11, <2>2
<1> DEFINE Met == {i \in D : i \in ToSet(Walked(ns))}
<1>13. ASSUME NEW i \in D, \A k \in D : rank[k] < rank[i] => k \in Met PROVE i \in Met
  <2>1. CASE Par(ns, i) = 0
    BY <1>9, <1>11, <1>12, <2>1
  <2>2. CASE Par(ns, i) # 0
    <3>1. Par(ns, i) \in D /\ rank[Par(ns, i)] < rank[i]
      BY <2>2, ForestParents
    <3>2. PICK r \in Roots(ns) : Par(ns, i) \in ToSet(Under[r])
      BY <1>12, <1>13, <3>1
    <3>3. i \in ToSet(Under[r])
      BY <1>10, <1>11, <3>2
    <3> QED
      BY <1>12, <3>3
  <2> QED
    BY <2>1, <2>2
<1>14. \A i \in D : i \in Met
  <2> HIDE DEF Met
  <2>1. rank \in [D -> Nat]
    BY DEF Forest
  <2> QED
    BY <1>13, <2>1, ByRank
<1> QED
  BY <1>12, <1>14

\* Every card that nothing hangs off is among the leaves.
LEMMA LeavesAre ==
  ASSUME NEW ns \in Records, NEW walked \in Seq(DOMAIN ns)
  PROVE  /\ Leaves(ns, walked) \in Seq(DOMAIN ns)
         /\ \A i \in ToSet(walked) : Kids(ns, ns[i].id) = {} => i \in ToSet(Leaves(ns, walked))
<1> DEFINE D == DOMAIN ns
           parts == [k \in DOMAIN walked |->
                       IF Kids(ns, ns[walked[k]].id) = {} THEN <<walked[k]>> ELSE << >>]
<1>1. DOMAIN walked = 1..Len(walked) /\ Len(walked) \in Nat
      /\ \A k \in DOMAIN walked : walked[k] \in D
  OBVIOUS
<1>2. \A k \in DOMAIN walked : parts[k] \in Seq(D)
  <2> TAKE k \in DOMAIN walked
  <2> DEFINE x == walked[k]
  <2>1. x \in D /\ parts[k] \in {<<x>>, << >>}
    BY <1>1
  <2> HIDE DEF x, parts
  <2>2. <<x>> \in Seq(D) /\ << >> \in Seq(D)
    BY <2>1
  <2> QED
    BY <2>1, <2>2
<1>3. parts \in Seq(Seq(D)) /\ DOMAIN parts = DOMAIN walked
  <2> DEFINE V == Seq(D)
             n == Len(walked)
  <2>1. DOMAIN parts = 1..n /\ parts \in [1..n -> V] /\ n \in Nat
    <3>1. \A k \in 1..n : parts[k] \in V
      BY <1>1, <1>2
    <3>2. parts = [k \in 1..n |-> parts[k]]
      BY <1>1
    <3> HIDE DEF V, parts, n
    <3>3. parts \in [1..n -> V]
      BY <3>1, <3>2
    <3> QED
      BY <1>1, <3>3 DEF n
  <2> HIDE DEF V, parts, n
  <2>2. parts \in Seq(V)
    BY <2>1
  <2> QED
    BY <1>1, <2>1, <2>2 DEF V, n
<1>4. Leaves(ns, walked) = FlattenSeq(parts)
  BY DEF Leaves
<1>5. ASSUME NEW i \in ToSet(walked), Kids(ns, ns[i].id) = {}
      PROVE  \E k \in DOMAIN parts : i \in ToSet(parts[k])
  <2>1. PICK k \in DOMAIN walked : walked[k] = i
    BY DEF ToSet
  <2>2. parts[k] = <<i>>
    BY <1>5, <2>1
  <2>3. i \in ToSet(<<i>>)
    BY DEF ToSet
  <2> HIDE DEF parts
  <2> QED
    BY <1>3, <2>1, <2>2, <2>3
<1> HIDE DEF parts
<1>6. /\ FlattenSeq(parts) \in Seq(D)
      /\ ToSet(FlattenSeq(parts)) = UNION {ToSet(parts[k]) : k \in DOMAIN parts}
  BY <1>3, Flattened
<1> QED
  BY <1>4, <1>5, <1>6

\* The top of a leaf is a number, reached from the leaves above it.
LEMMA StackedTops ==
  ASSUME NEW D, NEW leaves \in Seq(D), NEW height \in [D -> Nat]
  PROVE  Stacked(leaves, height) \in [DOMAIN leaves -> Nat]
<1> DEFINE n == Len(leaves)
           K == DOMAIN leaves
           V == Nat
           Step(f, k) == IF k = 1 THEN 0 ELSE f[k - 1] + height[leaves[k - 1]] + RowGap
           G == [k \in K |-> [f \in [K -> V] |-> Step(f, k)]]
           rank == [k \in K |-> k]
           b == n + 1
           Top == CHOOSE f : f = [k \in K |-> Step(f, k)]
<1>1. K = 1..n /\ n \in Nat /\ \A k \in K : leaves[k] \in D
  OBVIOUS
<1>2. \A k \in K : k # 1 => k - 1 \in K /\ k - 1 < k
  BY <1>1
<1>3. \A k \in K : \A f : (k # 1 => f[k - 1] \in Nat) => Step(f, k) \in Nat
  BY <1>1, <1>2, SpineAssumption
<1>4. \E f : f = [k \in K |-> Step(f, k)]
  <2>1. \A k \in K : \A f \in [K -> V] : G[k][f] = Step(f, k)
    <3> HIDE DEF Step
    <3> QED
      OBVIOUS
  <2>2. G \in [K -> [[K -> V] -> V]]
    <3>1. \A k \in K : \A f \in [K -> V] : Step(f, k) \in Nat
      BY <1>2, <1>3
    <3> HIDE DEF Step
    <3> QED
      BY <3>1
  <2>3. rank \in [K -> Nat] /\ b \in Nat /\ \A k \in K : rank[k] = k /\ rank[k] < b
    BY <1>1
  <2>4. \A k \in K : \A f, g \in [K -> V] :
          (\A j \in K : rank[j] < rank[k] => f[j] = g[j]) => Step(f, k) = Step(g, k)
    <3> TAKE k \in K
    <3> TAKE f, g \in [K -> V]
    <3> HAVE \A j \in K : rank[j] < rank[k] => f[j] = g[j]
    <3>1. k # 1 => f[k - 1] = g[k - 1]
      BY <1>2, <2>3
    <3> QED
      BY <3>1
  <2> HIDE DEF G, Step, rank, b, K, V
  <2>5. \A k \in K : \A f, g \in [K -> V] :
          (\A j \in K : rank[j] < rank[k] => f[j] = g[j]) => G[k][f] = G[k][g]
    BY <2>1, <2>4
  <2>6. V # {}
    BY DEF V
  <2>7. Founded(K, V, rank, b, G)
    BY <2>2, <2>3, <2>5, <2>6 DEF Founded
  <2>8. PICK h \in [K -> V] : \A k \in K : h[k] = G[k][h]
    BY <2>7, Recursion
  <2>9. h = [k \in K |-> Step(h, k)]
    BY <2>1, <2>8
  <2> QED
    BY <2>9
<1>5. Top = [k \in K |-> Step(Top, k)]
  <2> HIDE DEF Step
  <2> QED
    BY <1>4
<1>6. Stacked(leaves, height) = << >> \o Top
  BY DEF Stacked, Tabled
<1> HIDE DEF Top
<1>7. \A k \in K : Top[k] = Step(Top, k)
  <2> HIDE DEF Step
  <2> QED
    BY <1>5
<1>8. \A k \in K : Top[k] \in Nat
  <2> DEFINE Good == {k \in K : Top[k] \in Nat}
  <2>1. rank \in [K -> Nat] /\ \A k \in K : rank[k] = k
    BY <1>1
  <2>2. ASSUME NEW k \in K, \A j \in K : rank[j] < rank[k] => j \in Good PROVE k \in Good
    <3>1. k # 1 => Top[k - 1] \in Nat
      BY <1>2, <2>1, <2>2
    <3> HIDE DEF Step
    <3> QED
      BY <1>3, <1>7, <3>1
  <2>3. \A k \in K : k \in Good
    <3> HIDE DEF Good, rank, K
    <3> QED
      BY <2>1, <2>2, ByRank
  <2> QED
    BY <2>3
<1>9. Top \in [1..n -> Nat]
  BY <1>1, <1>5, <1>8
<1>10. Top \in Seq(Nat)
  <2> HIDE DEF n
  <2> QED
    BY <1>1, <1>9
<1>11. << >> \o Top = Top
  BY <1>10
<1> QED
  BY <1>1, <1>6, <1>9, <1>11

\* A finite set of numbers has a least and a greatest.
LEMMA Extremes ==
  ASSUME NEW S \in SUBSET Int, IsFiniteSet(S), S # {}
  PROVE  Min(S) \in S /\ Max(S) \in S
<1>1. Cardinality(S) \in Nat /\ Cardinality(S) # 0
  BY FS_CardinalityType, FS_EmptySet
<1>2. 1 \in 1..Cardinality(S)
  BY <1>1
<1>3. \A T \in SUBSET S : Cardinality(T) = 0 => T = {}
  BY FS_EmptySet, FS_Subset
<1>4. \E x \in S : \A y \in S : x <= y
  <2> DEFINE R == {p \in S \X S : p[1] < p[2]}
             Before(x) == {y \in S : <<y, x>> \in R}
  <2>1. \A x, y \in S : <<x, y>> \in R <=> x < y
    OBVIOUS
  <2> HIDE DEF R
  <2>2. \A k \in 1..Cardinality(S) : \E x \in S : Cardinality(Before(x)) = k - 1
    <3>1. \A x, y \in S : x # y => <<x, y>> \in R \/ <<y, x>> \in R
      BY <2>1
    <3>2. \A x, y, z \in S : <<x, y>> \in R /\ <<y, z>> \in R => <<x, z>> \in R
      BY <2>1
    <3>3. \A x \in S : <<x, x>> \notin R
      BY <2>1
    <3> QED
      BY <3>1, <3>2, <3>3, PlacesInOrder
  <2>3. PICK x \in S : Cardinality(Before(x)) = 0
    BY <1>2, <2>2
  <2>4. Before(x) = {}
    BY <1>3, <2>3
  <2>5. \A y \in S : ~ (y < x)
    BY <2>1, <2>4
  <2> QED
    BY <2>5
<1>5. \E x \in S : \A y \in S : x >= y
  <2> DEFINE R == {p \in S \X S : p[1] > p[2]}
             Before(x) == {y \in S : <<y, x>> \in R}
  <2>1. \A x, y \in S : <<x, y>> \in R <=> x > y
    OBVIOUS
  <2> HIDE DEF R
  <2>2. \A k \in 1..Cardinality(S) : \E x \in S : Cardinality(Before(x)) = k - 1
    <3>1. \A x, y \in S : x # y => <<x, y>> \in R \/ <<y, x>> \in R
      BY <2>1
    <3>2. \A x, y, z \in S : <<x, y>> \in R /\ <<y, z>> \in R => <<x, z>> \in R
      BY <2>1
    <3>3. \A x \in S : <<x, x>> \notin R
      BY <2>1
    <3> QED
      BY <3>1, <3>2, <3>3, PlacesInOrder
  <2>3. PICK x \in S : Cardinality(Before(x)) = 0
    BY <1>2, <2>2
  <2>4. Before(x) = {}
    BY <1>3, <2>3
  <2>5. \A y \in S : ~ (y > x)
    BY <2>1, <2>4
  <2> QED
    BY <2>5
<1>6. Min(S) \in S
  BY <1>4 DEF Min
<1>7. Max(S) \in S
  BY <1>5 DEF Max
<1> QED
  BY <1>6, <1>7

\* What layout is given: heights, the leaves, and the top of each.
LeavesStacked(ns, height, leaves, top) ==
  /\ height \in [DOMAIN ns -> Nat]
  /\ leaves \in Seq(DOMAIN ns)
  /\ top \in [DOMAIN leaves -> Nat]
  /\ \A i \in DOMAIN ns : Kids(ns, ns[i].id) = {} => i \in ToSet(leaves)

ColumnByColumn(ns, at) ==
  /\ at \in [DOMAIN ns -> Card]
  /\ \A i, j \in DOMAIN ns : Par(ns, j) = i => at[j].column = at[i].column + 1

\* A card is placed wherever its children are.
LEMMA CentredCards ==
  ASSUME NEW ns, NEW rank, NEW b, Forest(ns, rank, b), NEW height, NEW leaves, NEW top,
         LeavesStacked(ns, height, leaves, top)
  PROVE  ColumnByColumn(ns, Centred(ns, height, leaves, top))
<1> USE DEF ColumnByColumn
<1> /\ height \in [DOMAIN ns -> Nat] /\ leaves \in Seq(DOMAIN ns)
    /\ top \in [DOMAIN leaves -> Nat]
    /\ \A i \in DOMAIN ns : Kids(ns, ns[i].id) = {} => i \in ToSet(leaves)
  BY DEF LeavesStacked
<1> DEFINE D == DOMAIN ns
           V == Int
           W == Nat
           Centres(f, i) == {f[k] : k \in Kids(ns, ns[i].id)}
           MidStep(f, i) ==
             IF Centres(f, i) = {} THEN top[Where(leaves, i)] + height[i] \div 2
             ELSE (Min(Centres(f, i)) + Max(Centres(f, i))) \div 2
           ColStep(f, i) == IF ns[i].parent = NoNode THEN 0 ELSE 1 + f[Par(ns, i)]
           Middle == CHOOSE f : f = [i \in D |-> MidStep(f, i)]
           Column == CHOOSE f : f = [i \in D |-> ColStep(f, i)]
           at == [i \in D |-> [column |-> Column[i], y |-> Middle[i] - height[i] \div 2,
                               h |-> height[i]]]
<1>0. /\ ns \in Records /\ b \in Nat /\ b + 1 \in Nat /\ 0 \notin D
      /\ rank \in [D -> Nat] /\ \A i \in D : rank[i] < b
  BY DEF Forest, Records
<1>1. \A i \in D : /\ Kids(ns, ns[i].id) = {j \in D : Par(ns, j) = i}
                   /\ IsFiniteSet(Kids(ns, ns[i].id))
                   /\ ns[i].parent # NoNode => Par(ns, i) \in D /\ rank[Par(ns, i)] < rank[i]
                   /\ ns[i].parent = NoNode <=> Par(ns, i) = 0
  <2> TAKE i \in D
  <2>1. Kids(ns, ns[i].id) = {j \in D : Par(ns, j) = i}
    BY ForestParents
  <2>2. Kids(ns, ns[i].id) \in SUBSET D
    BY <2>1
  <2> QED
    BY <1>0, <2>1, <2>2, FinitePlaces, ForestParents
<1>2. \A x \in Int : x \div 2 \in Int
  OBVIOUS
<1>3. \A i \in D : \A f : (\A k \in Kids(ns, ns[i].id) : f[k] \in V) => MidStep(f, i) \in V
  <2> TAKE i \in D
  <2> TAKE f
  <2> HAVE \A k \in Kids(ns, ns[i].id) : f[k] \in V
  <2>1. CASE Centres(f, i) = {}
    <3>1. Kids(ns, ns[i].id) = {}
      BY <2>1
    <3>2. i \in ToSet(leaves)
      BY <3>1
    <3>3. Where(leaves, i) \in DOMAIN leaves
      BY <3>2, WhereIs
    <3>4. top[Where(leaves, i)] \in Nat /\ height[i] \in Nat
      BY <3>3
    <3>5. height[i] \div 2 \in Int
      BY <1>2, <3>4
    <3>6. top[Where(leaves, i)] + height[i] \div 2 \in Int
      BY <3>4, <3>5
    <3> QED
      BY <2>1, <3>6
  <2>2. CASE Centres(f, i) # {}
    <3> DEFINE S == Centres(f, i)
               kids == Kids(ns, ns[i].id)
               g == [k \in kids |-> f[k]]
    <3>1. S \in SUBSET Int
      OBVIOUS
    <3>2. IsFiniteSet(S)
      <4>1. IsFiniteSet(kids)
        BY <1>1
      <4>2. g \in Surjection(kids, S)
        BY DEF Surjection
      <4> HIDE DEF g, kids, S
      <4> QED
        BY <4>1, <4>2, FS_Surjection
    <3>3. Min(S) \in Int /\ Max(S) \in Int
      <4> HIDE DEF S
      <4> QED
        BY <2>2, <3>1, <3>2, Extremes DEF S
    <3>4. MidStep(f, i) = (Min(S) + Max(S)) \div 2
      BY <2>2
    <3>5. Min(S) + Max(S) \in Int
      BY <3>3
    <3> HIDE DEF S, MidStep
    <3> QED
      BY <1>2, <3>4, <3>5
  <2> QED
    BY <2>1, <2>2
<1>4. PICK down \in [D -> Nat] :
        /\ \A i \in D : down[i] < b + 1
        /\ \A i, k \in D : Par(ns, k) = i => down[k] < down[i]
  BY FromTheLeaves
<1>5. \E f : f = [i \in D |-> MidStep(f, i)]
  <2> DEFINE G == [i \in D |-> [f \in [D -> V] |-> MidStep(f, i)]]
  <2>1. \A i \in D : \A f \in [D -> V] : G[i][f] = MidStep(f, i)
    <3> HIDE DEF MidStep, V
    <3> QED
      OBVIOUS
  <2>2. G \in [D -> [[D -> V] -> V]]
    <3>1. \A i \in D : \A f \in [D -> V] : MidStep(f, i) \in V
      <4> TAKE i \in D
      <4> TAKE f \in [D -> V]
      <4>1. \A k \in Kids(ns, ns[i].id) : f[k] \in V
        BY <1>1
      <4> HIDE DEF MidStep, V
      <4> QED
        BY <1>3, <4>1
    <3> HIDE DEF MidStep, V
    <3> QED
      BY <3>1
  <2>3. V # {}
    OBVIOUS
  <2>4. \A i \in D : \A f, g \in [D -> V] :
          (\A k \in D : down[k] < down[i] => f[k] = g[k]) => MidStep(f, i) = MidStep(g, i)
    <3> TAKE i \in D
    <3> TAKE f, g \in [D -> V]
    <3> HAVE \A k \in D : down[k] < down[i] => f[k] = g[k]
    <3>1. \A k \in Kids(ns, ns[i].id) : f[k] = g[k]
      BY <1>1, <1>4
    <3>2. Centres(f, i) = Centres(g, i)
      BY <3>1
    <3> HIDE DEF Centres
    <3> QED
      BY <3>2
  <2> HIDE DEF G, V, MidStep
  <2>5. \A i \in D : \A f, g \in [D -> V] :
          (\A k \in D : down[k] < down[i] => f[k] = g[k]) => G[i][f] = G[i][g]
    <3> TAKE i \in D
    <3> TAKE f, g \in [D -> V]
    <3> HAVE \A k \in D : down[k] < down[i] => f[k] = g[k]
    <3>1. MidStep(f, i) = MidStep(g, i)
      BY <2>4
    <3> QED
      BY <2>1, <3>1
  <2> DEFINE c == b + 1
  <2> HIDE DEF c, D
  <2>6. Founded(D, V, down, c, G)
    BY <1>0, <1>4, <2>2, <2>3, <2>5 DEF Founded, c
  <2>7. PICK h \in [D -> V] : \A i \in D : h[i] = G[i][h]
    BY <2>6, Recursion
  <2>8. h = [i \in D |-> MidStep(h, i)]
    BY <2>1, <2>7
  <2> QED
    BY <2>8
<1>6. \E f : f = [i \in D |-> ColStep(f, i)]
  <2> DEFINE G == [i \in D |-> [f \in [D -> W] |-> ColStep(f, i)]]
  <2>1. \A i \in D : \A f \in [D -> W] : G[i][f] = ColStep(f, i)
    <3> HIDE DEF ColStep, W
    <3> QED
      OBVIOUS
  <2>2. G \in [D -> [[D -> W] -> W]]
    <3>1. \A i \in D : \A f \in [D -> W] : ColStep(f, i) \in W
      BY <1>1
    <3> HIDE DEF ColStep, W
    <3> QED
      BY <3>1
  <2>3. W # {}
    OBVIOUS
  <2>4. \A i \in D : \A f, g \in [D -> W] :
          (\A k \in D : rank[k] < rank[i] => f[k] = g[k]) => ColStep(f, i) = ColStep(g, i)
    BY <1>1
  <2> HIDE DEF G, W, ColStep
  <2>5. \A i \in D : \A f, g \in [D -> W] :
          (\A k \in D : rank[k] < rank[i] => f[k] = g[k]) => G[i][f] = G[i][g]
    <3> TAKE i \in D
    <3> TAKE f, g \in [D -> W]
    <3> HAVE \A k \in D : rank[k] < rank[i] => f[k] = g[k]
    <3>1. ColStep(f, i) = ColStep(g, i)
      BY <2>4
    <3> QED
      BY <2>1, <3>1
  <2>6. Founded(D, W, rank, b, G)
    BY <1>0, <2>2, <2>3, <2>5 DEF Founded
  <2>7. PICK h \in [D -> W] : \A i \in D : h[i] = G[i][h]
    BY <2>6, Recursion
  <2>8. h = [i \in D |-> ColStep(h, i)]
    BY <2>1, <2>7
  <2> QED
    BY <2>8
<1>7. Middle = [i \in D |-> MidStep(Middle, i)] /\ Column = [i \in D |-> ColStep(Column, i)]
  <2> HIDE DEF MidStep, ColStep
  <2> QED
    BY <1>5, <1>6
<1>8. Centred(ns, height, leaves, top) = << >> \o at
  BY DEF Centred, Tabled, Where, Par
<1> HIDE DEF Middle, Column
<1>9. \A i \in D : Middle[i] = MidStep(Middle, i) /\ Column[i] = ColStep(Column, i)
  <2> HIDE DEF MidStep, ColStep
  <2> QED
    BY <1>7
<1>10. \A i \in D : Middle[i] \in V
  <2> DEFINE Good == {i \in D : Middle[i] \in V}
  <2>1. ASSUME NEW i \in D, \A k \in D : down[k] < down[i] => k \in Good PROVE i \in Good
    <3>1. \A k \in Kids(ns, ns[i].id) : Middle[k] \in V
      BY <1>1, <1>4, <2>1
    <3> HIDE DEF MidStep, V
    <3> QED
      BY <1>3, <1>9, <3>1
  <2>2. \A i \in D : i \in Good
    <3> HIDE DEF Good, D
    <3> QED
      BY <1>4, <2>1, ByRank
  <2> QED
    BY <2>2
<1>11. \A i \in D : Column[i] \in Nat
  <2> DEFINE Good == {i \in D : Column[i] \in Nat}
  <2>1. ASSUME NEW i \in D, \A k \in D : rank[k] < rank[i] => k \in Good PROVE i \in Good
    <3>1. Column[i] = ColStep(Column, i)
      BY <1>9
    <3>2. CASE ns[i].parent = NoNode
      BY <3>1, <3>2
    <3>3. CASE ns[i].parent # NoNode
      <4>1. Column[Par(ns, i)] \in Nat
        BY <1>1, <2>1, <3>3
      <4> QED
        BY <3>1, <3>3, <4>1
    <3> QED
      BY <3>2, <3>3
  <2>2. \A i \in D : i \in Good
    <3> HIDE DEF Good, D
    <3> QED
      BY <1>0, <2>1, ByRank
  <2> QED
    BY <2>2
<1>12. at \in [D -> Card]
  <2> SUFFICES ASSUME NEW i \in D
               PROVE  [column |-> Column[i], y |-> Middle[i] - height[i] \div 2, h |-> height[i]]
                        \in Card
    OBVIOUS
  <2>1. height[i] \in Nat /\ height[i] \in Int
    OBVIOUS
  <2>2. height[i] \div 2 \in Int
    BY <1>2, <2>1
  <2>3. Middle[i] - height[i] \div 2 \in Int
    BY <1>10, <2>2
  <2> QED
    BY <1>11, <2>1, <2>3 DEF Card
<1>13. << >> \o at = at
  <2>1. D = 1..Len(ns) /\ Len(ns) \in Nat
    BY <1>0 DEF Records
  <2> DEFINE n == Len(ns)
  <2>2. at \in [1..n -> Card] /\ n \in Nat
    BY <1>12, <2>1
  <2> HIDE DEF at, n
  <2>3. at \in Seq(Card)
    BY <2>2
  <2> QED
    BY <2>3
<1>14. ASSUME NEW i \in D, NEW j \in D, Par(ns, j) = i PROVE at[j].column = at[i].column + 1
  <2>1. ns[j].parent # NoNode
    BY <1>0, <1>1, <1>14
  <2>2. Column[j] = 1 + Column[i]
    BY <1>9, <1>14, <2>1
  <2>3. at[j].column = Column[j] /\ at[i].column = Column[i]
    OBVIOUS
  <2> QED
    BY <1>11, <2>2, <2>3
<1> HIDE DEF at
<1> QED
  BY <1>8, <1>12, <1>13, <1>14

\* Of a record of any age the map can be drawn, whatever the heights of the cards.
LEMMA MapAlwaysReadable ==
  ASSUME NEW ns \in Records, Readable(ns), NEW height \in [NodeIds -> Nat]
  PROVE  CardsApart(ns, height)
<1> DEFINE map == Reparented(ns)
           D == DOMAIN map
           n == Len(map)
           h == [i \in D |-> height[map[i].id]]
           walked == Walked(map)
           leaves == Leaves(map, walked)
           top == Stacked(leaves, h)
           placed == Centred(map, h, leaves, top)
           at == PushedApart(placed, walked)
<1>1. PICK rank : \E b : Forest(map, rank, b)
  BY MapIsForest
<1>2. PICK b : Forest(map, rank, b)
  BY <1>1
<1>3. map \in Records /\ D = 1..n /\ n \in Nat
  BY <1>2 DEF Forest, Records
<1>4. Tabled(map) = map
  <2> HIDE DEF map
  <2> QED
    BY <1>3 DEF Tabled, Records
<1> HIDE DEF map
<1>5. h \in [D -> Nat]
  <2>1. \A i \in D : map[i].id \in NodeIds
    BY <1>3, RecordNode
  <2> QED
    BY <2>1
<1>6. walked \in Seq(D) /\ \A i \in D : i \in ToSet(walked)
  BY <1>2, WalkedAll
<1>7. leaves \in Seq(D) /\ \A i \in D : Kids(map, map[i].id) = {} => i \in ToSet(leaves)
  BY <1>3, <1>6, LeavesAre
<1> HIDE DEF h, walked, leaves
<1>8. top \in [DOMAIN leaves -> Nat]
  BY <1>5, <1>7, StackedTops
<1> HIDE DEF top
<1>9. /\ placed \in [D -> Card]
      /\ \A i, j \in D : Par(map, j) = i => placed[j].column = placed[i].column + 1
  <2>1. LeavesStacked(map, h, leaves, top)
    BY <1>5, <1>7, <1>8 DEF LeavesStacked
  <2> HIDE DEF placed
  <2>2. ColumnByColumn(map, placed)
    BY <1>2, <2>1, CentredCards DEF placed
  <2> QED
    BY <2>2 DEF ColumnByColumn
<1> HIDE DEF placed
<1>10. /\ at \in [1..n -> Card] /\ \A i \in 1..n : at[i].column = placed[i].column
       /\ \A i, j \in 1..n : i # j /\ placed[i].column = placed[j].column =>
            \/ at[i].y + at[i].h + RowGap <= at[j].y
            \/ at[j].y + at[j].h + RowGap <= at[i].y
  <2>1. placed \in [1..n -> Card] /\ walked \in Seq(D) /\ \A i \in 1..n : i \in ToSet(walked)
    BY <1>3, <1>6, <1>9
  <2> QED
    BY <1>3, <2>1, ApartInColumns
<1> HIDE DEF at
<1>11. \A i, j \in D : map[j].parent = map[i].id <=> Par(map, j) = i
  BY <1>2, ForestParents
<1>12. MapIsReadable(map, at)
  BY <1>3, <1>9, <1>10, <1>11 DEF MapIsReadable
<1>13. Layout(map, h) = at
  BY DEF Layout, LaidOut, Placed, at, placed, top, leaves, walked
<1> QED
  BY <1>4, <1>12, <1>13 DEF CardsApart, MapDrawn, map, h

\* Nothing is asked of a record but what one of any age keeps.
LEMMA ReadableReadsWhole ==
  ASSUME nodes \in Records, Readable(nodes)
  PROVE  RecordReadsWhole
BY PageHoldsAll, PageInOrder, AgentToldAll, MapAlwaysReadable, SpineAssumption DEF RecordReadsWhole

\* RecordNext asks nothing of a record but that it is readable, and leaves it so.
AnyAgeInv == nodes \in Records /\ Readable(nodes) /\ clock \in 0..MaxTime

LEMMA AnyAgeInvInit == AnyAge => AnyAgeInv
BY MaxTimeAssumption DEF AnyAge, AnyAgeInv

LEMMA AnyAgeInvNext == AnyAgeInv /\ [RecordNext]_record => AnyAgeInv'
<1> SUFFICES ASSUME AnyAgeInv, [RecordNext]_record PROVE AnyAgeInv'
  OBVIOUS
<1> USE DEF AnyAgeInv
<1>1. ASSUME NEW batch \in Batches, Propose(batch) PROVE AnyAgeInv'
  <2>1. batch \in Seq(Proposal) /\ clock \in Nat
    BY BatchesAssumption, MaxTimeAssumption
  <2>2. nodes' \in Records
    BY <1>1, <2>1, ProposedType DEF Propose
  <2>3. Readable(nodes')
    BY <1>1, <2>1, ProposeKeepsReadable DEF Propose
  <2> QED
    BY <1>1, <2>2, <2>3 DEF Propose
<1>2. ASSUME NEW o \in DOMAIN nodes, NEW q \in DOMAIN nodes, Choose(o, q) PROVE AnyAgeInv'
  <2>1. nodes' \in Records
    BY <1>2, ChosenType DEF Choose
  <2>2. Readable(nodes')
    BY <1>2, ChooseKeepsReadable DEF Choose
  <2> QED
    BY <1>2, <2>1, <2>2 DEF Choose
<1>3. CASE \E w \in BOOLEAN : SetSpec(w)
  BY <1>3 DEF SetSpec
<1>4. CASE RecordTick
  BY <1>4, MaxTimeAssumption DEF RecordTick
<1>5. CASE UNCHANGED record
  BY <1>5 DEF record
<1> QED
  BY <1>1, <1>2, <1>3, <1>4, <1>5 DEF RecordNext

\* Whatever record today's services start from, as long as its ids are apart, its
\* parents come earlier and its answers are candidates, all that can be read of it is
\* read once and in order: down the page, on the map whatever the heights of the cards,
\* and by the agent (canvas.py:150-262, detail.py:29-82, state.py:149-194).
THEOREM RecordAlwaysReadsWhole == AnyAgeSpec => []RecordReadsWhole
<1>1. AnyAgeInv => RecordReadsWhole
  BY ReadableReadsWhole DEF AnyAgeInv
<1> QED
  BY <1>1, AnyAgeInvInit, AnyAgeInvNext, PTL DEF AnyAgeSpec

-----------------------------------------------------------------------------
(***************************************************************************)
(* The requests.                                                           *)
(***************************************************************************)
\* A well-formed copy is what makes the next saved record well-formed.
Inv == TypeOK /\ RecordNeverTorn

LEMMA InvInit == Init => Inv
<1> SUFFICES ASSUME Init PROVE Inv
  OBVIOUS
<1>1. DOMAIN watch = {} /\ minted = {}
  BY DEF Init, RecordInit
<1>2. TypeOK
  <2>1. /\ \A t \in DOMAIN watch : watch[t] \in WatchRow
        /\ minted \subseteq Tokens /\ DOMAIN watch \subseteq minted
    BY <1>1
  <2>2. nodes \in Records /\ written \in BOOLEAN /\ clock \in 0..MaxTime
    <3>1. nodes = << >> /\ written \in BOOLEAN /\ clock = 0
      BY DEF Init, RecordInit
    <3>2. nodes \in Records
      BY <3>1, EmptyWellFormed
    <3>3. clock \in 0..MaxTime
      BY <3>1, MaxTimeAssumption
    <3> QED
      BY <3>1, <3>2, <3>3
  <2>3. copy \in [Requests -> Records]
    BY EmptyWellFormed DEF Init, RecordInit
  <2> QED
    BY <2>1, <2>2, <2>3 DEF Init, RecordInit, TypeOK, RecordTypeOK
<1> QED
  BY <1>2, EmptyWellFormed DEF Init, RecordInit, Inv, RecordNeverTorn

LEMMA AnsweredRow ==
  ASSUME NEW w \in WatchRow, NEW c \in NodeIds, NEW e \in Nat
  PROVE  [w EXCEPT !.choice = c, !.expires = e] \in WatchRow
BY DEF WatchRow

\* The requests a save does not concern keep their copies.
LEMMA FinishKeepsInv ==
  ASSUME Inv, NEW r \in Requests, Finish(r)
  PROVE  /\ pc' \in [Requests -> {"idle", "loaded", "opening"}]
         /\ copy' \in [Requests -> Records]
         /\ copyWritten' \in [Requests -> BOOLEAN]
         /\ opening' \in [Requests -> NodeIds \cup {NoNode}]
         /\ overlapped' \in BOOLEAN
         /\ \A s \in Requests : WellFormed(copy'[s])
BY EmptyWellFormed DEF Inv, TypeOK, RecordTypeOK, RecordNeverTorn, Finish

LEMMA InvNext == Inv /\ [Next]_vars => Inv'
<1> SUFFICES ASSUME Inv, [Next]_vars PROVE Inv'
  OBVIOUS
<1>0. TypeOK /\ RecordNeverTorn /\ clock \in Nat
  BY MaxTimeAssumption DEF Inv, TypeOK, RecordTypeOK
<1>1. ASSUME NEW r \in Requests, Load(r) PROVE Inv'
  BY <1>0, <1>1 DEF Load, Inv, TypeOK, RecordTypeOK, RecordNeverTorn
<1>2. ASSUME NEW r \in Requests, SaveOther(r) PROVE Inv'
  BY <1>0, <1>2, FinishKeepsInv DEF SaveOther, Inv, TypeOK, RecordTypeOK, RecordNeverTorn
<1>3. ASSUME NEW r \in Requests, Abandon(r) PROVE Inv'
  BY <1>0, <1>3, FinishKeepsInv DEF Abandon, Inv, TypeOK, RecordTypeOK, RecordNeverTorn
<1>4. ASSUME NEW r \in Requests, NEW w \in BOOLEAN, SaveSpec(r, w) PROVE Inv'
  <2>1. \A t \in DOMAIN watch' : t \in DOMAIN watch /\ watch'[t] = watch[t]
    BY <1>4 DEF SaveSpec, ClosedWatches
  <2> QED
    BY <1>0, <1>4, <2>1, FinishKeepsInv DEF SaveSpec, Inv, TypeOK, RecordTypeOK, RecordNeverTorn
<1>5. ASSUME NEW r \in Agents, NEW batch \in Batches, SavePropose(r, batch) PROVE Inv'
  <2>1. r \in Requests /\ copy[r] \in Records /\ batch \in Seq(Proposal) /\ WellFormed(copy[r])
    BY <1>0, BatchesAssumption DEF TypeOK, RecordTypeOK, RecordNeverTorn, Requests
  <2>2. nodes' \in Records /\ WellFormed(nodes')
    BY <1>0, <1>5, <2>1, ProposedType, ProposeKeepsWellFormed DEF SavePropose
  <2>3. CASE Finish(r)
    BY <1>0, <1>5, <2>1, <2>2, <2>3, FinishKeepsInv
       DEF SavePropose, Inv, TypeOK, RecordTypeOK, RecordNeverTorn
  <2>4. ASSUME NEW i \in DOMAIN batch, GoOnToOpen(r, batch[i].id) PROVE Inv'
    <3>1. batch[i].id \in NodeIds
      <4>1. batch[i] \in Proposal
        BY <2>1
      <4> QED
        BY <4>1 DEF Proposal
    <3> QED
      BY <1>0, <1>5, <2>1, <2>2, <2>4, <3>1, EmptyWellFormed
         DEF GoOnToOpen, SavePropose, Inv, TypeOK, RecordTypeOK, RecordNeverTorn
  <2> QED
    BY <1>5, <2>3, <2>4 DEF SavePropose
<1>6. ASSUME NEW r \in Agents, NEW t \in Tokens, OpenWatch(r, t) PROVE Inv'
  <2>1. r \in Requests /\ opening[r] \in NodeIds \cup {NoNode}
    BY <1>0 DEF TypeOK, RecordTypeOK, Requests
  <2>2. DOMAIN watch' \subseteq minted' /\ minted' \subseteq Tokens
    BY <1>0, <1>6 DEF OpenWatch, OpenedWatches, TypeOK, RecordTypeOK
  <2>3. \A u \in DOMAIN watch' : watch'[u] \in WatchRow
    BY <1>0, <1>6, <2>1, TimesAssumption DEF OpenWatch, OpenedWatches, TypeOK, RecordTypeOK,
         WatchRow
  <2> QED
    BY <1>0, <1>6, <2>1, <2>2, <2>3, FinishKeepsInv
       DEF OpenWatch, Inv, TypeOK, RecordTypeOK, RecordNeverTorn
<1>7. ASSUME NEW r \in Browsers, NEW o \in DOMAIN copy[r], NEW q \in DOMAIN copy[r],
             SaveChoice(r, o, q)
      PROVE  Inv'
  <2>1. r \in Requests /\ copy[r] \in Records /\ WellFormed(copy[r])
    BY <1>0 DEF TypeOK, RecordTypeOK, RecordNeverTorn, Requests
  <2>2. nodes' \in Records /\ WellFormed(nodes')
    BY <1>7, <2>1, ChosenType, ChooseKeepsWellFormed DEF SaveChoice
  <2>3. copy[r][o].id \in NodeIds
    BY <2>1, RecordNode
  <2>4. DOMAIN watch' = DOMAIN watch /\ \A u \in DOMAIN watch' : watch'[u] \in WatchRow
    <3>1. watch' = AnsweredWatches(watch, copy[r][q].id, copy[r][o].id, clock)
      BY <1>7 DEF SaveChoice
    <3>2. DOMAIN watch' = DOMAIN watch
      BY <3>1 DEF AnsweredWatches
    <3>3. ASSUME NEW u \in DOMAIN watch PROVE watch'[u] \in WatchRow
      <4>1. watch[u] \in WatchRow
        BY <1>0 DEF TypeOK, RecordTypeOK
      <4>2. watch'[u] = watch[u]
            \/ watch'[u] = [watch[u] EXCEPT !.choice = copy[r][o].id,
                                            !.expires = clock + AnswerGrace]
        BY <3>1 DEF AnsweredWatches
      <4>3. clock + AnswerGrace \in Nat
        BY <1>0, TimesAssumption
      <4>4. [watch[u] EXCEPT !.choice = copy[r][o].id, !.expires = clock + AnswerGrace]
              \in WatchRow
        BY <2>3, <4>1, <4>3, AnsweredRow
      <4> QED
        BY <4>1, <4>2, <4>4
    <3> QED
      BY <3>2, <3>3
  <2> QED
    BY <1>0, <1>7, <2>1, <2>2, <2>4, FinishKeepsInv
       DEF SaveChoice, Inv, TypeOK, RecordTypeOK, RecordNeverTorn
<1>8. CASE Tick
  BY <1>0, <1>8, MaxTimeAssumption
     DEF Tick, RecordTick, Inv, TypeOK, RecordTypeOK, RecordNeverTorn, req
<1>9. CASE UNCHANGED vars
  BY <1>0, <1>9 DEF vars, Inv, TypeOK, RecordTypeOK, RecordNeverTorn
<1> QED
  BY <1>1, <1>2, <1>3, <1>4, <1>5, <1>6, <1>7, <1>8, <1>9 DEF Next

\* Every variable keeps its type.
THEOREM TypeCorrect == Spec => []TypeOK
<1>1. Inv => TypeOK
  BY DEF Inv
<1> QED
  BY <1>1, InvInit, InvNext, PTL DEF Spec

\* However the requests of agents and browsers interleave, the stored record
\* and every copy in flight are well-formed: lost updates, never torn ones.
THEOREM RecordIsNeverTorn == Spec => []RecordNeverTorn
<1>1. Inv => RecordNeverTorn
  BY DEF Inv
<1> QED
  BY <1>1, InvInit, InvNext, PTL DEF Spec

-----------------------------------------------------------------------------
\* Until requests overlap, the one in flight holds the row.
CopyIsRow ==
  ~ overlapped =>
    \A r \in Requests :
      pc[r] /= "idle" =>
        /\ \A s \in Requests : pc[s] /= "idle" => s = r
        /\ pc[r] = "loaded" => copy[r] = nodes /\ copyWritten[r] = written

LEMMA CopyIsRowInit == Init => CopyIsRow
BY DEF Init, RecordInit, CopyIsRow

LEMMA CopyIsRowNext == TypeOK /\ CopyIsRow /\ [Next]_vars => CopyIsRow'
<1> SUFFICES ASSUME TypeOK, CopyIsRow, [Next]_vars, ~ overlapped' PROVE CopyIsRow'
  BY DEF CopyIsRow
<1>0. ~ overlapped
  BY DEF Next, vars, req, Load, SaveOther, Abandon, SaveSpec, SavePropose, OpenWatch,
         SaveChoice, Tick, RecordTick, Finish, GoOnToOpen
<1>1. ASSUME NEW r \in Requests, Load(r) PROVE CopyIsRow'
  BY <1>0, <1>1 DEF Load, CopyIsRow, TypeOK, RecordTypeOK
<1>2. ASSUME NEW r \in Requests, pc[r] /= "idle", Finish(r) PROVE CopyIsRow'
  <2>1. \A s \in Requests : pc'[s] = "idle"
    BY <1>0, <1>2 DEF Finish, CopyIsRow, TypeOK, RecordTypeOK
  <2> QED
    BY <2>1 DEF CopyIsRow
<1>3. ASSUME NEW r \in Requests, pc[r] /= "idle", pc' = [pc EXCEPT ![r] = "opening"]
      PROVE  CopyIsRow'
  <2>1. \A s \in Requests : pc'[s] = IF s = r THEN "opening" ELSE "idle"
    BY <1>0, <1>3 DEF CopyIsRow, TypeOK, RecordTypeOK
  <2> QED
    BY <2>1 DEF CopyIsRow
<1>4. CASE \E r \in Requests : Load(r) \/ SaveOther(r) \/ Abandon(r)
  BY <1>1, <1>2, <1>4 DEF SaveOther, Abandon
<1>5. CASE \E r \in Requests, w \in BOOLEAN : SaveSpec(r, w)
  BY <1>2, <1>5 DEF SaveSpec
<1>6. CASE \E r \in Agents, batch \in Batches : SavePropose(r, batch)
  BY <1>2, <1>3, <1>6 DEF SavePropose, GoOnToOpen, Requests
<1>7. CASE \E r \in Agents, t \in Tokens : OpenWatch(r, t)
  BY <1>2, <1>7 DEF OpenWatch, Requests
<1>8. CASE \E r \in Browsers : \E o, q \in DOMAIN copy[r] : SaveChoice(r, o, q)
  BY <1>2, <1>8 DEF SaveChoice, Requests
<1>9. CASE Tick \/ UNCHANGED vars
  BY <1>9 DEF Tick, RecordTick, vars, req, CopyIsRow
<1> QED
  BY <1>4, <1>5, <1>6, <1>7, <1>8, <1>9 DEF Next

\* Until then every save is the promised step from the row.
LEMMA StepRefines ==
  CopyIsRow /\ [Next]_vars /\ ~ overlapped => [RecordNext]_record
<1> SUFFICES ASSUME ~ overlapped, CopyIsRow, [Next]_vars
             PROVE  RecordNext \/ UNCHANGED record
  OBVIOUS
<1>1. ASSUME NEW r \in Requests, pc[r] = "loaded"
      PROVE  copy[r] = nodes /\ copyWritten[r] = written
  BY <1>1 DEF CopyIsRow
<1>2. CASE \E r \in Requests : Load(r) \/ SaveOther(r) \/ Abandon(r)
  BY <1>1, <1>2 DEF Load, SaveOther, Abandon, record
<1>3. CASE \E r \in Requests, w \in BOOLEAN : SaveSpec(r, w)
  BY <1>1, <1>3 DEF SaveSpec, RecordNext, SetSpec
<1>4. CASE \E r \in Agents, batch \in Batches : SavePropose(r, batch)
  <2>1. PICK r \in Agents, batch \in Batches : SavePropose(r, batch)
    BY <1>4
  <2>2. Propose(batch)
    BY <1>1, <2>1 DEF SavePropose, Requests, Propose
  <2> QED
    BY <2>2 DEF RecordNext
<1>5. CASE \E r \in Agents, t \in Tokens : OpenWatch(r, t)
  BY <1>5 DEF OpenWatch, record
<1>6. CASE \E r \in Browsers : \E o, q \in DOMAIN copy[r] : SaveChoice(r, o, q)
  <2>1. PICK r \in Browsers : \E o, q \in DOMAIN copy[r] : SaveChoice(r, o, q)
    BY <1>6
  <2>2. PICK o \in DOMAIN copy[r], q \in DOMAIN copy[r] : SaveChoice(r, o, q)
    BY <2>1
  <2>3. copy[r] = nodes /\ copyWritten[r] = written
    BY <1>1, <2>2 DEF SaveChoice, Requests
  <2>4. Choose(o, q)
    BY <2>2, <2>3 DEF SaveChoice, Choose
  <2> QED
    BY <2>2, <2>3, <2>4 DEF RecordNext
<1>7. CASE Tick
  BY <1>7 DEF Tick, RecordNext
<1>8. CASE UNCHANGED vars
  BY <1>8 DEF vars, record
<1> QED
  BY <1>2, <1>3, <1>4, <1>5, <1>6, <1>7, <1>8 DEF Next

\* Until two requests overlap, the services implement the record as
\* DecisionRecord promises it: what is lost later is lost to the missing lock.
THEOREM RequestsRefine == Spec => ImplementsPromise
<1>1. Init => RecordInit
  BY DEF Init
<1>2. Inv => TypeOK
  BY DEF Inv
<1>3. CopyIsRow /\ [Next]_vars => [~ overlapped => [RecordNext]_record]_vars
  BY StepRefines
<1> QED
  BY <1>1, <1>2, <1>3, InvInit, InvNext, CopyIsRowInit, CopyIsRowNext, PTL
     DEF Spec, ImplementsPromise

-----------------------------------------------------------------------------
(***************************************************************************)
(* The watches.                                                            *)
(***************************************************************************)
LEMMA WaitingIs ==
  ASSUME NEW w, NEW t, NEW now, ReadWatch(w, t, now) = "waiting",
         t \in DOMAIN w => w[t].choice \in NodeIds \cup {NoNode}
  PROVE  Alive(w, t, now) /\ t \in DOMAIN w /\ w[t].choice = NoNode
BY RepliesAssumption DEF ReadWatch, Alive

LEMMA RowsAreRows ==
  ASSUME TypeOK, NEW t \in DOMAIN watch
  PROVE  /\ watch[t] \in WatchRow /\ watch[t].expires \in Nat /\ t \in minted
         /\ watch[t].question \in NodeIds \cup {NoNode}
         /\ watch[t].choice \in NodeIds \cup {NoNode}
BY DEF TypeOK, WatchRow

\* What each statement leaves of a row.
LEMMA OpenedRows ==
  ASSUME TypeOK, NEW r \in Requests, NEW t \in Tokens, t \notin minted,
         watch' = OpenedWatches(watch, t, opening[r], clock)
  PROVE  /\ DOMAIN watch' = {u \in DOMAIN watch : watch[u].expires >= clock} \cup {t}
         /\ watch'[t] = [question |-> opening[r], choice |-> NoNode, expires |-> clock + WatchTTL]
         /\ \A u \in DOMAIN watch' : u # t => u \in DOMAIN watch /\ watch'[u] = watch[u]
         /\ \A u : u # t => ReadWatch(watch', u, clock) = ReadWatch(watch, u, clock)
<1>1. /\ DOMAIN watch' = {u \in DOMAIN watch : watch[u].expires >= clock} \cup {t}
      /\ watch'[t] = [question |-> opening[r], choice |-> NoNode, expires |-> clock + WatchTTL]
      /\ \A u \in DOMAIN watch' : u # t => u \in DOMAIN watch /\ watch'[u] = watch[u]
  BY DEF OpenedWatches
<1>2. ASSUME NEW u, u # t PROVE ReadWatch(watch', u, clock) = ReadWatch(watch, u, clock)
  <2>1. CASE u \in DOMAIN watch
    <3>1. watch[u].expires \in Nat /\ clock \in Nat
      BY <2>1, RowsAreRows, MaxTimeAssumption DEF TypeOK, RecordTypeOK
    <3> QED
      BY <1>1, <1>2, <2>1, <3>1 DEF ReadWatch, Alive
  <2>2. CASE u \notin DOMAIN watch
    BY <1>1, <1>2, <2>2 DEF ReadWatch, Alive
  <2> QED
    BY <2>1, <2>2
<1> QED
  BY <1>1, <1>2

LEMMA AnsweredRows ==
  ASSUME TypeOK, NEW q \in NodeIds, NEW c \in NodeIds,
         watch' = AnsweredWatches(watch, q, c, clock)
  PROVE  /\ DOMAIN watch' = DOMAIN watch
         /\ \A t \in DOMAIN watch : watch'[t].question = watch[t].question
         /\ \A t \in DOMAIN watch :
              IF Answerable(watch, t, q, clock)
              THEN watch'[t].choice = c /\ ReadWatch(watch', t, clock) = c
              ELSE watch'[t] = watch[t] /\ ReadWatch(watch', t, clock) = ReadWatch(watch, t, clock)
<1>1. DOMAIN watch' = DOMAIN watch
  BY DEF AnsweredWatches
<1>2. ASSUME NEW t \in DOMAIN watch, Answerable(watch, t, q, clock)
      PROVE  /\ watch'[t].choice = c /\ watch'[t].question = watch[t].question
             /\ ReadWatch(watch', t, clock) = c
  <2>1. watch'[t] = [watch[t] EXCEPT !.choice = c, !.expires = clock + AnswerGrace]
    BY <1>2 DEF AnsweredWatches
  <2>2. watch[t] \in WatchRow
    BY RowsAreRows
  <2>3. /\ watch'[t].choice = c /\ watch'[t].question = watch[t].question
        /\ watch'[t].expires = clock + AnswerGrace
    BY <2>1, <2>2 DEF WatchRow
  <2>4. clock + AnswerGrace > clock
    BY MaxTimeAssumption, TimesAssumption DEF TypeOK, RecordTypeOK
  <2>5. c # NoNode
    BY NoNodeAssumption
  <2> QED
    BY <1>1, <2>3, <2>4, <2>5 DEF ReadWatch, Alive
<1>3. ASSUME NEW t \in DOMAIN watch, ~Answerable(watch, t, q, clock)
      PROVE  /\ watch'[t] = watch[t]
             /\ ReadWatch(watch', t, clock) = ReadWatch(watch, t, clock)
  BY <1>1, <1>3 DEF AnsweredWatches, ReadWatch, Alive
<1> QED
  BY <1>1, <1>2, <1>3

LEMMA ClosedRows == ASSUME NEW w, NEW now PROVE
  \A t : ReadWatch(ClosedWatches(w), t, now) = "expired"
BY DEF ReadWatch, Alive, ClosedWatches

\* What a choice writes: the ids come from the copy, the click answers its own question.
LEMMA ChoiceWrites ==
  ASSUME Inv, NEW r \in Browsers, NEW o \in DOMAIN copy[r], NEW q \in DOMAIN copy[r],
         SaveChoice(r, o, q)
  PROVE  /\ copy[r][q].id \in NodeIds /\ copy[r][o].id \in NodeIds
         /\ watch' = AnsweredWatches(watch, copy[r][q].id, copy[r][o].id, clock)
         /\ clock' = clock /\ minted' = minted
         /\ o \in DOMAIN nodes' /\ nodes'[o].id = copy[r][o].id
         /\ nodes'[o].kind = "option" /\ nodes'[o].parent = copy[r][q].id
<1>1. r \in Requests /\ copy[r] \in Records
  BY DEF Inv, TypeOK, Requests
<1>2. nodes' = Chosen(copy[r], o, q) /\ Choosable(copy[r], o, q)
  BY DEF SaveChoice
<1>3. /\ o \in DOMAIN nodes' /\ nodes'[o].id = copy[r][o].id
      /\ nodes'[o].kind = copy[r][o].kind /\ nodes'[o].parent = copy[r][o].parent
  BY <1>1, <1>2, ChosenOption
<1>6. copy[r][q].id \in NodeIds /\ copy[r][o].id \in NodeIds
  BY <1>1, RecordNode
<1>7. copy[r][o].kind = "option" /\ copy[r][o].parent = copy[r][q].id
  BY <1>2 DEF Choosable
<1>8. /\ watch' = AnsweredWatches(watch, copy[r][q].id, copy[r][o].id, clock)
      /\ clock' = clock /\ minted' = minted
  BY DEF SaveChoice
<1> QED
  BY <1>3, <1>6, <1>7, <1>8

LEMMA TickAges ==
  ASSUME TypeOK, Tick, NEW t
  PROVE  ReadWatch(watch', t, clock') \in {ReadWatch(watch, t, clock), "expired"}
<1>1. clock \in Nat /\ clock' = clock + 1 /\ watch' = watch
  BY MaxTimeAssumption DEF Tick, RecordTick, TypeOK, RecordTypeOK
<1>2. t \in DOMAIN watch => watch[t].expires \in Nat
  BY RowsAreRows
<1> QED
  BY <1>1, <1>2 DEF ReadWatch, Alive

LEMMA WatchStep ==
  ASSUME Inv, [Next]_vars, NEW t \in minted, ReadWatch(watch, t, clock) # "waiting"
  PROVE  ReadWatch(watch', t, clock') \in {ReadWatch(watch, t, clock), "expired"}
<1>0. TypeOK
  BY DEF Inv
<1>1. CASE UNCHANGED <<watch, clock>>
  BY <1>1 DEF ReadWatch, Alive
<1>2. ASSUME NEW r \in Requests, NEW w \in BOOLEAN, SaveSpec(r, w)
      PROVE  ReadWatch(watch', t, clock') \in {ReadWatch(watch, t, clock), "expired"}
  <2>1. clock' = clock /\ (watch' = ClosedWatches(watch) \/ watch' = watch)
    BY <1>2 DEF SaveSpec
  <2>2. ReadWatch(ClosedWatches(watch), t, clock) = "expired"
    BY ClosedRows
  <2> QED
    BY <1>1, <2>1, <2>2
<1>3. ASSUME NEW r \in Agents, NEW u \in Tokens, OpenWatch(r, u)
      PROVE  ReadWatch(watch', t, clock') \in {ReadWatch(watch, t, clock), "expired"}
  BY <1>0, <1>3, OpenedRows DEF OpenWatch, Requests
<1>4. ASSUME NEW r \in Browsers, NEW o \in DOMAIN copy[r], NEW q \in DOMAIN copy[r],
             SaveChoice(r, o, q)
      PROVE  ReadWatch(watch', t, clock') \in {ReadWatch(watch, t, clock), "expired"}
  <2>1. ~Answerable(watch, t, copy[r][q].id, clock)
    BY DEF Answerable, ReadWatch
  <2>2. CASE t \in DOMAIN watch
    BY <1>0, <1>4, <2>1, <2>2, ChoiceWrites, AnsweredRows
  <2>3. CASE t \notin DOMAIN watch
    BY <1>0, <1>4, <2>3, ChoiceWrites, AnsweredRows DEF ReadWatch, Alive
  <2> QED
    BY <2>2, <2>3
<1>5. CASE Tick
  BY <1>0, <1>5, TickAges
<1>6. CASE \E r \in Requests : Load(r) \/ SaveOther(r) \/ Abandon(r)
  BY <1>1, <1>6 DEF Load, SaveOther, Abandon
<1>7. CASE \E r \in Agents, batch \in Batches : SavePropose(r, batch)
  BY <1>1, <1>7 DEF SavePropose
<1>8. CASE UNCHANGED vars
  BY <1>1, <1>8 DEF vars
<1> QED
  BY <1>2, <1>3, <1>4, <1>5, <1>6, <1>7, <1>8 DEF Next

\* A watch that was answered or has expired is never answered anew, taken back or
\* revived, however clicks, proposals and spec writes interleave (watches.py:58-101).
THEOREM WatchesNeverTurnBack == Spec => WatchNeverTurnsBack
<1>1. Inv /\ [Next]_vars =>
        [\A t \in minted : ReadWatch(watch, t, clock) /= "waiting"
           => ReadWatch(watch', t, clock') \in {ReadWatch(watch, t, clock), "expired"}]_vars
  BY WatchStep
<1> QED
  BY <1>1, InvInit, InvNext, PTL DEF Spec, WatchNeverTurnsBack

\* Every watch asks a question.
EachAsks ==
  /\ \A t \in DOMAIN watch : watch[t].question \in NodeIds
  /\ \A r \in Requests : pc[r] = "opening" => opening[r] \in NodeIds

\* Before anything overlaps: what is being opened is a question of an open record
\* without an answer yet.
OpensUnanswered ==
  ~ overlapped =>
    \A r \in Requests :
      pc[r] = "opening" =>
        /\ ~ written
        /\ \A i \in DOMAIN nodes : nodes[i].id = opening[r] => nodes[i].chosen = NoNode

WatchInv == Inv /\ CopyIsRow /\ EachAsks /\ OpensUnanswered /\ WatchesFollowTheRecord

LEMMA ProposedId ==
  ASSUME NEW ns \in Records, NEW batch \in Seq(Proposal), NEW at \in Nat, NEW i \in DOMAIN batch
  PROVE  \E k \in DOMAIN Proposed(ns, batch, at) :
           /\ Proposed(ns, batch, at)[k].id = batch[i].id
           /\ Proposed(ns, batch, at)[k].chosen = NoNode
<1> DEFINE f == Stamped(batch, at)
<1>1. /\ f \in Seq(Node) /\ Len(f) = Len(batch) /\ Len(batch) \in Nat
      /\ f[i].chosen = NoNode /\ f[i].id = batch[i].id
  BY StampedType DEF Records, Stamped
<1> HIDE DEF f
<1>2. ns \in Seq(Node) /\ Len(ns) \in Nat /\ i \in 1..Len(f)
  BY <1>1 DEF Records
<1>3. /\ Len(ns) + i \in 1..Len(ns \o f)
      /\ (ns \o f)[Len(ns) + i] = f[i]
  BY <1>1, <1>2
<1>4. DOMAIN (ns \o f) = 1..Len(ns \o f)
  BY <1>1, <1>2
<1> QED
  BY <1>1, <1>3, <1>4 DEF Proposed, f

LEMMA WatchInvInit == Init => WatchInv
BY InvInit, CopyIsRowInit
   DEF Init, RecordInit, WatchInv, EachAsks, OpensUnanswered, WatchesFollowTheRecord, Alive,
       ReadWatch

LEMMA EachAsksNext == Inv /\ EachAsks /\ [Next]_vars => EachAsks'
<1> SUFFICES ASSUME Inv, EachAsks, [Next]_vars PROVE EachAsks'
  OBVIOUS
<1>0. TypeOK
  BY DEF Inv
<1>1. ASSUME NEW r \in Requests, Finish(r),
             \A t \in DOMAIN watch' : t \in DOMAIN watch /\ watch'[t].question = watch[t].question
      PROVE  EachAsks'
  BY <1>0, <1>1 DEF Finish, EachAsks, TypeOK
<1>2. CASE \E r \in Requests : Load(r) \/ SaveOther(r) \/ Abandon(r)
  BY <1>0, <1>1, <1>2 DEF Load, SaveOther, Abandon, EachAsks, TypeOK
<1>3. ASSUME NEW r \in Requests, NEW w \in BOOLEAN, SaveSpec(r, w) PROVE EachAsks'
  <2>1. \A t \in DOMAIN watch' : t \in DOMAIN watch /\ watch'[t] = watch[t]
    BY <1>3 DEF SaveSpec, ClosedWatches
  <2> QED
    BY <1>1, <1>3, <2>1 DEF SaveSpec
<1>4. ASSUME NEW r \in Agents, NEW batch \in Batches, SavePropose(r, batch) PROVE EachAsks'
  <2>1. r \in Requests /\ watch' = watch
    BY <1>4 DEF SavePropose, Requests
  <2>2. CASE Finish(r)
    BY <1>1, <2>1, <2>2
  <2>3. ASSUME NEW i \in DOMAIN batch, GoOnToOpen(r, batch[i].id) PROVE EachAsks'
    <3>1. batch \in Seq(Proposal) /\ batch[i] \in Proposal
      BY BatchesAssumption
    <3>2. batch[i].id \in NodeIds
      BY <3>1 DEF Proposal
    <3> QED
      BY <1>0, <2>1, <2>3, <3>2 DEF GoOnToOpen, EachAsks, TypeOK
  <2> QED
    BY <1>4, <2>2, <2>3 DEF SavePropose
<1>5. ASSUME NEW r \in Agents, NEW t \in Tokens, OpenWatch(r, t) PROVE EachAsks'
  <2>1. r \in Requests /\ opening[r] \in NodeIds
    BY <1>5 DEF OpenWatch, EachAsks, Requests
  <2>2. \A u \in DOMAIN watch' : watch'[u].question \in NodeIds
    <3>1. /\ watch'[t] = [question |-> opening[r], choice |-> NoNode,
                          expires |-> clock + WatchTTL]
          /\ \A u \in DOMAIN watch' : u # t => u \in DOMAIN watch /\ watch'[u] = watch[u]
      <4>1. t \notin minted /\ watch' = OpenedWatches(watch, t, opening[r], clock)
        BY <1>5 DEF OpenWatch
      <4> QED
        BY <1>0, <2>1, <4>1, OpenedRows
    <3> QED
      BY <2>1, <3>1 DEF EachAsks
  <2> QED
    BY <1>0, <1>5, <2>1, <2>2 DEF OpenWatch, Finish, EachAsks, TypeOK
<1>6. ASSUME NEW r \in Browsers, NEW o \in DOMAIN copy[r], NEW q \in DOMAIN copy[r],
             SaveChoice(r, o, q)
      PROVE  EachAsks'
  <2>1. DOMAIN watch' = DOMAIN watch
        /\ \A t \in DOMAIN watch : watch'[t].question = watch[t].question
    BY <1>0, <1>6, ChoiceWrites, AnsweredRows
  <2> QED
    BY <1>1, <1>6, <2>1 DEF SaveChoice, Requests
<1>7. CASE Tick \/ UNCHANGED vars
  BY <1>7 DEF Tick, RecordTick, vars, req, EachAsks
<1> QED
  BY <1>2, <1>3, <1>4, <1>5, <1>6, <1>7 DEF Next

\* Before requests overlap, what a request saves is a record that follows from the row.
LEMMA RowIsCopy ==
  ASSUME CopyIsRow, ~ overlapped, NEW r \in Requests, pc[r] = "loaded"
  PROVE  copy[r] = nodes /\ copyWritten[r] = written
         /\ \A s \in Requests : pc[s] # "idle" => s = r
BY DEF CopyIsRow

LEMMA OpensUnansweredNext ==
  WatchInv /\ [Next]_vars => OpensUnanswered'
<1> SUFFICES ASSUME WatchInv, [Next]_vars, ~ overlapped',
                    NEW s \in Requests, pc'[s] = "opening"
             PROVE  /\ ~ written'
                    /\ \A i \in DOMAIN nodes' :
                         nodes'[i].id = opening'[s] => nodes'[i].chosen = NoNode
  BY DEF OpensUnanswered
<1>0. TypeOK /\ Inv /\ CopyIsRow /\ OpensUnanswered
  BY DEF WatchInv, Inv
<1>1. ~ overlapped
  BY DEF Next, vars, req, Load, SaveOther, Abandon, SaveSpec, SavePropose, OpenWatch,
         SaveChoice, Tick, RecordTick, Finish, GoOnToOpen
<1>2. CASE pc[s] = "opening" /\ UNCHANGED <<nodes, written, opening>>
  BY <1>0, <1>1, <1>2 DEF OpensUnanswered
<1>3. ASSUME NEW r \in Requests, pc[r] # "idle", Finish(r) PROVE FALSE
  <2>1. pc'[r] = "idle" /\ pc[s] # "idle"
    BY <1>0, <1>3 DEF Finish, TypeOK
  <2> QED
    BY <1>0, <1>1, <1>3, <2>1 DEF CopyIsRow
<1>4. ASSUME NEW r \in Agents, NEW batch \in Batches, NEW i \in DOMAIN batch,
             SavePropose(r, batch), GoOnToOpen(r, batch[i].id)
      PROVE  /\ ~ written'
             /\ \A k \in DOMAIN nodes' : nodes'[k].id = opening'[s] => nodes'[k].chosen = NoNode
  <2>1. r \in Requests /\ pc[r] = "loaded" /\ ~ copyWritten[r] /\ written' = written
        /\ nodes' = Proposed(copy[r], batch, clock)
    BY <1>4 DEF SavePropose, Requests
  <2>2. ~ written /\ s = r
    <3>1. pc'[s] = IF s = r THEN "opening" ELSE pc[s]
      BY <1>0, <1>4 DEF GoOnToOpen, TypeOK
    <3> QED
      BY <1>0, <1>1, <2>1, <3>1, RowIsCopy
  <2>3. opening'[s] = batch[i].id
    BY <1>0, <1>4, <2>2 DEF GoOnToOpen, TypeOK
  <2>4. /\ batch \in Seq(Proposal) /\ clock \in Nat /\ copy[r] \in Records
        /\ WellFormed(copy[r]) /\ BatchAccepted(copy[r], batch, clock)
    BY <1>0, <1>4, <2>1, BatchesAssumption, MaxTimeAssumption
       DEF TypeOK, RecordTypeOK, Inv, RecordNeverTorn, SavePropose
  <2>5. UniqueIds(nodes')
    BY <2>1, <2>4, ProposeKeepsWellFormed DEF WellFormed
  <2>6. PICK k \in DOMAIN nodes' : nodes'[k].id = batch[i].id /\ nodes'[k].chosen = NoNode
    BY <2>1, <2>4, ProposedId
  <2> QED
    BY <2>1, <2>2, <2>3, <2>5, <2>6 DEF UniqueIds
<1>5. ASSUME NEW r \in Requests, Load(r) PROVE FALSE
  BY <1>0, <1>1, <1>5 DEF Load, TypeOK
<1>6. CASE Tick \/ UNCHANGED vars
  BY <1>2, <1>6 DEF Tick, RecordTick, vars, req
<1>7. CASE \E r \in Requests : SaveOther(r) \/ Abandon(r)
  BY <1>3, <1>7 DEF SaveOther, Abandon
<1>8. CASE \E r \in Requests, w \in BOOLEAN : SaveSpec(r, w)
  BY <1>3, <1>8 DEF SaveSpec
<1>9. CASE \E r \in Agents, batch \in Batches : SavePropose(r, batch)
  BY <1>3, <1>4, <1>9 DEF SavePropose, Requests
<1>10. CASE \E r \in Agents, t \in Tokens : OpenWatch(r, t)
  BY <1>3, <1>10 DEF OpenWatch, Requests
<1>11. CASE \E r \in Browsers : \E o, q \in DOMAIN copy[r] : SaveChoice(r, o, q)
  BY <1>3, <1>11 DEF SaveChoice, Requests
<1> QED
  BY <1>5, <1>6, <1>7, <1>8, <1>9, <1>10, <1>11 DEF Next

\* What one watch owes the record.
Follows(t) ==
  /\ Alive(watch, t, clock) => ~ written
  /\ ReadWatch(watch, t, clock) = "waiting" =>
       \A i \in DOMAIN nodes : nodes[i].id = watch[t].question => nodes[i].chosen = NoNode

\* A row that is still waiting was waiting, and unless it is new it kept its question.
LEMMA OlderWatch ==
  ASSUME NEW t, Follows(t), nodes' = nodes, written' = written,
         Alive(watch', t, clock') =>
           Alive(watch, t, clock) /\ watch'[t] = watch[t]
  PROVE  Follows(t)'
BY DEF Follows, ReadWatch, Alive

LEMMA FollowsNext ==
  ASSUME WatchInv, [Next]_vars, ~ overlapped', NEW t \in Tokens
  PROVE  Follows(t)'
<1>0. TypeOK /\ Inv /\ CopyIsRow /\ OpensUnanswered /\ EachAsks
      /\ nodes \in Records /\ clock \in Nat
  BY MaxTimeAssumption DEF WatchInv, Inv, TypeOK, RecordTypeOK
<1>1. ~ overlapped
  BY DEF Next, vars, req, Load, SaveOther, Abandon, SaveSpec, SavePropose, OpenWatch,
         SaveChoice, Tick, RecordTick, Finish, GoOnToOpen
<1>2. Follows(t)
  BY <1>1 DEF WatchInv, WatchesFollowTheRecord, Follows
<1>3. CASE \E r \in Requests : Load(r) \/ SaveOther(r) \/ Abandon(r)
  <2>1. UNCHANGED <<nodes, written, watch, clock>>
    BY <1>0, <1>1, <1>3, RowIsCopy DEF Load, SaveOther, Abandon
  <2> QED
    BY <1>2, <2>1, OlderWatch DEF Alive
<1>4. ASSUME NEW r \in Requests, NEW w \in BOOLEAN, SaveSpec(r, w) PROVE Follows(t)'
  <2>1. nodes' = nodes /\ written' = w /\ clock' = clock
    BY <1>0, <1>1, <1>4, RowIsCopy DEF SaveSpec
  <2>2. CASE w
    <3>1. ~Alive(watch', t, clock')
      BY <1>4, <2>2 DEF SaveSpec, ClosedWatches, Alive
    <3> QED
      BY <3>1 DEF Follows, ReadWatch
  <2>3. CASE ~w
    <3>1. watch' = watch /\ ~written'
      BY <1>4, <2>1, <2>3 DEF SaveSpec
    <3> QED
      BY <1>2, <2>1, <3>1 DEF Follows, ReadWatch, Alive
  <2> QED
    BY <2>2, <2>3
<1>5. ASSUME NEW r \in Agents, NEW batch \in Batches, SavePropose(r, batch) PROVE Follows(t)'
  <2>1. /\ nodes' = Proposed(nodes, batch, clock)
        /\ UNCHANGED <<written, watch, clock>>
    BY <1>0, <1>1, <1>5, RowIsCopy DEF SavePropose, Requests
  <2>2. /\ nodes' \in Records
        /\ \A i \in 1..Len(nodes) : nodes'[i] = nodes[i]
        /\ \A i \in Len(nodes) + 1 .. Len(nodes') : nodes'[i].chosen = NoNode
    BY <1>0, <2>1, BatchesAssumption, ProposedType
  <2>3. /\ DOMAIN nodes = 1..Len(nodes) /\ DOMAIN nodes' = 1..Len(nodes')
        /\ Len(nodes) \in Nat /\ Len(nodes') \in Nat
    BY <1>0, <2>2 DEF Records
  <2> QED
    BY <1>2, <2>1, <2>2, <2>3 DEF Follows, ReadWatch, Alive
<1>6. ASSUME NEW r \in Agents, NEW u \in Tokens, OpenWatch(r, u) PROVE Follows(t)'
  <2>1. /\ r \in Requests /\ pc[r] = "opening" /\ u \notin minted
        /\ watch' = OpenedWatches(watch, u, opening[r], clock)
        /\ UNCHANGED <<nodes, written, clock>>
    BY <1>6 DEF OpenWatch, Requests
  <2>2. /\ watch'[u] = [question |-> opening[r], choice |-> NoNode, expires |-> clock + WatchTTL]
        /\ \A v \in DOMAIN watch' : v # u => v \in DOMAIN watch /\ watch'[v] = watch[v]
    BY <1>0, <2>1, OpenedRows
  <2>3. CASE t = u
    <3>1. ~ written /\ \A i \in DOMAIN nodes : nodes[i].id = opening[r] => nodes[i].chosen = NoNode
      BY <1>0, <1>1, <2>1 DEF OpensUnanswered
    <3>2. watch'[t].question = opening[r]
      BY <2>2, <2>3
    <3> QED
      BY <2>1, <3>1, <3>2 DEF Follows
  <2>4. CASE t # u
    <3>1. Alive(watch', t, clock') => Alive(watch, t, clock) /\ watch'[t] = watch[t]
      BY <2>1, <2>2, <2>4 DEF Alive
    <3> QED
      BY <1>2, <2>1, <3>1, OlderWatch
  <2> QED
    BY <2>3, <2>4
<1>7. ASSUME NEW r \in Browsers, NEW o \in DOMAIN copy[r], NEW q \in DOMAIN copy[r],
             SaveChoice(r, o, q)
      PROVE  Follows(t)'
  <2>1. /\ copy[r] = nodes /\ ~ written /\ written' = written /\ clock' = clock
        /\ nodes' = Chosen(nodes, o, q)
    BY <1>0, <1>1, <1>7, RowIsCopy DEF SaveChoice, Requests
  <2>2. /\ nodes[q].id \in NodeIds /\ nodes[o].id \in NodeIds
        /\ watch' = AnsweredWatches(watch, nodes[q].id, nodes[o].id, clock)
    BY <1>0, <1>7, <2>1, ChoiceWrites
  <2>3. ASSUME ReadWatch(watch', t, clock') = "waiting", NEW i \in DOMAIN nodes',
               nodes'[i].id = watch'[t].question
        PROVE  nodes'[i].chosen = NoNode
    <3>1. t \in DOMAIN watch
      BY <2>2, <2>3, RepliesAssumption DEF ReadWatch, Alive, AnsweredWatches
    <3>2. ~Answerable(watch, t, nodes[q].id, clock)
      BY <1>0, <2>1, <2>2, <2>3, <3>1, AnsweredRows, RepliesAssumption
    <3>3. watch'[t] = watch[t] /\ ReadWatch(watch, t, clock) = "waiting"
      BY <1>0, <2>1, <2>2, <2>3, <3>1, <3>2, AnsweredRows
    <3>4. watch[t].question # nodes[q].id
      <4>1. Alive(watch, t, clock) /\ watch[t].choice = NoNode
        BY <1>0, <3>1, <3>3, RowsAreRows, WaitingIs
      <4> QED
        BY <3>2, <4>1 DEF Answerable
    <3>5. i \in DOMAIN nodes /\ nodes'[i].id = nodes[i].id
      <4>1. q \in DOMAIN nodes /\ o \in DOMAIN nodes /\ DOMAIN Chosen(nodes, o, q) = DOMAIN nodes
        <5>1. q \in DOMAIN nodes /\ o \in DOMAIN nodes
          BY <2>1
        <5> QED
          BY <1>0, <5>1, ChosenType
      <4>2. i \in DOMAIN nodes
        BY <2>1, <2>3, <4>1
      <4> QED
        BY <1>0, <2>1, <4>1, <4>2, ChosenKeepsIds
    <3>6. i # q /\ nodes[i].id = watch[t].question
      BY <2>3, <3>3, <3>4, <3>5
    <3>7. nodes'[i] = nodes[i]
      BY <1>0, <2>1, <3>5, <3>6, ChosenElsewhere
    <3> QED
      BY <1>2, <3>3, <3>5, <3>6, <3>7 DEF Follows
  <2> QED
    BY <2>1, <2>3 DEF Follows
<1>8. CASE Tick
  <2>1. UNCHANGED <<nodes, written, watch>> /\ clock' = clock + 1
    BY <1>8 DEF Tick, RecordTick
  <2>2. Alive(watch', t, clock') => Alive(watch, t, clock)
    BY <1>0, <2>1, RowsAreRows DEF Alive
  <2> QED
    BY <1>2, <2>1, <2>2, OlderWatch
<1>9. CASE UNCHANGED vars
  BY <1>2, <1>9, OlderWatch DEF vars, Alive
<1> QED
  BY <1>3, <1>4, <1>5, <1>6, <1>7, <1>8, <1>9 DEF Next

LEMMA WatchInvNext == WatchInv /\ [Next]_vars => WatchInv'
<1> SUFFICES ASSUME WatchInv, [Next]_vars PROVE WatchInv'
  OBVIOUS
<1>1. Inv' /\ CopyIsRow' /\ EachAsks' /\ OpensUnanswered'
  BY InvNext, CopyIsRowNext, EachAsksNext, OpensUnansweredNext DEF WatchInv, Inv
<1>2. WatchesFollowTheRecord'
  BY FollowsNext DEF WatchesFollowTheRecord, Follows
<1> QED
  BY <1>1, <1>2 DEF WatchInv

\* Until two requests overlap, a slice with a spec has no live watch, and a watch only
\* says "waiting" while its question has no answer (watches.py:32-101, server.py:571-641).
THEOREM WatchesFollow == Spec => []WatchesFollowTheRecord
<1>1. WatchInv => WatchesFollowTheRecord
  BY DEF WatchInv
<1> QED
  BY <1>1, WatchInvInit, WatchInvNext, PTL DEF Spec

LEMMA ClickStep ==
  ASSUME Inv, EachAsks, [Next]_vars, NEW t \in DOMAIN watch,
         ReadWatch(watch, t, clock) = "waiting", ReadWatch(watch', t, clock') \in NodeIds
  PROVE  /\ \E i \in DOMAIN nodes' : /\ nodes'[i].id = watch'[t].choice
                                    /\ nodes'[i].kind = "option"
                                    /\ nodes'[i].parent = watch[t].question
         /\ \A u \in DOMAIN watch :
              (ReadWatch(watch, u, clock) = "waiting" /\ watch[u].question = watch[t].question)
                => ReadWatch(watch', u, clock') = watch'[t].choice
<1>0. TypeOK /\ \A u \in DOMAIN watch : u \in minted /\ watch[u].question \in NodeIds
  BY RowsAreRows DEF Inv, EachAsks
<1>1. "waiting" \notin NodeIds /\ "expired" \notin NodeIds
  BY RepliesAssumption
<1>2. ASSUME UNCHANGED <<watch, clock>> PROVE FALSE
  BY <1>1, <1>2 DEF ReadWatch, Alive
<1>3. ASSUME NEW r \in Requests, NEW w \in BOOLEAN, SaveSpec(r, w) PROVE FALSE
  <2>1. clock' = clock /\ (watch' = ClosedWatches(watch) \/ watch' = watch)
    BY <1>3 DEF SaveSpec
  <2>2. ReadWatch(ClosedWatches(watch), t, clock) = "expired"
    BY ClosedRows
  <2> QED
    BY <1>1, <1>2, <2>1, <2>2
<1>4. ASSUME NEW r \in Agents, NEW u \in Tokens, OpenWatch(r, u) PROVE FALSE
  <2>1. r \in Requests /\ u \notin minted /\ watch' = OpenedWatches(watch, u, opening[r], clock)
        /\ clock' = clock
    BY <1>4 DEF OpenWatch, Requests
  <2>2. ReadWatch(watch', t, clock) = ReadWatch(watch, t, clock)
    BY <1>0, <2>1, OpenedRows
  <2> QED
    BY <1>1, <2>1, <2>2
<1>5. ASSUME Tick PROVE FALSE
  BY <1>0, <1>1, <1>5, TickAges
<1>6. CASE \/ \E r \in Requests : Load(r) \/ SaveOther(r) \/ Abandon(r)
           \/ \E r \in Agents, batch \in Batches : SavePropose(r, batch)
           \/ UNCHANGED vars
  BY <1>2, <1>6 DEF Load, SaveOther, Abandon, SavePropose, vars
<1>7. CASE \E r \in Browsers : \E o, q \in DOMAIN copy[r] : SaveChoice(r, o, q)
  <2>1. PICK r \in Browsers : \E o, q \in DOMAIN copy[r] : SaveChoice(r, o, q)
    BY <1>7
  <2>2. PICK o \in DOMAIN copy[r], q \in DOMAIN copy[r] : SaveChoice(r, o, q)
    BY <2>1
  <2> DEFINE qid == copy[r][q].id
             oid == copy[r][o].id
  <2>3. /\ qid \in NodeIds /\ oid \in NodeIds
        /\ watch' = AnsweredWatches(watch, qid, oid, clock) /\ clock' = clock
        /\ o \in DOMAIN nodes' /\ nodes'[o].id = oid
        /\ nodes'[o].kind = "option" /\ nodes'[o].parent = qid
    BY <2>2, ChoiceWrites
  <2> HIDE DEF qid, oid
  <2>4. Answerable(watch, t, qid, clock)
    BY <1>0, <1>1, <2>3, AnsweredRows
  <2>5. watch'[t].choice = oid /\ watch[t].question = qid
    BY <1>0, <2>3, <2>4, AnsweredRows, NoNodeAssumption DEF Answerable
  <2>6. ASSUME NEW u \in DOMAIN watch, ReadWatch(watch, u, clock) = "waiting",
               watch[u].question = watch[t].question
        PROVE  ReadWatch(watch', u, clock') = watch'[t].choice
    <3>1. Alive(watch, u, clock) /\ watch[u].choice = NoNode
      BY <1>0, <2>6, RowsAreRows, WaitingIs
    <3>2. Answerable(watch, u, qid, clock)
      BY <2>5, <2>6, <3>1 DEF Answerable
    <3> QED
      BY <1>0, <2>3, <2>5, <3>2, AnsweredRows
  <2> QED
    BY <2>3, <2>5, <2>6
<1> QED
  BY <1>3, <1>4, <1>5, <1>6, <1>7 DEF Next

\* A watch is only ever answered with an option of its own question, and one click
\* answers every watch that waits on it, however requests interleave (watches.py:75-96).
THEOREM ClicksReachTheirWatches == Spec => ClickReachesItsWatches
<1>1. Inv /\ EachAsks /\ [Next]_vars =>
        [\A t \in DOMAIN watch :
           (ReadWatch(watch, t, clock) = "waiting" /\ ReadWatch(watch', t, clock') \in NodeIds) =>
             /\ \E i \in DOMAIN nodes' : /\ nodes'[i].id = watch'[t].choice
                                        /\ nodes'[i].kind = "option"
                                        /\ nodes'[i].parent = watch[t].question
             /\ \A u \in DOMAIN watch :
                  (ReadWatch(watch, u, clock) = "waiting" /\ watch[u].question = watch[t].question)
                    => ReadWatch(watch', u, clock') = watch'[t].choice]_vars
  BY ClickStep
<1>2. Init => Inv /\ EachAsks
  BY WatchInvInit DEF WatchInv
<1> QED
  BY <1>1, <1>2, InvNext, EachAsksNext, PTL DEF Spec, ClickReachesItsWatches

=============================================================================
