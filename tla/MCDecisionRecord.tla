-------------------------- MODULE MCDecisionRecord --------------------------
(* One question with two candidates, a follow-up question and a note: five  *)
(* ids, sent one at a time or as a question together with its two options.  *)
(* A record begins empty, or with up to four nodes written before the rule  *)
(* about parents: unstamped, each under any earlier one.                    *)
EXTENDS CanvasSpine

CONSTANTS q1, q2, o1, o2, n1

MCIds == {q1, q2, o1, o2, n1}

\* A caller's id tells its kind, but any parent may be tried.
KindOf(id) == IF id \in {q1, q2} THEN "question" ELSE IF id \in {o1, o2} THEN "option" ELSE "note"

MCSingles == {<<[id |-> i, parent |-> p, kind |-> KindOf(i)]>> :
                i \in MCIds, p \in MCIds \cup {NoNode}}

MCBatches == {<< >>} \cup MCSingles
  \cup {<<[id |-> q1, parent |-> p, kind |-> "question"],
          [id |-> o1, parent |-> q1, kind |-> "option"],
          [id |-> o2, parent |-> r, kind |-> "option"]>> : p \in MCIds \cup {NoNode}, r \in {q1, o1, n1}}

\* Trees of n nodes, a node being its id and its parent's place (0: the root).
Shapes(n) == {f \in [1..n -> 0..(n - 1)] : \A i \in 1..n : f[i] < i /\ (f[i] = 0 <=> i = 1)}
IdSeqs(n) == {f \in [1..n -> MCIds] : IsInjective(f)}
Answers(ids, shape, i) ==
  {NoNode} \cup {ids[o] : o \in {k \in DOMAIN ids : KindOf(ids[i]) = "question"
                                                    /\ shape[k] = i /\ KindOf(ids[k]) = "option"}}

Legacy(n) ==
  {[i \in 1..n |-> [id |-> ids[i], kind |-> KindOf(ids[i]), at |-> 0, chosen |-> answer[i],
                    parent |-> IF shape[i] = 0 THEN NoNode ELSE ids[shape[i]]]] :
     <<ids, shape, answer>> \in
       UNION {{<<f, g, a>> : a \in {b \in [1..n -> MCIds \cup {NoNode}] :
                                      \A i \in 1..n : b[i] \in Answers(f, g, i)}} :
              <<f, g>> \in IdSeqs(n) \X Shapes(n)}}

LegacyInit ==
  /\ \E n \in 1..4 : nodes \in Legacy(n)
  /\ written \in BOOLEAN /\ clock = 0

MCSpec == (RecordInit \/ LegacyInit) /\ [][RecordNext]_record

\* Every card is short, or a question's is tall, or an option's.
MCHeights ==
  {[i \in MCIds |-> IF i = tall THEN 64 ELSE 16] : tall \in {NoNode, q1, o2}}

=============================================================================
