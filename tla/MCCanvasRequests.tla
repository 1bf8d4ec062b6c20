-------------------------- MODULE MCCanvasRequests --------------------------
(* A design conversation of one question with two candidates, the second    *)
(* one found later, and a follow-up question that hangs either off the        *)
(* winner or off the first question; each is sent as one batch.             *)
EXTENDS CanvasRequests

CONSTANTS q1, q2, o1, o2

MCIds == {q1, q2, o1, o2}

N(id, parent, kind) == [id |-> id, parent |-> parent, kind |-> kind]

MCBatches ==
  { <<N(q1, NoNode, "question"), N(o1, q1, "option")>>,
    <<N(o2, q1, "option")>>,
    <<N(q2, o1, "question")>>,
    <<N(q2, q1, "question"), N(o2, q2, "option")>> }

=============================================================================
