----------------------------- MODULE TokenBucket ----------------------------
(***************************************************************************)
(* What the rate limiter promises for each key (an agent connection or an  *)
(* org): a credit that fills at a fixed rate up to its burst and that every *)
(* served call lowers by one token.  Credit is counted in parts of a token *)
(* so that a rate may be a fraction of a token per tick.  A measuring      *)
(* window may be opened at any time: `spent` is what each key has spent    *)
(* since.  Throttle shows that the lazily refilled, swept dict of          *)
(* services/ratelimit.py keeps exactly this promise.                       *)
(***************************************************************************)
EXTENDS Integers

CONSTANTS
  Keys,     \* what has a bucket
  Burst,    \* per key: the parts of a full bucket
  Rate,     \* per key: the parts gained in one tick
  Cost,     \* the parts of one token
  MaxTime   \* bound on the clock

VARIABLES
  credit,   \* per key: parts available now
  now,
  from,     \* when the measuring window was opened
  spent     \* per key: parts spent since then

vars == <<credit, now, from, spent>>

TypeOK == /\ credit \in [Keys -> Nat]
          /\ \A k \in Keys : credit[k] <= Burst[k]
          /\ now \in Nat /\ from \in 0..now
          /\ spent \in [Keys -> Nat]

Init == /\ credit = Burst
        /\ now = 0 /\ from = 0
        /\ spent = [k \in Keys |-> 0]

Lesser(a, b) == IF a <= b THEN a ELSE b

\* Calls that spend one token of every key of S.
Spend(S) ==
  /\ \A k \in S : credit[k] >= Cost
  /\ credit' = [k \in Keys |-> IF k \in S THEN credit[k] - Cost ELSE credit[k]]
  /\ spent' = [k \in Keys |-> IF k \in S THEN spent[k] + Cost ELSE spent[k]]
  /\ UNCHANGED <<now, from>>

Tick == /\ now < MaxTime
        /\ now' = now + 1
        /\ credit' = [k \in Keys |-> Lesser(Burst[k], credit[k] + Rate[k])]
        /\ UNCHANGED <<from, spent>>

OpenWindow == /\ from' = now
              /\ spent' = [k \in Keys |-> 0]
              /\ UNCHANGED <<credit, now>>

Next == (\E S \in SUBSET Keys : Spend(S)) \/ Tick \/ OpenWindow

Spec == Init /\ [][Next]_vars

\* However calls are spread, no window of any length lets a key spend more
\* than one burst and what was refilled during the window.
WindowBound == \A k \in Keys : spent[k] <= Burst[k] + Rate[k] * (now - from)

=============================================================================
