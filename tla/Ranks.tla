------------------------------- MODULE Ranks -------------------------------
(***************************************************************************)
(* Where a row stands among its siblings: ranking.py and ranking_helpers.  *)
(* The keys of the fractional_indexing library are integers here, Scale to *)
(* each step of the key's integer part; it is deterministic, so that two   *)
(* callers who see the same neighbours get the same key.                   *)
(***************************************************************************)
EXTENDS Integers, FiniteSetsExt

CONSTANTS
  Scale,      \* room between two whole keys
  MaxWhole,   \* bound on the whole keys, in both directions
  None        \* an open end, an argument left out

ASSUME RanksAssumption == Scale \in Nat \ {0} /\ MaxWhole \in Nat /\ None \notin Int

Keys == (-MaxWhole * Scale)..((MaxWhole + 1) * Scale - 1)

Whole(key) == (key \div Scale) * Scale

\* None when the model has no room left.
Halfway(a, b) == IF b - a > 1 THEN (a + b) \div 2 ELSE None

\* generate_key_between(a, b), which refuses a >= b.
RankBetween(a, b) ==
  CASE a = None /\ b = None -> 0
    [] a = None /\ b # None -> IF Whole(b) < b THEN Whole(b) ELSE b - Scale
    [] a # None /\ b = None -> Whole(a) + Scale
    [] OTHER -> IF Whole(a) + Scale < b THEN Whole(a) + Scale
                ELSE Halfway(a, IF Whole(a) = Whole(b) THEN b ELSE Whole(a) + Scale)

\* .order_by("rank").first() and .order_by("-rank").first().
Lowest(keys) == IF keys = {} THEN None ELSE Min(keys)
Highest(keys) == IF keys = {} THEN None ELSE Max(keys)

\* Mutant: the minus of order_by("-rank") is lost.
RankFor_Ascending(keys, before, after) ==
  IF after # None THEN RankBetween(after, Lowest({k \in keys : k > after}))
  ELSE IF before # None THEN RankBetween(Lowest({k \in keys : k < before}), before)
  ELSE RankBetween(Lowest(keys), None)

\* rank_for: behind `after`, else in front of `before`, else at the end.
RankFor(keys, before, after) ==
  IF after # None THEN RankBetween(after, Lowest({k \in keys : k > after}))
  ELSE IF before # None THEN RankBetween(Highest({k \in keys : k < before}), before)
  ELSE RankBetween(Highest(keys), None)

\* Bounds the keys.
Fits(key) == key # None /\ key \in Keys
=============================================================================
