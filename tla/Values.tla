-------------------------------- MODULE Values --------------------------------
(***************************************************************************)
(* What the learner and configuration modules share: the two values that   *)
(* are no values, and the helpers of _glue_util.py and of the records.     *)
(***************************************************************************)
EXTENDS Integers, Sequences, FiniteSets

CONSTANTS Null,  \* Python's None, and an absent key
          Bad    \* a value of a wrong kind, or a number that is not finite

ASSUME NullAssumption == Null \notin Int /\ Bad \notin Int

Present(v) == v # Null /\ v # Bad

\* A dictionary restricted by its keys.
Where(d, Keep(_)) == [k \in {x \in DOMAIN d : Keep(x)} |-> d[k]]

Between(lo, v, hi) == IF v < lo THEN lo ELSE IF v > hi THEN hi ELSE v

\* The n largest dates of a set.
Newest(dates, n) == {d \in dates : Cardinality({e \in dates : e > d}) < n}

\* A dated ring cut to its newest keys.
Trimmed(ring, n) == Where(ring, LAMBDA d : d \in Newest(DOMAIN ring, n))

LastFew(s, n) == IF Len(s) <= n THEN s ELSE SubSeq(s, Len(s) - n + 1, Len(s))

\* A finite set of numbers in their order, and what a list holds at some places.
Sorted(S) == [k \in 1..Cardinality(S) |-> CHOOSE x \in S : Cardinality({y \in S : y <= x}) = k]
Picked(s, places) ==
    LET order == Sorted(places) IN [k \in 1..Cardinality(places) |-> s[order[k]]]

IsList(s) == s \in Seq({s[i] : i \in DOMAIN s})

\* What a dictionary holds at a key it may lack.
Get(d, k, otherwise) == IF k \in DOMAIN d THEN d[k] ELSE otherwise
=============================================================================
