----------------------------- MODULE MCSignals ------------------------------
EXTENDS Signals, TLC

\* Three items, the third fetched a day earlier than the first; what is like
\* one is a little like its neighbour.
Ages == [i \in Items |-> IF i = 3 THEN -1 ELSE 0]
Sources == [i \in Items |-> IF i = 2 THEN 2 ELSE 1]
OneTopic == [t \in Topics |-> 2]
Near(i, j) == IF i = j THEN 9 ELSE IF i + j = 5 THEN 4 ELSE 1
Cosines == [i \in Items |->
              [x \in Topics \cup Items |-> IF x \in Topics THEN 10 - 2 * i ELSE Near(i, x)]]
Weights == <<5, 4>>
(* popular_unmatched offers the lowest 40% of a pool by score, ties with   *)
(* the last one included and no more: never none of a pool that has some,  *)
(* and never the best match of a larger one.                               *)
ASSUME PercentileIsOfTheLowest ==
  \A n \in 1..6 : \A values \in [1..n -> 0..3] :
    LET cutoff == Percentile(values)
        upTo(v) == Cardinality({m \in 1..n : values[m] <= v})
    IN /\ cutoff \in ToSet(values)
       /\ 5 * upTo(cutoff) >= 2 * n
       /\ 5 * upTo(cutoff - 1) < 2 * n

AnyTab == Permutations(Tabs)
=============================================================================
