---------------------------- MODULE MCLearnQueue ----------------------------
(***************************************************************************)
(* A small instance of LearnQueue for TLC: two recommendations of the        *)
(* all-runs view on one metric of pxx's, and what may be raised about the    *)
(* first of them once adopted.                                               *)
(***************************************************************************)
EXTENDS LearnQueue, TLC

CONSTANTS k1, k2, e1, p1, p2, t1, m1

MCKeys == {k1, k2, e1}
MCAdoptionOf == [k \in {e1} |-> k1]
MCMetricOf == [k \in MCKeys |-> m1]
MCSourceOf == [m \in {m1} |-> "pxx"]
MCViewOf == [k \in MCKeys |-> "all-runs"]

Found(a, b, e) == [k \in MCKeys |-> CASE k = k1 -> a [] k = k2 -> b [] k = e1 -> e]

\* Both at first, then the first at twice the weight, with the verdict on it.
MCFindings == {Found(1, 1, 0), Found(2, 0, 1)}
MCReadSets == {{"pxx"}, {}}

MCSwapPasses == Permutations({p1, p2})

=============================================================================
