--------------------------- MODULE MCSharedLedger ---------------------------
(***************************************************************************)
(* A small instance of SharedLedger for TLC: two writers, each in a clone   *)
(* of its own and with a task of its own to merge.                          *)
(***************************************************************************)
EXTENDS SharedLedger

CONSTANTS w1, w2, c1, c2, t1, t2

MCWriters == {w1, w2}
MCClones == {c1, c2}
MCTasks == {t1, t2}

MCOwnClones == (w1 :> c1) @@ (w2 :> c2)
MCOwnTasks == (w1 :> {t1}) @@ (w2 :> {t2})

\* The two writers are alike, each with its clone and its task.
MCSwapWriters ==
  {p \in Permutations({w1, w2, c1, c2, t1, t2}) :
     <<p[w1], p[c1], p[t1]>> \in {<<w1, c1, t1>>, <<w2, c2, t2>>}
     /\ <<p[w2], p[c2], p[t2]>> \in {<<w1, c1, t1>>, <<w2, c2, t2>>}}

=============================================================================
