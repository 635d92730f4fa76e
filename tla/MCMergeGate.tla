---------------------------- MODULE MCMergeGate ----------------------------
(***************************************************************************)
(* Small instances of MergeGate for TLC: every process works in a clone of  *)
(* its own, and the two gates may be exchanged along with their clones.     *)
(***************************************************************************)
EXTENDS MergeGate

CONSTANTS g1, g2, r1, r2, c1, c2, c3, c4, t1, s1, s2, s3

MCOwnClones ==
  [a \in Actors |-> CASE a = g1 -> c1 [] a = g2 -> c2 [] a = r1 -> c3 [] a = r2 -> c4]
MCAdmitted == <<t1>>

MCClasses ==
  [s \in Shas |-> CASE s = s1 -> "plain" [] s = s2 -> "exec-surface" [] s = s3 -> "control-plane"]

MCSwapGates ==
  {p \in Permutations({g1, g2, c1, c2}) :
     \A i \in {g1, g2} : p[i] \in {g1, g2} /\ (p[i] = i <=> p[CloneOf[i]] = CloneOf[i])}

=============================================================================
