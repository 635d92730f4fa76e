--------------------------- MODULE MCDecisionStore ---------------------------
(***************************************************************************)
(* Small instances of DecisionStore for TLC: one recommendation, its         *)
(* adoption and its forward record, and the transactions of cmd_learn.py.    *)
(***************************************************************************)
EXTENDS DecisionStore

CONSTANTS p1, p2

MCRecords == {"r", "a", "f"}
MCKindOf == [r \in MCRecords |-> CASE r = "r" -> "rec" [] r = "a" -> "adoption" [] r = "f" -> "forward"]

Tx(writes, audited, skip) == [writes |-> writes, audited |-> audited, skip |-> skip]

\* accept or retire; reject; link; a pass; the intent to forward.
MCShapes ==
  {Tx({"r", "a"}, TRUE, FALSE), Tx({"a"}, TRUE, FALSE), Tx({"r"}, FALSE, TRUE),
   Tx({"r", "f"}, TRUE, FALSE)}

MCOneKindOfFault == {{"kill"}, {"power"}}
MCBothFaults == {{"kill", "power"}}
=============================================================================
