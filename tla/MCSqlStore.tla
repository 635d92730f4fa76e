----------------------------- MODULE MCSqlStore -----------------------------
(***************************************************************************)
(* A small instance of SqlStore for TLC: two recommendations and the         *)
(* adoption of one, and the transactions of dx learn that write them.        *)
(***************************************************************************)
EXTENDS SqlStore

CONSTANTS rec, other, adoption

Shape(writes, audited, skip) == [writes |-> writes, audited |-> audited, skip |-> skip]

\* accept of one and reject of the other; a pass, which is not audited, in both orders.
MCShapes ==
  {Shape(<<rec, adoption>>, TRUE, FALSE), Shape(<<other>>, TRUE, FALSE),
   Shape(<<rec, other>>, FALSE, TRUE), Shape(<<other, rec>>, FALSE, TRUE)}

=============================================================================
