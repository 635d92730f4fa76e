--------------------------- MODULE MCLearnForward ---------------------------
(***************************************************************************)
(* Small instances of LearnForward for TLC: one recommendation of dx's,      *)
(* pxx's own proposal that competes for the same file name, and two dx       *)
(* commands.                                                                 *)
(***************************************************************************)
EXTENDS LearnForward

CONSTANTS k1, c1, c2
=============================================================================
