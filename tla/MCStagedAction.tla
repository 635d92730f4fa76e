---------------------------- MODULE MCStagedAction ----------------------------
(***************************************************************************)
(* Instances of StagedAction: a run, a verification and a gate of one task,  *)
(* and two stages, the second a new proposal of the first.                   *)
(***************************************************************************)
EXTENDS StagedAction

CONSTANTS r1, r2, g1, m1, h1, h2, none, torn, f1, f2, p1, p2

MCCommands == {r1, r2, g1, m1, h1, h2}
MCFamilyOf == (r1 :> "role") @@ (r2 :> "role") @@ (g1 :> "gui") @@ (m1 :> "merge")
              @@ (h1 :> "staged") @@ (h2 :> "staged")
MCTaskOf == (r1 :> "T") @@ (r2 :> "T") @@ (g1 :> "T") @@ (m1 :> "T") @@ (h1 :> "S") @@ (h2 :> "S2")
MCPrior == [c \in MCCommands |-> IF c = h2 THEN h1 ELSE none]
MCFrames == {f1, f2}
MCPayloads == {p1, p2}

MCRegimes ==
  [cast : {{r1, m1}, {r2, g1}, {h1, m1}}, fresh : {{"frame"}}]
  \cup [cast : {{h1, m1}}, fresh : {Bindings}]
  \cup [cast : {{h1, h2}}, fresh : {{"frame"}}]

===============================================================================
