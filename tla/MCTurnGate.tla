----------------------------- MODULE MCTurnGate -----------------------------
(* Commands of a player and the DM around two turns of that player.         *)
EXTENDS TurnGate, TLC

CONSTANTS ann, dm, cast, swing, quaff, walk, undo

MCUsers == {ann, dm}
MCResources == {"action", "attack", "feet"}
MCAllowance == ("action" :> 1) @@ ("attack" :> 2) @@ ("feet" :> 1)
MCOwner == <<ann, ann>>

(* A cast by the DM, an attack, /use of an item, a move button and the      *)
(* dashboard's restore.                                                     *)
MCKind == (cast :> "act") @@ (swing :> "act") @@ (quaff :> "use") @@ (walk :> "move") @@ (undo :> "restore")
MCBy == [c \in Cmds |-> IF c \in {cast, undo} THEN dm ELSE ann]
MCSpends == (cast :> "action") @@ (swing :> "attack") @@ (quaff :> "action") @@ (walk :> "feet") @@ (undo :> "action")
=============================================================================
