------------------------------ MODULE MCDying ------------------------------
(* One character, two handlers, damage up to twice its hit points.          *)
EXTENDS Dying, TLC

CONSTANTS g, h

MCHandlers == {g, h}
=============================================================================
