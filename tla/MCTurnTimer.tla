---------------------------- MODULE MCTurnTimer ----------------------------
(* A player and a creature at one table, a player at another, whose          *)
(* campaign has no channel.                                                  *)
EXTENDS TurnTimer, TLC

CONSTANTS aria, ghoul, bran, keep, crypt

MCTable == aria :> keep @@ ghoul :> keep @@ bran :> crypt
=============================================================================
