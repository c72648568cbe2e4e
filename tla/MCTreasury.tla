----------------------------- MODULE MCTreasury -----------------------------
EXTENDS Treasury, TLC
CONSTANTS anna, bert, ogre, potion, h1, h2

MCPurse == (anna :> 2) @@ (bert :> 0) @@ (ogre :> 3)
MCBelongings == [c \in {anna, bert, ogre} |->
                    [i \in Items |-> IF c = bert THEN 0 ELSE 1]]
MCPrice == [w \in Wares |-> 2]
MCStock == [w \in Wares |-> 1]
=============================================================================
