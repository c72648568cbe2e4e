SPECIFICATION Spec
CONSTANTS
  anna = anna
  bert = bert
  ogre = ogre
  potion = potion
  h1 = h1
  h2 = h2
  Nobody = Nobody
  Calls = {h1, h2}
  PCs = {anna, bert}
  Npcs = {ogre}
  Items = {potion}
  Wares = {potion}
  Price <- MCPrice
  Purse <- MCPurse
  Belongings <- MCBelongings
  Stock <- MCStock
  Parcels = {1, 2}
  Sums = {0, 3}
  MaxStarts = 4
INVARIANTS
  ItemsConserved
  GoldConserved
  FailuresDoNotCopyItems
  NeverOversold
  ClaimedOnce
CHECK_DEADLOCK FALSE
