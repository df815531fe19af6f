SPECIFICATION Spec
CONSTANTS
  WorldSize = 2
  Decks <- TwoRankDecks
INVARIANTS
  RhobZeroAtMetal
