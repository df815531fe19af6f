SPECIFICATION FairSpec
CONSTANTS
  WorldSize = 2
  Decks <- TwoRankDecks
INVARIANTS
  NeighboursMutual
  MessageFits
  MessagesPaired
  PortsQuiet
  SharedValuesAgree
  GhostsCurrent
PROPERTIES
  EveryRankSynced
