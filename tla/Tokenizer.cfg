CONSTANTS
  Texts <- SomeTexts
  Types <- Order
  Readers <- Handlers
  FallsBack = TRUE
SPECIFICATION FairSpec
INVARIANTS WinnerIsBest IntegersAreRead SpansAreDisjoint
PROPERTIES DriveEnds
CHECK_DEADLOCK FALSE
