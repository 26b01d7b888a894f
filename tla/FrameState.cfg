SPECIFICATION FairSpec
CONSTANTS
  Places <- MCPlaces
  None = None
INVARIANTS
  TypeOK
  ChurnIsLoggedOnce
  LastLineIsCurrent
  LoadingSuppresses
PROPERTIES
  NoPublishIsLost
  ComesBackToTheBlock
