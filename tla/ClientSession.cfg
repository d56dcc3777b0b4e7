SPECIFICATION FairSpec
CONSTANTS
  MaxAttempts = 6
  MaxClicks = 5
INVARIANTS
  TypeOK
  OneHandshake
PROPERTIES
  LossIsNoticed
  RetriesEnd
  LoadingEnds
