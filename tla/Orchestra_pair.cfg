SPECIFICATION Spec
CONSTANTS
  n1 = n1
  n2 = n2
  Nodes = {n1, n2}
  MaxDelay = 1
  Delays = {1}
  Times = {0}
  FirstBoots <- OneEarlier
  MaxNow = 2
  MaxSent = 3
  MaxRestarts = 1
  None = None
CHECK_DEADLOCK FALSE
INVARIANTS
  TypeOK
  SyncedTimeTracks
  FlipTogether
  NewestSceneWins
PROPERTY
  FlipsOnTime
