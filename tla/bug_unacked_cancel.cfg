SPECIFICATION Spec
CONSTANTS
  Scenes <- PlacedScenes
  MaxRe = 0
  MaxRefresh = 0
  Crowd = 1
INVARIANT
  CancelledIsAcked
