SPECIFICATION FairSpec
CONSTANTS
  Scenes <- DialogScenes
  MaxRe = 2
  MaxRefresh = 1
  Crowd = 1
INVARIANTS
  TypeOK
  
  
PROPERTIES
  OneFinal
  SessionSpec
  InviteSettles
  AnswerIsHeard
