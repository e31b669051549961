\* The rules of survival: safety over two rounds
SPECIFICATION Spec
CONSTANTS
  p1 = p1
  p2 = p2
  Slots = {p1, p2}
  Mode = "survival"
  ZombieLives = 1
  MaxStartLives = 2
  MaxZombieLives = 3
  RoundLimit = 2
  RoundTimeLimited = TRUE
  SurvivorsPerZombie = 2
SYMMETRY Symmetry
INVARIANTS
  TypeOK
  RoundLockMatchesRound
  RoundScopedFlags
PROPERTIES
  RoundsFollowPhases
  NoLateSurvivors
