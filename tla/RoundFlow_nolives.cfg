\* Joining without a life left
SPECIFICATION Spec
CONSTANTS
  p1 = p1
  p2 = p2
  p3 = p3
  Slots = {p1, p2, p3}
  Mode = "survival"
  ZombieLives = 1
  MaxStartLives = 2
  MaxZombieLives = 3
  RoundLimit = 1
  RoundTimeLimited = FALSE
  SurvivorsPerZombie = 2
SYMMETRY Symmetry
PROPERTIES
  NoZombieWithoutLives
