\* CheckZombieAmount after an escape
SPECIFICATION Spec
CONSTANTS
  p1 = p1
  p2 = p2
  Slots = {p1, p2}
  Mode = "objective"
  ZombieLives = 1
  MaxStartLives = 2
  MaxZombieLives = 2
  RoundLimit = 1
  RoundTimeLimited = FALSE
  SurvivorsPerZombie = 2
PROPERTIES
  DraftedPlayAsZombies
