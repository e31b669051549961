\* Survival without a round time: zombies and their lives
SPECIFICATION FairSpec
CONSTANTS
  p1 = p1
  p2 = p2
  Slots = {p1, p2}
  Mode = "survival"
  ZombieLives = 1
  MaxStartLives = 2
  MaxZombieLives = 2
  RoundLimit = 1
  RoundTimeLimited = FALSE
  SurvivorsPerZombie = 2
PROPERTIES
  ZombiesAreFound
  OutOfLivesStaysOut
