\* The rules of objective, with a round time: two rounds, and what must happen in them
SPECIFICATION FairSpec
CONSTANTS
  p1 = p1
  p2 = p2
  Slots = {p1, p2}
  Mode = "objective"
  ZombieLives = 1
  MaxStartLives = 2
  MaxZombieLives = 2
  RoundLimit = 2
  RoundTimeLimited = TRUE
  SurvivorsPerZombie = 2
INVARIANTS
  EscapedWatches
PROPERTIES
  NextRoundFollows
  OnlyTheEscapedMissOut
  StartingLeadsOn
  RoundEnds
