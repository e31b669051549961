\* Three slots, three persons, one more zombie for every two survivors
SPECIFICATION FairSpec
CONSTANTS
  s1 = s1
  s2 = s2
  s3 = s3
  Slots = {s1, s2, s3}
  h1 = h1
  h2 = h2
  h3 = h3
  People = {h1, h2, h3}
  Nobody = Nobody
  SurvivorsPerZombie = 2
  MaxOffers = 1
INVARIANTS
  TypeOK
  QuotaIsCovered
  ListIsShort
PROPERTIES
  PickEnds
  LoopRunsDown
  PickIsOneStep
