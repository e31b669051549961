\* A pick from stale volunteers
SPECIFICATION Spec
CONSTANTS
  s1 = s1
  s2 = s2
  s3 = s3
  Slots = {s1, s2, s3}
  h1 = h1
  h2 = h2
  h3 = h3
  People = {h1, h2, h3}
  Nobody = Nobody
  SurvivorsPerZombie = 2
  MaxOffers = 1
PROPERTIES
  RoundStartsWithAZombie
