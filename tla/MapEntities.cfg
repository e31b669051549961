SPECIFICATION Spec
CONSTANTS
  Clients = {a, b}
  Delay = 3
  Stay = 2
  Every = 1
  FirstThink = 1
  Frame = 1
  PerPlayer = 1
  MaxRate = 1
  Full = 1
  StartsEnabled = FALSE
  StartsLit = FALSE
  ChecksZombies = TRUE
  MapUses = {"off"}
  MapSets <- MCMapSets
  Scripted <- MCScripted
  o1 = o1
  o2 = o2
  None = None
  Objs = {o1, o2}
  First = o1
  NextObj <- MCNextObj
  AltObj <- MCAltObj
  UsesAlt = {o1, o2}
  Goal = o2
  Opener = o1
INVARIANTS TypeOK PaceIsOne DrawnAsItIs TextAsShown MoveIsDue
PROPERTIES ZombiesHoldItUp FiresForItsEnd TextMovesOn
