SPECIFICATION Spec
CONSTANTS
  MaxClients = 2
  Viewer = 1
  PerFrame = 2
  MaxPending = 2
  Sides = {"zombie"}
INVARIANTS
  TypeOK
  BoardAgrees
PROPERTIES
  EverySent
  KeepsItsPlace
