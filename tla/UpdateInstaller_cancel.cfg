CONSTANTS
  Files = {"lib"}
  Plat = {"lib"}
  Modifiable = {}
  Library = "lib"
  Releases = 1
  Metadata <- MCMetadata
  MaxLaunches = 1
  MaxUpdates = 1
  MaxEdits = 0
SPECIFICATION Spec
PROPERTIES CancelEnds
CHECK_DEADLOCK FALSE
