CONSTANTS
  Files = {"lib", "map"}
  Plat = {"lib"}
  Modifiable = {}
  Library = "lib"
  Releases = 2
  Metadata <- MCMetadata
  MaxLaunches = 2
  MaxUpdates = 2
  MaxEdits = 1
SPECIFICATION Spec
INVARIANTS TypeOK TaskHasItsUpdate TaskOverWhenAnswered QuitLockedWhileInstalling NoStaleFile MetadataLeads
PROPERTIES EditsNeedConsent InstallationEnds AbortAnswered
CHECK_DEADLOCK FALSE
