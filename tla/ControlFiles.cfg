SPECIFICATION Spec
CONSTANTS
  lenny = lenny
  sid = sid
  NoTrack = NoTrack
  Missing = Missing
  Tracks = {lenny, sid}
  Keys = {"Package", "Version", "Architecture", "Depends", "Source", "Essential", "Description", "Hash", "Origin", "Component", "Architectures", "Replaces", "Provides", "Pre-Depends", "Conflicts"}
  Capacity = 2
  MaxOutput = 3
  Files <- MCFiles
INVARIANTS  AttributesExact SettingsExact DependenciesKept UpstreamReadsBack
PROPERTY Ends
CHECK_DEADLOCK FALSE
