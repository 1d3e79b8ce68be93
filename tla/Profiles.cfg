CONSTANTS
  Names = {a, b}
  Settings = {s, t}
  Passwords = {p}
  Phrases = {m}
  Others = TRUE
  MaxFaults = 1
SPECIFICATION Spec
INVARIANTS
  TypeOK
  SealsOpen
  LaunchUnlocks
  SavedAsAsked
  SaveOnTrack
PROPERTIES
  SettingsKeepSeal
