CONSTANTS
  Names = {a, b}
  Settings = {s}
  Passwords = {p}
  Phrases = {m}
  Others = FALSE
  MaxFaults = 0
SPECIFICATION Spec
INVARIANT RefusedSaveKeepsProfile
