SPECIFICATION Spec
CONSTANTS
  None = None
  Absent = Absent
  Empty = Empty
  Torn = Torn
  Sessions = {s1, s2}
  Trusted = {s1}
  Keys <- MCKeys
  RawValues <- MCRawValues
  junk = junk
  Valid <- MCValid
  Default <- MCDefault
  EditorTexts <- MCEditorTexts
  ReadsMayFail = TRUE
  MaxCommands = 2
INVARIANTS
  OffIsObeyed
PROPERTIES
  SavedAsIfAtOnce
