SPECIFICATION Spec
CONSTANTS
  a = a b = b c = c
  x = x y = y
  p1 = p1 p2 = p2
  Ids = {1, 2, 3}
  Emails = {a, b, c}
  Creds = {x, y}
  Prefs = {p1, p2}
  NoPref = NoPref
  Requests = {s1, s2}
  PanelChoices <- SmallPanels
  DbChoices <- OnlyKnown
  MaxFaults = 1
  MaxSlips = 1
  MaxCrashes = 0
  MaxChanges = 1
  MaxEdits = 0
SYMMETRY Swap
INVARIANT TypeOK
INVARIANT QuietImportsMirror
PROPERTY RowIdsStable
PROPERTY ImportRemovesOnlyAbsent
