SPECIFICATION Spec
CONSTANTS
  a = a b = b c = c
  x = x y = y
  p1 = p1 p2 = p2
  Ids = {1, 2, 3}
  Emails = {a, b, c}
  Creds = {x, y}
  Prefs = {p1, p2}
  NoPref = NoPref
  Requests = {s1, s2}
  PanelChoices <- OnlyAfter
  DbChoices <- OnlyKnown
  MaxFaults = 0
  MaxSlips = 0
  MaxCrashes = 0
  MaxChanges = 0
  MaxEdits = 0
PROPERTY PlanKeepsLocalUsers
