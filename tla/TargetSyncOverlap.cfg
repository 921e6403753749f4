SPECIFICATION Spec
CONSTANTS
  k1 = k1 k2 = k2 k3 = k3 k4 = k4
  p1 = p1 p2 = p2 p3 = p3
  c1 = c1 c2 = c2
  a = a b = b
  x = x y = y
  o1 = o1 o2 = o2
  Ids = {1, 2, 3, 4, 5}
  Keys = {k1, k2, k3, k4}
  Ports = {p1, p2, p3}
  Confs = {c1, c2}
  Emails = {a, b}
  Creds = {x, y}
  Owns = {o1, o2}
  Syncers = {s1, s2}
  MainChoices <- OverlapPlans
  TargetChoices <- OverlapTargets
  MaxFaults = 1
  MaxSwitches = 0
  MaxChanges = 1
  MaxImports = 1
SYMMETRY Requests
INVARIANT TypeOK
INVARIANT QuietMirrors
 
