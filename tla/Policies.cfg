SPECIFICATION FairSpec
CONSTANTS
  ann = ann
  bob = bob
  n1 = n1
  n2 = n2
  x = x
  y = y
  g = g
  s1 = s1
  s2 = s2
  r1 = r1
  r2 = r2
  Users = {ann, bob}
  Nodes = {n1, n2}
  Providers = {x, y}
  Groups = {g}
  Sources = {s1, s2}
  Requests = {r1, r2}
  Ticker = Ticker
  Asks <- Pages
  Starts <- Installed
  None = None
  Torn = Torn
  Bounds <- Few
INVARIANT TypeOK
INVARIANT ProvidersHaveTheirGroup
INVARIANT NodePrefsClean
INVARIANT GroupPrefsClean
INVARIANT ProviderPrefsClean
PROPERTY CleanupTakesOnlyDangling
PROPERTY RefreshOnlyRefreshes
PROPERTY KeptFresh
