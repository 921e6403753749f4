SPECIFICATION FairSpec
CHECK_DEADLOCK FALSE
CONSTANTS
  r1 = r1
  r2 = r2
  u1 = u1
  u2 = u2
  t1 = t1
  t2 = t2
  p1 = p1
  p2 = p2
  d1 = d1
  d2 = d2
  Requests = {r1, r2}
  Uploads = {u1, u2}
  Tokens = {t1, t2}
  Passwords = {p1, p2}
  Default = p1
  Datas = {d1, d2}
  Disks <- ThreeDisks
  Archives <- Zip3
  Last = 4
  Kind <- Kinds
  Early = {2}
  Partial = Partial
  None = None
  Missing = Missing
  Torn = Torn
  Spoilt = Spoilt
  Setups <- Environments
  Bounds <- Few
INVARIANT TypeOK
INVARIANT OldPasswordSessionsGone
INVARIANT PasswordDurable
INVARIANT PendingWhole
INVARIANT SchemaComplete
PROPERTY ChangedBySession
PROPERTY AllOrNothing
PROPERTY ComesUp
