SPECIFICATION Spec
CONSTANTS
  ca = ca
  cb = cb
  cx = cx
  Users = {"ann", "Ann", "bob", "cy"}
  Fold <- Lower
  Creds = {ca, cb, cx}
  Databases <- Four
  FileNodes <- OldFile
  Panel <- TwoUsersPanel
  Templates <- Modes
  Defaults = {"main", "auto"}
  None = None
INVARIANT TypeOK
INVARIANT OwnCredentials
INVARIANT BestTemplate
INVARIANT SelectionHonoured
INVARIANT OnlyKnownFaults
INVARIANT UnselectedInvisible
