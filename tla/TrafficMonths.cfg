SPECIFICATION Spec
CONSTANTS
  Loop = Loop
  Requests = {s1}
  Emails = {a}
  LastMonth = 1
  Length <- Calendar
  Days = {3}
  Interval = 1
  MaxUse = 1
  Troubles = {"fault", "restart", "save"}
  MaxTroubles = 1
  MaxUses = 1
  MaxAsks = 1
INVARIANT TypeOK
INVARIANT SingleReset
PROPERTY MonthlyReset
PROPERTY FreshEnough
