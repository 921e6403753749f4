SPECIFICATION Spec
CONSTANTS
  Loop = Loop
  Requests = {}
  Emails = {a}
  LastMonth = 1
  Length <- Calendar
  Days = {3}
  Interval = 1
  MaxUse = 1
  Troubles = {"save"}
  MaxTroubles = 1
  MaxUses = 0
  MaxAsks = 0
INVARIANT AtMostOneReset
