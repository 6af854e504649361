SPECIFICATION FairSpec
CONSTANTS
  Requests = {"first", "second"}
  None = None
  NaN = NaN
  Balance <- Snapshots
  Amounts = {4, 9}
  Locked = 6
  MaxEpoch = 2
  MaxUpdates = 1
  MaxFails = 1
INVARIANT OfferSound
PROPERTIES OffersAccepted PowerSettles
CHECK_DEADLOCK FALSE
