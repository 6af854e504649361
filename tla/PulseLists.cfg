SPECIFICATION FairSpec
CONSTANTS
  Client = "client"
  Others = {}
  Warmer = "warmer"
  None = None
  MaxItems = 2
  MaxVotes = 1
  Voted = {0}
  Threshold = 2
  Limit = 1
INVARIANTS  AsksForExisting PagesSkipNothing
PROPERTIES EveryItemListed
