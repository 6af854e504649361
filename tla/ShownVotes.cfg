SPECIFICATION FairSpec
CONSTANTS
  Polls = {"poll"}
  Liquid = {"liquid"}
  Legacy = {}
  Direct = "direct"
  Enabled = {"liquid"}
  Requests = {"request"}
  None = None
  MaxVotes = 1
  MaxFails = 1
INVARIANTS NoInventedVote 
PROPERTIES EveryVoteShown
CHECK_DEADLOCK FALSE
