SPECIFICATION FairSpec
CONSTANTS
  Voters = {v1, v2}
  Apis = {api}
  Notifier = notifier
  MaxBlock = 2
  MaxFails = 1
INVARIANTS NoInventedVotes TallyExact AnnouncedOrRedelivered
PROPERTIES EveryVoteCounted Converges
CHECK_DEADLOCK FALSE
