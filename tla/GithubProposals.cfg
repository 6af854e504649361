SPECIFICATION GithubFairSpec
CONSTANTS
  Attempts = {"first", "second"}
  Names = {1, 2}
  Listers = {"warmer"}
  Cron = "cron"
  Nil = Nil
  PageSize = 1
  MaxCommits = 3
  MaxFails = 1
INVARIANTS PullHoldsProposal ListedOnce 
PROPERTY MergedListed
