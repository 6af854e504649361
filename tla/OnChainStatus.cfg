SPECIFICATION FairSpec
CONSTANTS
  Requests = {"request"}
  Warmer = "warmer"
  Procs = {"node"}
  Home <- MCHome
  FirstPhase = 3
INVARIANTS NotAhead
PROPERTIES SettledStays Settles
