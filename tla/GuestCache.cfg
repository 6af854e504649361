SPECIFICATION Spec
CONSTANTS
  Procs = {"node"}
  One = {r1, r2}
  Other = {}
  Requests <- MCRequests
  Home <- MCHome
  WarmerHome = "node"
  Runs = {w1, w2}
  Queries = {"query"}
  NoQuery = "none"
  Batch = 2
  Threshold = 4
  RankTtl = 3
  ResponseTtl = 2
  MaxAwait = 1
  Start = 1
  MaxTime = 4
  MaxAsked = 4
SYMMETRY Alike
INVARIANTS RankedAsAsked WarmedIsAsked NoTtlExplained KeptAfterSilence FreshResponses
PROPERTIES ResponsesAdvance
CHECK_DEADLOCK FALSE
