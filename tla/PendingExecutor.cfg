SPECIFICATION ExecutorFairSpec
CONSTANTS
  Keys = {"votes", "status"}
  Calls = {1, 2, 3}
  MaxVersion = 2
INVARIANTS SingleFlight NoStaleEntry
PROPERTIES AnswersInOrder EveryCallReturns
