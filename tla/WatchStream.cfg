SPECIFICATION FairWatch
CONSTANTS
  Targets = {1, 2, 3}
  MaxChanges = 3
INVARIANTS AssertsHold OnlineMeansOpen ListenersAreServed
PROPERTY StateIsLearned
