CONSTANTS
  Workers = {w1, w2, w3}
  MaxTasks = 4
SPECIFICATION FairSpec
INVARIANT TypeOK
INVARIANT AllEndedOnReturn
INVARIANT NoWakeupLost
PROPERTY ImplementsTaskPool
PROPERTY EveryTaskRuns
PROPERTY StopReturns
PROPERTY WaitIdleReturns
