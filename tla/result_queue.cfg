CONSTANTS
  Producers = {p1, p2}
  MaxPush = 4
SPECIFICATION FairSpec
INVARIANT TypeOK
PROPERTY ImplementsCommandQueue
PROPERTY SignalWakesMain
