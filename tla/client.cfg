CONSTANTS
  ann = ann
  ben = ben
  NoUser = NoUser
  Names = {ann, ben}
  Chats = {1, 2}
  MaxSent = 5
  MaxPeer = 1
  MemoryRunsOut = TRUE
SPECIFICATION Spec
INVARIANT TypeOK
INVARIANT LoginIsReal
INVARIANT ListedOnce
INVARIANT HistoryOfCurrentChat
INVARIANT LoginUnderWay
