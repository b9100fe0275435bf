CONSTANTS
  s1 = s1
  s2 = s2
  s3 = s3
  f1 = f1
  f2 = f2
  alice = alice
  bob = bob
  NoSession = NoSession
  Listener = Listener
  EventFd = EventFd
  NoUser = NoUser
  Sessions = {s1, s2}
  Fds = {f1, f2}
  FdOf <- TwoNumbers
  EagerReuse = FALSE
  Users = {alice, bob}
  UsersOf <- EachOwn
  SlowPeers = {}
  Kinds = {"auth", "message"}
  MaxTasks = 3
  NumWorkers = 1
  MaxEvents = 1
SPECIFICATION Spec
INVARIANT NoPeerFault
