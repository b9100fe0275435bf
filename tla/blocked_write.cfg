CONSTANTS
  s1 = s1
  s2 = s2
  s3 = s3
  f1 = f1
  f2 = f2
  alice = alice
  bob = bob
  NoSession = NoSession
  Listener = Listener
  EventFd = EventFd
  NoUser = NoUser
  Sessions = {s1}
  Fds = {f1}
  FdOf <- OneNumber
  EagerReuse = FALSE
  Users = {alice}
  UsersOf <- Nobody
  SlowPeers = {s1}
  Kinds = {"request", "ignored"}
  MaxTasks = 2
  NumWorkers = 1
  MaxEvents = 2
SPECIFICATION Spec
INVARIANT NoTaskFault
