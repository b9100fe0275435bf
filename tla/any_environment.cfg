CONSTANTS
  s1 = s1
  s2 = s2
  s3 = s3
  f1 = f1
  f2 = f2
  alice = alice
  bob = bob
  NoSession = NoSession
  Listener = Listener
  EventFd = EventFd
  NoUser = NoUser
  Sessions = {s1, s2}
  Fds = {f1}
  FdOf <- OneNumber
  EagerReuse = TRUE
  Users = {alice, bob}
  UsersOf <- EachOwn
  SlowPeers = {s1}
  Kinds = {"auth", "message"}
  MaxTasks = 3
  NumWorkers = 2
  MaxEvents = 2
SPECIFICATION Spec
INVARIANT TypeOK
INVARIANT MapsAgree
INVARIANT CounterBounded
INVARIANT TeardownQuiet
