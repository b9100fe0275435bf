CONSTANTS
  c1 = c1
  c2 = c2
  c3 = c3
  m1 = m1
  l1 = l1
  g1 = g1
  d1 = d1
  ann = ann
  ben = ben
  cid = cid
  Requests = {c1, c2, c3, m1, l1, g1, d1}
  MaxRequests = 4
  Kind <- SomeKinds
  Users = {ann, ben, cid}
  Pair <- SomePairs
  Names = {"name"}
  NameOf <- OneName
  Registered = {"name"}
  ChatNumbers = {1}
  MaxFailures = 1
SPECIFICATION Spec
INVARIANT TypeOK
INVARIANT OneTransaction
INVARIANT MembersInPairs
INVARIANT AnswersStored
