SPECIFICATION Spec
CONSTANTS
  c1 = c1
  c2 = c2
  c3 = c3
  t1 = t1
  t2 = t2
  Tab = {t1, t2}
  Call = {c1, c2, c3}
  TabOf <- TwoCallsInOneTab
  HastySignIn = FALSE
  MaxSerial = 2
  Shopper = {s1, s2}
  MaxPending = 1
  MaxOrders = 3
  Transition = {x1, x2}
  MaxLots = 2
  MaxWrites = 2
  PhotoRequest = {p1, p2}
  Content = {k1, k2}
  Coin = {1}
  ImportOverlaps = FALSE
  MaxImages = 2
INVARIANTS
  OnlyRetiredIsDropped
  OneCustomerInBounds
  FilesFollowRows
PROPERTIES
  DecidedUnderTheLock
  RequestsAreAnswered
CHECK_DEADLOCK FALSE
