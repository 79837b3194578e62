SPECIFICATION Spec
CONSTANTS
  Account = {a1, a2}
  Visit = {r1, r2}
  AccountKinds = {"login", "refresh", "logout", "set password", "promote", "demote", "activate", "deactivate"}
  SameRowOverlap = FALSE
  MaxVersion = 2
  Caller = {r1, r2}
  Address = {ad1}
  Username = {u1, u2}
  NoName = NoName
  Attempts <- FewAttempts
  Window = 2
  MaxKeys = 1
  SweepEvery = 3
  MaxNow = 3
  Filing = {r1, r2}
  Photograph = {a, b}
  Piece = {1, 2}
  Position = {1}
  DeleteOverlaps = FALSE
  MaxLinks = 2
  MaxPlace = 3
  Keeps = {1, 2}
  ComeAndGo = FALSE
  MaxPhoto = 2
  MaxEdit = 1
  MaxRun = 3
  Value = {x, y, z}
  CodeKeyed = {}
  Word = {long}
  TooLong = {long}
  Article = {i1}
  Request = {r1, r2}
  CrossMerges = FALSE
  LateMarks = FALSE
  LateLabels = FALSE
  MaxVersions = 2
  MaxNamings = 1
  Sided = {"grade_designation"}
  Serial = {"s1"}
  Year = {1, 2}
  Label = {"x", "X", "y"}
  Folded <- CaseAside
  Typed = {0, 1}
  MaxEntry = 2
  MaxRecord = 2
  MaxNumber = 2
  Clerk = {r1, r2}
  Handler = {r1, r2}
  Receipt = {"received", "missing"}
  Shelf = {"box"}
  Price = {5}
  Corrected = {4}
  Postage = {1}
  Division <- Divisions
  MaxSent = 1
  MaxRowVersion = 3
INVARIANTS
  ManagersRemain
  EndedSessionsStayEnded
  AttemptsAreLimited
  BackupsHold
  FitsItsKind
PROPERTIES
  PhotographsInOrder
  
  NothingDroppedUnnamed
  PurchasesStand
  RecordsTrue
SYMMETRY Alike
CHECK_DEADLOCK FALSE
