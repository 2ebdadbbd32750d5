SPECIFICATION MCSpec
CONSTANTS
  N = 3  Behavior <- MCBehavior  Price = {1}  OfferLife = 3  TermsValidity = 3  TermsTtl = 1
  Period = 1  RedisDelay = 2  MaxTime = 4  MaxCrashes = 1  NoValue = NoValue
  Persona = {r1, r2}  Ceiling <- MCCeiling  Fits <- MCFits  ByPrice = {r1, r2}
  RealPrice = {1, 2}  RealOffer = {9}  RunTime = 1  HttpDelay = 1  MaxJobs = 2
  Prov = {"p1", "p2"}  Offr = {1, 2}  OwnerOf <- MCOwnerOf  Cents = {1, 4}  Job = {j1}
  Ranges <- MCRanges  Retention = 1  StatsTtl = 1  MaxStatTime = 1  MaxMoves = 2  MaxComputes = 2
  Slot = {s1, s2}  Limit = 1  WindowLen = 2  MaxPerWindow = 3  MaxClock = 3  MaxOutages = 1
  Item = {1, 2, 3, 4}  Cost = {1, 2}  Seed = {"s1", "s2"}  Rank <- MCRank
  Asked = {1, 3, 4, 9}  PageMax = 3  CandidatesMax = 3  MaxChanges = 2
INVARIANT BooksBalance LedgerBacked OnlyLapseAlarms OneDummyOffer AggregatesCoherent LimitExact WalkSound
PROPERTY SeqFallsOnlyWhenOutrun
SYMMETRY Sym
CHECK_DEADLOCK FALSE
