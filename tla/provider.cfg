SPECIFICATION MCSpec
CONSTANTS
  MaxRuns = 2  MaxCalls = 7  MaxFaults = 1
  Lanes = 1  Quota = 1  AttLife = 2  Margin = 1  OfferDays = 1  OfferCap = 1  MaxDays = 1
  Driver = {d1, d2}  Chunks = 2  Members = 2  BinAt = 1  MaxMishaps = 2
  Worker = {0, 1}  SegLen = 2  Samples = 1  MaxSize = 5  MaxFlips = 1
INVARIANT AtMostOneEffect ChallengesNotWasted CacheTrusted VerdictRight
SYMMETRY Sym
CHECK_DEADLOCK FALSE
