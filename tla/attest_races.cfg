SPECIFICATION RacesSpec
CONSTANTS
  None = None  Challenge = {c1}  Nonce = {n1, n2, n3}  Provider = {p1, p2}  H = {h1, h2}
  LaneCount = 2  Work <- MCWork  ChallengeTtl = 4  MaxLaneTime = 3
  MaxTime = 4  MaxLatency = 1  MaxFaults = 1
INVARIANT TypeOK LanesInOrder ScoresEarned AttestedIsLogged BenchBounded
          OneAttestationInTurn FailedIsFinalInTurn
SYMMETRY Sym
