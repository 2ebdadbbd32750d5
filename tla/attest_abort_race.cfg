SPECIFICATION Spec
CONSTANTS
  None = None  Challenge = {c1}  Nonce = {n1, n2, n3}  Provider = {p1}  H = {h1, h2}
  LaneCount = 2  Work <- MCWork  ChallengeTtl = 3  MaxLaneTime = 2
  MaxTime = 4  MaxLatency = 1  MaxFaults = 0
INVARIANT FailedIsFinal
SYMMETRY Sym
