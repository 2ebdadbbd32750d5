SPECIFICATION FairSpec
CONSTANTS
  o1 = o1  p1 = p1  p2 = p2  None = None
  Offer = {o1}  Provider = {p1, p2}
  Owner <- MCOwner  ExpiresAt <- MCExpiresAt  Interval <- MCInterval
  TermsMsg <- QuietTerms  AvailMsg <- QuietAvail  RevokeMsg <- MCRevoke
  TermsH = {t1}  AvailH = {a1}  RevokeH = {}  ReadH = {}  LiveH = {l1}
  SignedAtMaxFuture = 0  TermsMaxValidity = 3  AvailMaxValidity = 2
  Grace = 0  SnapshotTtl = 1
  MaxTime = 4  MaxLatency = 1  MaxFaults = 1
PROPERTY GoesQuiet
