SPECIFICATION Spec
CONSTANTS
  o1 = o1  p1 = p1  p2 = p2  None = None
  Offer = {o1}  Provider = {p1, p2}
  Owner <- MCOwner  ExpiresAt <- MCExpiresAt  Interval <- MCInterval
  TermsMsg <- TwoTerms  AvailMsg <- MCAvail  RevokeMsg <- MCRevoke
  TermsH = {t1}  AvailH = {a1}  RevokeH = {r1}  ReadH = {}  LiveH = {}
  SignedAtMaxFuture = 0  TermsMaxValidity = 3  AvailMaxValidity = 2
  Grace = 0  SnapshotTtl = 1
  MaxTime = 5  MaxLatency = 1  MaxFaults = 0
INVARIANT TermsSettled NewestAvailWins BusyBounded RevokeCleans
PROPERTY SeqNeverRegresses StatusLifecycle
