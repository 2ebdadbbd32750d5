SPECIFICATION Spec
CONSTANTS
  p1 = p1  p2 = p2  a1 = a1  None = None
  Provider = {p1, p2}  Attestation = {a1}
  ProfileMsg <- MCProfile  OfferMsg <- MCOffer
  ProfileH = {h1, h4}  OfferH = {}
  OfferCap = 1  SignedAtMaxFuture = 0  TemplateMaxAhead = 2  AttestationTtl = 1
  MaxTime = 2

PROPERTY ProfileNeverRegresses

