CONSTANTS
  c1 = c1  c2 = c2  c3 = c3  k1 = k1
  Call <- TwoCalls
  Key <- OneKey
  Null = Null
  KeyOf <- OneKeyed
  Impatient <- Hasty
  Retries = 1
  Terms <- BothTerms
  Standard <- Guarded
  Most = 1
  x1 = x1  x2 = x2
  Copy = {x1, x2}
  MaxLosses = 1
SPECIFICATION FairSpec
SYMMETRY AnyCopy
INVARIANTS TypeOK AppliedOnce OncePerLoss OkMeansApplied SlotsMatch NeverWedged OneTrial
PROPERTIES Answered
