SPECIFICATION Spec
CONSTANTS
  c1 = c1
  c2 = c2
  k1 = k1
  t1 = t1
  t2 = t2
  a = a
  b = b
  get = get
  None = None
  Segment <- MCSegments
  Subject <- MCSubjects
  Resource <- MCResources
  Instant = {1, 2, 3}
  Number <- MCNumbers
  Spelling <- MCSpellings
  Lower <- MCLower
  DEFAULT_STRATEGY = "token_bucket"
  Own = t1
  Key <- MCOneKey
  Tenant <- MCOneTenant
  Call <- MCOneCall
  PyCall <- MCOneCall
  SdkCall <- MCOneCall
  Named = {1}
  MaxPlans = 2
PROPERTY LatestPinWins
CHECK_DEADLOCK FALSE
