SPECIFICATION Spec
CONSTANTS
  Unstated = Unstated
  NoPolicy = NoPolicy
  NoEvent = NoEvent
  NoRow = NoRow
  NoOne = NoOne
  MediumFrom = 2
  HighFrom = 4
  CriticalFrom = 8
  MajorFrom = 6
  EdgeDays = 1
  LateDays = 5
  FewWords = 2
  ManyChanges = 2
  Tolerance = 1
  CatThreshold = 55
  FraudMedium = 35
  FraudHigh = 65
  LitigationWords = {}
  InjuryWords = {}
  SpecialistLines = {}
  c1 = c1
  c2 = c2
  h1 = h1
  h2 = h2
  Claims = {c1, c2}
  Handlers = {h1, h2}
  Requests = {r1, r2}
  ClaimRow <- TwoClaims
  HandlerRow <- TwoHandlers
  Starting <- NoneYet
  Overrides <- OneOverride
  MaxOpen = 2
SYMMETRY AnyRequest
INVARIANT WorkloadCovers
INVARIANT OriginalIsEngines
INVARIANT OwnedIsNamed
