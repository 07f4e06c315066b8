SPECIFICATION Spec
CONSTANTS
  Unstated = Unstated
  NoPolicy = NoPolicy
  NoEvent = NoEvent
  NoClaim = NoClaim
  here = here
  away = away
  MediumFrom = 2
  HighFrom = 4
  CriticalFrom = 8
  MajorFrom = 6
  EdgeDays = 1
  LateDays = 5
  FewWords = 2
  ManyChanges = 1
  Tolerance = 1
  CatThreshold = 55
  FraudMedium = 35
  FraudHigh = 65
  LitigationWords = {"solicitor"}
  InjuryWords = {"hospital"}
  SpecialistLines = {"marine"}
  Phrases = {"water", "theft", "solicitor", "hospital"}
  Places = {here, away}
  Lines = {"property", "marine"}
  p1 = p1
  p2 = p2
  e1 = e1
  Policies = {p1, p2}
  Events = {e1}
  PolicyRow <- TwoPolicies
  EventRow <- OneEvent
  Notices <- OneNotice
  Readings <- FewReadings
  Corrections <- FewCorrections
  OfficerSeverities = {"low"}
  Signs <- FewSigns
  Failures = {"classification", "assessments", "summary"}
INVARIANT SignalsOnlyRaise
INVARIANT SuspicionNeedsTwo
INVARIANT LikelyCoveredIsSettled
INVARIANT AttributionIsConfirmed
PROPERTY OverridesStand
PROPERTY DeathsAreUrgent
PROPERTY FastTrackIsQuiet
