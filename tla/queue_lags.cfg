SPECIFICATION Spec
CONSTANTS
  p1 = p1
  p2 = p2
  Free = Free
  NoPolicy = NoPolicy
  Policies = {p1, p2}
  Candidates = {}
  Docs = {}
  Details <- AmbiguousOnly
  Requests = {r1, r2}
  Handlers = {"process", "resolve_exception"}
  Reprocess = {FALSE}
  Answers = {"none"}
  OfficerDates = {}
  OfficerDetails = {}
  Targets = {}
  StageFailures = {}
SYMMETRY Interchangeable
PROPERTY QueueFollows
