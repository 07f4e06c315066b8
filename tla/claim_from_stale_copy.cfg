SPECIFICATION Spec
CONSTANTS
  p1 = p1
  p2 = p2
  Free = Free
  NoPolicy = NoPolicy
  Policies = {p1}
  Candidates = {}
  Docs = {}
  Details <- ExactOnly
  Requests = {r1, r2}
  Handlers = {"process", "update_fields", "create_claim"}
  Reprocess = {FALSE}
  Answers = {"past"}
  OfficerDates = {"late"}
  OfficerDetails = {}
  Targets = {}
  StageFailures = {}
SYMMETRY Interchangeable
PROPERTY ClaimIsCopy
