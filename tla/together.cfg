SPECIFICATION FairSpec
CONSTANTS
  p1 = p1
  p2 = p2
  Free = Free
  NoPolicy = NoPolicy
  Policies = {p1}
  Candidates = {}
  Docs = {d1}
  Details <- ExactOnly
  Requests = {r1, r2}
  Handlers = {"process", "update_fields", "resolve_exception", "delete_document", "create_claim"}
  Reprocess = {FALSE}
  Answers = {"none"}
  OfficerDates = {"past"}
  OfficerDetails = {}
  Targets = {}
  StageFailures = {"scanned"}
INVARIANT LockDiscipline
PROPERTY ClaimPromised
PROPERTY ConversionStands
PROPERTY EveryRequestEnds
