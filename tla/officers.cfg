SPECIFICATION Spec
CONSTANTS
  p1 = p1
  p2 = p2
  Free = Free
  NoPolicy = NoPolicy
  Policies = {p1, p2}
  Candidates = {c1}
  Docs = {d1}
  Details <- FewDetails
  Requests = {r1}
  Handlers = {"process", "update_fields", "select_policy", "resolve_duplicate", "transition", "confirm_cat_match", "upload_document"}
  Reprocess = {TRUE, FALSE}
  Answers = {"late", "future"}
  OfficerDates = {"past"}
  OfficerDetails = {}
  Targets <- AllTargets
  StageFailures <- AllStages
INVARIANT TypeOK
INVARIANT ConfirmedIsSelected
PROPERTY HumanDateStands
PROPERTY DecisionsKept
PROPERTY QueueFollows
