SPECIFICATION Spec
CONSTANTS
  NoFile = NoFile
  NoBytes = NoBytes
  survey = survey
  photo = photo
  quote = quote
  plan = plan
  Requests = {r1, r2}
  Files <- FiveFiles
  Limit = 2
  Ids = {1, 2, 3, 4}
  Handlers <- AllRoutes
SYMMETRY Interchangeable
INVARIANT BytesAreTheRows
INVARIANT LostOnlyByRemoval
INVARIANT LimitInFlight
PROPERTY EmailIsWhole
