CONSTANTS
  None = None
  Words <- MCWords
  Names <- MCNames
  ShortWords = {}
  CompanyForms = {"ltd", "limited"}
  Ratio <- MCRatio
  Inside <- MCInside
  Policies <- MCPolicies
  Book <- MCBook
  Before <- MCBefore
  MaxCandidates = 2
  MaxShown = 5
  Reports <- MCReports
  File <- MCFile
  Newer <- MCNewer
  MaxScanned = 1
  Notices <- MCNotices
  Readings <- MCReadings
  Lines = {"marine"}
  Values <- MCValues
  MaxEdits = 1
  MaxChanges = 2
SPECIFICATION Spec
INVARIANT NumberFindsPolicy
INVARIANT RepeatIsAsked
INVARIANT OtherPolicyNeedsTwo
 
PROPERTY BindsWithoutJudgement
INVARIANT SelectionRaises
