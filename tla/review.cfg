SPECIFICATION MCSpec
CONSTANTS
  own = own
  other = other
  MinReviewers = 1
  ForceFull = FALSE
  MinSharedStems = 3
  MergePercent = 55
  RelatedPercent = 40
  CorroborationBonus = 4
  Findings <- MCFindings
  MaxFile = 2
  Texts <- MCTexts
  Runs <- MCRuns
  Paths = {own, other}
  OwnPaths = {own}
  Contents <- MCContents
  Checkers <- MCCheckers
  HasTool = {"types", "lint"}
  Complains <- MCComplains
  MaxCommits = 2
  MaxReviews = 2
  core = core
  sec = sec
  ux = ux
  Always = {core}
  Optional <- MCOptional
  LiteCap = 2
  Drafts = {"one", "two"}
  Requests <- MCRequests
  Distill <- MCDistill
  MaxTurns = 2
INVARIANTS
  
  FoldKeeps
  CoveredHolds
  PlanOfNow
  PlanOnlyWaits
