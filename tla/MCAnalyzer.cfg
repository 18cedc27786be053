SPECIFICATION Spec
CONSTANTS
  cf = cf
  lc = lc
  None = None
  Problems = {cf, lc}
  Inputs = {lc}
  Samples = {cf}
  Titled = {cf}
  Platform <- MCPlatform
  Hints <- MCHints
  Workflows = {"dify", "n8n"}
  PageSize = 1
  MaxAnalyses = 2
  MaxHistory = 3
  MaxRequests = 2
INVARIANTS TypeOK HistoryIsPage LinksAreOfShown AnalyzingHasCause
PROPERTY AnalysisEnds
