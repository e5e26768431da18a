SPECIFICATION Spec
CONSTANTS
  p1 = p1
  p2 = p2
  n0 = n0
  n1 = n1
  n2 = n2
  bug = bug
  need = need
  Projects = {p1, p2}
  NodeIds = {n1, n2}
  NoNode = NoNode
  Artifacts = {n2}
  Jobs = {w1}
  KeepLast = 3
  MaxLoads = 1
  MaxSaves = 2
  StoredUnder <- OneStored
  Names = {n0, n1, n2}
  Root = n0
  Flows <- Branches
  Depth = 8
  Risky = {n1}
  Failing = {n2}
  FailureNodes = {n2}
  Dependencies = {}
  CriticalNodes = {n1}
  Bugs = {bug}
  BugPath <- PathOfBug
  SevereBugs = {bug}
  Needs = {need}
  UrgentNeeds = {need}
  Drafts <- SomeDrafts
  Libraries <- NoneOrOne
  MaxCases = 8
  MaxSuite = 2
  PerGap = 2
  GapLimits = {0, 2}
  MaxRounds = 2
  KnownLimit = 2
  NoCase = NoCase
  Runs = {1, 2}
  Tasks = {"classify", "generate", "repair", "critic", "target", "review", "assess"}
  BaseModel <- OneModel
  StrongModel = "terra"
  DefaultModel = "mini"
  DemoFallback = TRUE
  Sensitive = {TRUE}
  NoModel = "none"
  MaxWaiting = 1
  Scopes = {p1}
  Files = {file}
  Pages = {page1}
  Texts = {x, y}
  Uploaded = {x}
  Workers = {w1, w2}
  MaxDocs = 2
  MaxSources = 1
  Nil = Nil
  States = {s1, s2}
  Requests = {w1, w2}
  Retries = 1
  MaxPairs = 3
  NoPair = Nil
CHECK_DEADLOCK FALSE
INVARIANT ServicesTypeOK
INVARIANT OpenGapsReported
INVARIANT TargetedTestsAreNew
INVARIANT WorkRecoverable
INVARIANT OneEnding
INVARIANT AnswerNamesItsModel
INVARIANT AckedDocumentsIndexed
INVARIANT SourcesIndexed
INVARIANT NewestPairKept
PROPERTY NodesStayHome
PROPERTY QueriesSettle
