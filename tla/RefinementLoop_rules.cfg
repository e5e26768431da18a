SPECIFICATION FairSpec
CONSTANTS
  Ids = {1, 2, 3, 4, 5, 6}
  Contents <- AllContents
  NoTest = NoTest
  DoNotEdit = {1}
  HumanEdited = {2}
  Obligations = {"pay", "retry"}
  NoLink = NoLink
  Corrected <- Tidied
  Hardened <- HardenVague
  Revisions <- ReviseVague
  Made <- MadeForEach
  Grade <- Graded
  Fits <- Matching
  Alike <- SameText
  Deterministic = TRUE
  MaxIterations = 4
  MaxTests = 3
  MaxLlmCalls = 1
  StagnationRounds = 1
  MinGain = 1
  MaxResumes = 1
  Suites <- AnySuite
CHECK_DEADLOCK FALSE
INVARIANT CompleteIsCovered
INVARIANT SuiteBounded
PROPERTY CoverageKept
PROPERTY RunsEnd
