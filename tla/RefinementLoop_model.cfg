SPECIFICATION Spec
CONSTANTS
  Ids = {1, 2, 3, 4}
  Contents <- AllContents
  NoTest = NoTest
  DoNotEdit = {1}
  HumanEdited = {}
  Obligations = {"retry"}
  NoLink = NoLink
  Corrected <- Tidied
  Hardened <- HardenVague
  Revisions <- ReviseVague
  Made <- MadeForEach
  Grade <- Graded
  Fits <- Matching
  Alike <- SamePath
  Deterministic = FALSE
  MaxIterations = 3
  MaxTests = 3
  MaxLlmCalls = 4
  StagnationRounds = 2
  MinGain = 1
  MaxResumes = 0
  Suites <- SmallSuite
CHECK_DEADLOCK FALSE
INVARIANT TypeOK
PROPERTY DoNotEditRespected
INVARIANT OneTestPerGap
