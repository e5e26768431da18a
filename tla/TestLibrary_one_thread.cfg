SPECIFICATION Spec
CONSTANTS
  t1 = t1
  t2 = t2
  i1 = i1
  i2 = i2
  i3 = i3
  NoText = "no text"
  Texts = {"first", "second"}
  Threads = {t1}
  Ids = {i1, i2}
  Numbered = {i1}
  Features = {"f"}
  Kinds = {"generate", "review", "override", "edit", "create", "delete", "drop"}
  Refined = {}
  Forcing = {FALSE}
  Formats = {TRUE}
  MaxAnalyses = 2
  Given <- OneOfEach
INVARIANT OverrideShown
PROPERTY GeneratedKept
