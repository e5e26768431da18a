SPECIFICATION Spec
CONSTANTS
  t1 = t1
  t2 = t2
  i1 = i1
  i2 = i2
  i3 = i3
  NoText = "no text"
  Texts = {"first", "second"}
  Threads = {t1, t2}
  Ids = {i1, i2}
  Numbered = {i1}
  Features = {"f"}
  Kinds = {"review", "edit"}
  Refined = {}
  Forcing = {TRUE}
  Formats = {TRUE}
  MaxAnalyses = 1
  Given <- OneGenerated
SYMMETRY ThreadSymmetry
INVARIANT EditKept
