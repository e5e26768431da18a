SPECIFICATION Spec
CONSTANTS
  t1 = t1
  t2 = t2
  i1 = i1
  i2 = i2
  i3 = i3
  NoText = "no text"
  Texts = {"first", "second"}
  Threads = {t1, t2}
  Ids = {i1, i2}
  Numbered = {i1, i2}
  Features = {"f"}
  Kinds = {"generate", "drop"}
  Refined = {}
  Forcing = {FALSE}
  Formats = {FALSE}
  MaxAnalyses = 1
  Given <- OneGenerated
SYMMETRY ThreadSymmetry
INVARIANT NothingLeft
