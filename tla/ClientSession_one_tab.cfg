SPECIFICATION Spec
CONSTANTS
  a = a
  c1 = c1
  c2 = c2
  Tabs = {a}
  Calls = {c1, c2}
  MaxPair = 3
INVARIANT TypeOK
INVARIANT RefusalsAreEarned
INVARIANT ReloadKeepsSession
PROPERTY RetriesCarryTheNewPair
PROPERTY CallsEnd
