SPECIFICATION Spec
CONSTANTS
  s1 = s1
  s2 = s2
  ann = ann
  t1 = t1
  t2 = t2
  l1 = l1
  l2 = l2
  l3 = l3
  Slots = {s1, s2}
  Emails = {ann}
  Tokens = {t1, t2}
  Links = {l1, l2, l3}
  None = None
  Kinds = {"create", "patch", "delete", "invite", "accept", "forgot", "reset", "change", "login", "refresh", "logout"}
  Faults = {"mongo"}
SYMMETRY Interchange
INVARIANT TypeOK
INVARIANT DeletedIsInactive
INVARIANT SpentLinksDead
INVARIANT ReplacedBeforeRevoked
INVARIANT SessionsEnd
