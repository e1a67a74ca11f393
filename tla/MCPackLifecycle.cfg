SPECIFICATION Spec
CONSTANTS
  Import = {i1}
  Call = {c1, c2}
  Cert = {x1}
  Tenant = {t1}
  Attempts = 2
  Late = {l1}
  Leftover = "absent"
  None = None
PROPERTY BlockStands
CHECK_DEADLOCK FALSE
