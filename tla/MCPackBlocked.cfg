SPECIFICATION Spec
CONSTANTS
  Import = {i1}
  Call = {c1}
  Cert = {x1, x2}
  Tenant = {t1}
  Attempts = 2
  Late = {l1}
  Leftover = "absent"
  None = None
PROPERTY BlockedIsFinal
CHECK_DEADLOCK FALSE
