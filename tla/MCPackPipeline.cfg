SPECIFICATION FairSpec
CONSTANTS
  Import = {i1, i2}
  Call = {}
  Cert = {x1}
  Tenant = {}
  Attempts = 3
  Late = {l1, l2}
  Leftover = "absent"
  None = None
INVARIANT OneDriver
PROPERTIES FollowsLifecycle ImportsEnd
CHECK_DEADLOCK FALSE
