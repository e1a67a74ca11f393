SPECIFICATION Spec
CONSTANTS
  NCases = 2
  MaxRunFaults = 2
  Operator = {o1, o2}
  MaxActFaults = 2
  MaxDeaths = 2
  Call = {k1, k2}
  None = None
  MaxRestarts = 1
  MaxClients = 3
  MaxCalls = 2
  MaxTimers = 2
  MaxEdits = 2
  MaxVersion = 3
  MaxLosses = 1
  NodeType <- AllTypes
  Drafts <- SomeDrafts
  Types <- SomeTypes
  MaxNodes = 3
  MaxTouches = 1
  Plans <- Templates
  Sent <- SentNodes
  Editor = {k1, k2}
  MaxHandled = 5
  Clerk = {k1, k2}
  MaxRequests = 6
INVARIANTS TypeOK CompletedIsCounted EvidenceStands VerifiedWasApplied RevertsAreCounted ServersAreOwned StoppedStaysDown OverwritesAreSeen LocalHasCause RepairsSettle SerialCallsAreSound DecisionStands
PROPERTY AllEnds
CHECK_DEADLOCK FALSE
