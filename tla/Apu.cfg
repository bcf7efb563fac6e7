SPECIFICATION FairSpec
CONSTANTS
  Voice = {v1, v2}
  None = None
INVARIANTS
  TypeOK
PROPERTIES
  ImplementsLists
  FrameReports
  FrameEnds
  OffVoicesLeave
