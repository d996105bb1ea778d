CONSTANTS
  N = 3
  MaxGroup = 2
  Half = 2
  MinWidth = 3
  Fails = TRUE
SPECIFICATION FairSpec
INVARIANTS
  MembersStay
  OneLeader
  ForwardsCaptured
PROPERTIES
  ArrivalsLeave
