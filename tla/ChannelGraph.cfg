\* Three tracks anywhere in the channels of a 3 by 2 grid.
SPECIFICATION FairSpec
CONSTANTS
  NumTracks = 3
  XMax = 2
  YMax = 1
INVARIANTS
  NoDuplicatePtc
  ChannelsAreFull
PROPERTIES
  EventuallyReturns
\* create_channels returns or raises.
CHECK_DEADLOCK FALSE
