\* Four kinds of small devices.
SPECIFICATION Spec
CONSTANTS
  Alphabet <- MCAlphabet
  Devices <- MCDevices
INVARIANTS
  PinsReachTheirBits
  PbTypeIsTheTile
  EquivalentTilesFit
  PadsHaveTheirPlace
  SynthTilesAreEmitted
  PrefixesFollowTheSubTiles
  PlaceholdersAreFilled
  DirectsMeetTheirPorts
\* The programs end.
CHECK_DEADLOCK FALSE
