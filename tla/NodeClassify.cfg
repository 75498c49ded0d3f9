\* Every shape of a wire on a three by three grid, and every choice of up to
\* five pips between three pins and two wires.
SPECIFICATION NodeSpec
CONSTANTS
  a = a
  b = b
  c = c
  d = d
  e = e
  Nodes <- MCNodes
  Devices <- MCDevices
  XMax = 2
  YMax = 2
INVARIANTS
  PipsFindTheirTracks
  NullNodesCutNoRoute
  PointsMeetATrack
  TracksAreOneWire
\* The program ends.
CHECK_DEADLOCK FALSE
