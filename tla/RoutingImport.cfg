\* Two tiles, an output and an input, two tracks and the constant track.
SPECIFICATION Spec
CONSTANTS
  Keys = {"o", "i"}
  Outputs = {"o"}
  Tiles = {"a", "b"}
  Place <- MCPlace
  Tracks = {"T", "U", "V"}
  Devices <- MCDevices
  ConstantTrack = "V"
INVARIANTS
  SidesSuitEveryTile
  ClockLinesAreOn
  OnlyTheCurveStops
  RoutesAreTheDevices
PROPERTIES
  ImplementsExport
\* The import writes its files or raises.
CHECK_DEADLOCK FALSE
