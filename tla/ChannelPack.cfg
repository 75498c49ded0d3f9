\* Four tracks anywhere on four coordinates.
SPECIFICATION FairPackSpec
CONSTANTS
  Keys = {k1, k2, k3, k4}
  MaxCoord = 3
INVARIANTS
  WidthIsDensity
PROPERTIES
  ImplementsAssignment
\* Packing terminates.
CHECK_DEADLOCK FALSE
