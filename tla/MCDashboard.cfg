SPECIFICATION Spec
CONSTANTS
  A = A
  X = X
  Icao = {A, X}
  Places = {0, 1}
  InitialAircraft <- MCAircraft
  InitialHexagons <- MCHexagons
  Names = {0, 1}
  Radii = {15, None}
  MaxSockets = 3
  MaxReports = 2
  MaxDrops = 1
  MaxRemounts = 1
  MaxActs = 3
  None = None
INVARIANTS OneConnection UniqueIcao PanelIsHexagon
PROPERTIES ImplementsFleet
CHECK_DEADLOCK FALSE
