SPECIFICATION MCSpec
CONSTANTS
  Methods = {"GET", "HEAD"}
  RoutePaths <- MCRoutePaths
  RequestPaths <- MCRequestPaths
  MaxRoutes = 3
  Origins <- MCOrigins
  NoHeader = NoHeader
  Configured <- MCConfigured
  Years <- MCYears
  Resources <- MCResources
  Types <- MCTypes
  Locations <- MCLocations
  HeaderSize = 5
  StackSize = 15
  HeapSize = 20
  Arguments <- MCArguments
  MaxArguments = 3
  Unset = Unset
CHECK_DEADLOCK FALSE
INVARIANTS
  MostSpecific
  CanRouteTells
  PreflightsAgree
  DatesExact
  RecordsParse
  LinesRestored
