SPECIFICATION Spec
CONSTANTS
  IntWidth = 4
  Mantissa = 4
  CountLimit = 16
  Sources = {1, 2}
  MapSize = 4
  Ids <- MCIds
  IndexOf <- MCIndexOf
  LocationOf <- MCLocationOf
  BucketOf <- MCBucketOf
  Responses <- MCResponses
  Paths <- MCPaths
  MaxNavigations = 2
  MaxScripts = 1
  MaxRuns = 2
  MaxFaults = 1
INVARIANTS
  TypeOK
  EdgesAreMaxima
  HashOfWhatRan
  
PROPERTIES
  EveryRequestIsAnswered
CHECK_DEADLOCK FALSE
