SPECIFICATION Spec
CONSTANTS
  Width = 3
  Height = 2
  Depth = 2
  Circle = 4
  Grids <- MCGrids
  Blockings <- MCBlockings
  Endpoints <- MCEndpoints
  Searches <- MCSearches
CHECK_DEADLOCK FALSE
INVARIANTS BestFound NearestOfBest ModesApart
